------------------------------ MODULE DiscreteScan ------------------------------
(***************************************************************************)
(* The discrete scanner of the suite.  Heimdall hops through a list of        *)
(* centre frequencies by itself; the client gives it the list, looks for      *)
(* signals in the stitched spectrum, and has a worker thread carry out the    *)
(* commands and delays of a lock (stop, coherent mode, the frequency) or of a *)
(* resumption (wideband mode, the list, start).  The user's commands arrive   *)
(* on the web thread while a worker is between two of its commands.           *)
(*                                                                           *)
(* Commands travel on one TCP connection, in order and without loss while it  *)
(* stands.  Frequencies are small even numbers; a tuning is the centre and     *)
(* whether the tuners are spread around it.                                   *)
(***************************************************************************)
EXTENDS Integers, Sequences, FiniteSets, SequencesExt

CONSTANTS
    Configs,      \* lists the user may load: sequences of [f, on]
    Grid,         \* frequencies on which the grouping is compared
    MaxSpan,      \* span of the spread tuners (9.6 MHz)
    CenterFreq,   \* CENTER_FREQ, what heimdall tunes to for want of a group
    Commands,     \* commands of this instance
    Prompt,       \* whether heimdall keeps up with the delays of a lock
    MaxCommands   \* bound: commands of the user

Frequencies == {CenterFreq} \cup UNION {{c[i].f : i \in DOMAIN c} : c \in Configs}

ASSUME ScanAssumption ==
    /\ CenterFreq \in Nat /\ MaxSpan \in Nat
    /\ \A c \in Configs : c \in Seq([f : Nat \ {0}, on : BOOLEAN])
    /\ IsFiniteSet(Grid) /\ \A f \in Grid : f \in Nat /\ f % 2 = 0

VARIABLES
    conf,     \* the client's configuration
    client,   \* running, state, wide, locked, settling, groups, FM and DoA
    web,      \* whether the web thread is in the delay of start()
    worker,   \* transition worker: pc, the index it was given, its copies
    chan,     \* commands on their way to heimdall
    server,   \* heimdall: scanner, mode, current_frequency, tuners
    ctl,      \* the control thread: what of a command it has still to do
    hop,      \* the scanner thread of heimdall
    crossed,  \* history: a command came across a scan or a transition
    left

scanVars == <<conf, client, web, worker, chan, server, ctl, hop, crossed, left>>

Abs(x) == IF x < 0 THEN -x ELSE x
Tuning(wide, f) == [wide |-> wide, f |-> f]
Command(op, f, list) == [op |-> op, f |-> f, list |-> list]
Simple(op) == Command(op, 0, <<>>)

\* The offset of a frequency from the centre of the tuners' spread.
Covers(t, f) == t.wide /\ 2 * Abs(f - t.f) <= MaxSpan

-----------------------------------------------------------------------------
\* Grouping: the enabled frequencies in ascending order, each in the group that
\* is being filled while it stays within its span.

Enabled(c) == {c[i].f : i \in {j \in DOMAIN c : c[j].on}}

Joins(g, f)           == f - g.min <= MaxSpan

Ascending(fs) == CHOOSE s \in [1 .. Cardinality(fs) -> fs] :
                    \A i, k \in 1 .. Cardinality(fs) : i < k => s[i] < s[k]

Grouped(gs, f) ==
    IF gs # <<>> /\ Joins(gs[Len(gs)], f)
    THEN [gs EXCEPT ![Len(gs)] = [@ EXCEPT !.max = f]]
    ELSE Append(gs, [min |-> f, max |-> f])

GroupsOf(fs) ==
    LET after[i \in 0 .. Cardinality(fs)] ==
            IF i = 0 THEN <<>> ELSE Grouped(after[i - 1], Ascending(fs)[i])
    IN  after[Cardinality(fs)]

Centers(gs) == [i \in DOMAIN gs |-> (gs[i].min + gs[i].max) \div 2]

GroupCenters == UNION {ToSet(Centers(GroupsOf(Enabled(c)))) : c \in Configs}

-----------------------------------------------------------------------------
\* The commands of the user, on the web thread.

WebIdle == web = "idle"
\* One that comes across a scan or transition is the last of the run.
Give(c, across) ==
    /\ c \in Commands /\ WebIdle /\ left > 0
    /\ left' = IF across THEN 0 ELSE left - 1
    /\ crossed' = (crossed \/ across)

Busy == worker.pc # "idle"

LoadConfig(c) ==
    /\ Give("load", FALSE) /\ c # conf
    /\ conf' = c
    /\ UNCHANGED <<client, web, worker, chan, server, ctl, hop>>

\* WIDEBAND_MODE: DoA is off in wideband mode and comes back after it.
ToWide(cl, on) ==
    IF on THEN [cl EXCEPT !.wide = TRUE, !.doaBefore = cl.doa, !.doa = FALSE]
    ELSE [cl EXCEPT !.wide = FALSE, !.doa = @ \/ cl.doaBefore]

WidebandMode(on) ==
    /\ Give("wideband", client.running \/ Busy)
    /\ client' = ToWide(client, on)
    /\ chan' = chan \o <<Simple(IF on THEN "wide" ELSE "coherent")>>
    /\ UNCHANGED <<conf, web, worker, server, ctl, hop>>

SetFrequency(f) ==
    /\ Give("frequency", client.running \/ Busy)
    /\ client' = IF client.wide THEN ToWide(client, FALSE) ELSE client
    /\ chan' = (chan \o (IF client.wide THEN <<Simple("coherent")>> ELSE <<>>)
                    \o <<Command("frequency", f, <<>>)>>)
    /\ UNCHANGED <<conf, web, worker, server, ctl, hop>>

\* start(): the list, a delay, the start.
MayStart(cl) == ~cl.running /\ cl.wide

StartScan ==
    /\ Give("start", Busy) /\ MayStart(client) /\ Enabled(conf) # {}
    /\ client' = [client EXCEPT !.groups = Centers(GroupsOf(Enabled(conf)))]
    /\ chan' = chan \o <<Command("configure", 0, client'.groups)>>
    /\ web' = "start"
    /\ UNCHANGED <<conf, worker, server, ctl, hop>>

StartGoes ==
    /\ web = "start" /\ web' = "idle"
    /\ chan' = chan \o <<Simple("start")>>
    /\ client' = [client EXCEPT !.running = TRUE, !.state = "scanning",
                                !.settling = TRUE, !.fmBefore = client.fm, !.fm = FALSE]
    /\ UNCHANGED <<conf, worker, server, ctl, hop, crossed, left>>

Stopped(cl) == [cl EXCEPT !.running = FALSE, !.state = "idle", !.fm = @ \/ cl.fmBefore]

StopScan ==
    /\ Give("stop", Busy) /\ client.running
    /\ chan' = chan \o <<Simple("stop")>>
    /\ client' = Stopped(client)
    /\ UNCHANGED <<conf, web, worker, server, ctl, hop>>

\* A dwell time is sent with the whole list.
SetDwell ==
    /\ Give("dwell", FALSE) /\ client.running
    /\ chan' = chan \o <<Command("configure", 0, client.groups)>>
    /\ UNCHANGED <<conf, client, web, worker, server, ctl, hop>>

NextSignal ==
    /\ Give("next", FALSE) /\ client.running /\ client.state = "locked" /\ ~Busy
    /\ worker' = [worker EXCEPT !.pc = "resume"]
    /\ UNCHANGED <<conf, client, web, chan, server, ctl, hop>>

-----------------------------------------------------------------------------
\* What the scanner makes of the spectrum.

MayAct == client.running /\ ~Busy

Looks == WebIdle /\ client.wide /\ MayAct /\ client.state = "scanning" /\ ~client.settling

Detect(i) ==
    /\ Looks
    /\ i \in DOMAIN conf /\ conf[i].on /\ Covers(server.hw, conf[i].f)
    /\ worker' = [worker EXCEPT !.pc = "lock", !.index = i]
    /\ UNCHANGED <<conf, client, web, chan, server, ctl, hop, crossed, left>>

\* The 1.5 s after a start or a resumption, the 3 s after a lock.
Settle ==
    /\ client.settling
    /\ client' = [client EXCEPT !.settling = FALSE]
    /\ UNCHANGED <<conf, web, worker, chan, server, ctl, hop, crossed, left>>

\* The signal is gone for the timeout, or 60 s are over.
LoseSignal ==
    /\ WebIdle /\ MayAct
    /\ client.state = "locked" /\ ~client.settling
    /\ worker' = [worker EXCEPT !.pc = "resume"]
    /\ UNCHANGED <<conf, client, web, chan, server, ctl, hop, crossed, left>>

-----------------------------------------------------------------------------
\* The worker.  Its delays are between its steps.

Rest == [pc |-> "idle", index |-> 1, f |-> 0, groups |-> <<>>]

\* The configuration may have become shorter, or another, in the meantime.
LockStop ==
    /\ worker.pc = "lock"
    /\ IF worker.index > Len(conf) THEN worker' = Rest /\ UNCHANGED chan
       ELSE /\ worker' = [worker EXCEPT !.pc = "coherent", !.f = conf[worker.index].f, !.index = 1]
            /\ chan' = chan \o <<Simple("stop")>>
    /\ UNCHANGED <<conf, client, web, server, ctl, hop, crossed, left>>

\* 50 ms "to let server process stop command".
ServerHasStopped_Never == TRUE
ServerHasStopped == Prompt => (chan = <<>> /\ hop.pc \notin {"read", "tune"})

LockCoherent ==
    /\ worker.pc = "coherent" /\ ServerHasStopped
    /\ client' = [client EXCEPT !.wide = FALSE]
    /\ chan' = chan \o <<Simple("coherent")>>
    /\ worker' = [worker EXCEPT !.pc = "frequency"]
    /\ UNCHANGED <<conf, web, server, ctl, hop, crossed, left>>

LockFrequency ==
    /\ worker.pc = "frequency"
    /\ chan' = chan \o <<Command("frequency", worker.f, <<>>)>>
    /\ worker' = [worker EXCEPT !.pc = "locked"]
    /\ UNCHANGED <<conf, client, web, server, ctl, hop, crossed, left>>

LockDone ==
    /\ worker.pc = "locked" /\ worker' = Rest
    /\ client' = [client EXCEPT !.state = "locked", !.locked = worker.f, !.settling = TRUE]
    /\ UNCHANGED <<conf, web, chan, server, ctl, hop, crossed, left>>

Resumable(cl)          == cl.state = "locked" /\ cl.groups # <<>>

ResumeWide ==
    /\ worker.pc = "resume"
    /\ IF ~Resumable(client)
       THEN worker' = Rest /\ UNCHANGED <<client, chan>>
       ELSE /\ worker' = [worker EXCEPT !.pc = "configure", !.groups = client.groups]
            /\ client' = [client EXCEPT !.wide = TRUE]
            /\ chan' = chan \o <<Command("wide", client.groups[1], <<>>)>>
    /\ UNCHANGED <<conf, web, server, ctl, hop, crossed, left>>

ResumeConfigure ==
    /\ worker.pc = "configure"
    /\ chan' = chan \o <<Command("configure", 0, worker.groups)>>
    /\ worker' = [worker EXCEPT !.pc = "start"]
    /\ UNCHANGED <<conf, client, web, server, ctl, hop, crossed, left>>

ResumeStart ==
    /\ worker.pc = "start" /\ worker' = Rest
    /\ chan' = chan \o <<Simple("start")>>
    /\ client' = [client EXCEPT !.state = "scanning", !.locked = 0, !.settling = TRUE]
    /\ UNCHANGED <<conf, web, server, ctl, hop, crossed, left>>

-----------------------------------------------------------------------------
\* Heimdall: its control thread takes one command after the other.  The settings
\* mutex is held through the whole return to coherent mode.

MutexFree == ctl # "coherent"

Take(op) == ctl = "idle" /\ chan # <<>> /\ Head(chan).op = op /\ chan' = Tail(chan)
ServerRest == <<conf, client, web, worker, hop, crossed, left>>

Configure ==
    /\ Take("configure")
    /\ server' = [server EXCEPT !.list = Head(chan).list, !.index = 0]
    /\ UNCHANGED <<ctl, ServerRest>>

StartCommand ==
    /\ Take("start")
    /\ server' = IF server.list = <<>> THEN server
                 ELSE [server EXCEPT !.enabled = TRUE, !.index = 0]
    /\ UNCHANGED <<ctl, ServerRest>>

StopCommand ==
    /\ Take("stop")
    /\ server' = [server EXCEPT !.enabled = FALSE]
    /\ UNCHANGED <<ctl, ServerRest>>

\* The mode changes under the mutex; the tuners are spread after it.
Spread(wide, base) == IF base # 0 \/ ~wide THEN "spread" ELSE "idle"

WideCommand ==
    /\ Take("wide")
    /\ ctl' = Spread(server.wide, Head(chan).f)
    /\ server' = [server EXCEPT !.wide = TRUE,
                                !.base = IF Head(chan).f # 0 THEN Head(chan).f
                                         ELSE IF server.wide THEN 0 ELSE server.freq]
    /\ UNCHANGED <<ServerRest>>

SpreadTuners ==
    /\ ctl = "spread" /\ ctl' = "idle"
    /\ server' = [server EXCEPT !.base = 0, !.hw = IF server.wide THEN Tuning(TRUE, server.base) ELSE @]
    /\ UNCHANGED <<chan, ServerRest>>

CoherentCommand ==
    /\ Take("coherent")
    /\ IF server.wide
       THEN /\ ctl' = "coherent"
            /\ server' = [server EXCEPT !.wide = FALSE, !.hw = Tuning(FALSE, server.freq)]
       ELSE UNCHANGED <<ctl, server>>
    /\ UNCHANGED ServerRest

\* The 500 ms for the noise source are over.
CoherentDone ==
    /\ ctl = "coherent" /\ ctl' = "idle"
    /\ UNCHANGED <<chan, server, ServerRest>>

FrequencyCommand ==
    /\ Take("frequency")
    /\ server' = [server EXCEPT !.freq = Head(chan).f,
                                !.base = IF server.wide THEN Head(chan).f ELSE 0,
                                !.hw = IF server.wide THEN @ ELSE Tuning(FALSE, Head(chan).f)]
    /\ ctl' = IF server.wide THEN "spread" ELSE "idle"
    /\ UNCHANGED ServerRest

-----------------------------------------------------------------------------
\* The scanner thread.  It looks at `enabled` at the top only, and stores the
\* next index after its dwell, whatever it has become in the meantime.

HopRest == <<conf, client, web, worker, chan, ctl, crossed, left>>

AtTop == [pc |-> "top", n |-> 1, index |-> 0, f |-> 0]

HopTop ==
    /\ hop.pc = "top" /\ server.enabled
    /\ hop' = [hop EXCEPT !.pc = "read", !.n = Len(server.list), !.index = server.index]
    /\ UNCHANGED <<server, HopRest>>

GroupAt(list, i) == IF i < Len(list) THEN list[i + 1] ELSE CenterFreq

HopRead ==
    /\ hop.pc = "read"
    /\ hop' = [hop EXCEPT !.pc = "tune", !.f = GroupAt(server.list, hop.index)]
    /\ UNCHANGED <<server, HopRest>>

HopTune ==
    /\ hop.pc = "tune" /\ MutexFree
    /\ server' = [server EXCEPT !.freq = hop.f, !.hw = Tuning(server.wide, hop.f)]
    /\ hop' = [hop EXCEPT !.pc = "dwell", !.f = 0]
    /\ UNCHANGED HopRest

NextIndex_Stays(i, n) == IF i + 1 < n THEN i + 1 ELSE i
NextIndex(i, n)       == (i + 1) % n

HopNext ==
    /\ hop.pc = "dwell"
    /\ server' = [server EXCEPT !.index = NextIndex(hop.index, hop.n)]
    /\ hop' = AtTop
    /\ UNCHANGED <<HopRest>>

-----------------------------------------------------------------------------
\* A configuration is loaded and wideband mode has been entered.
ScanInit ==
    /\ conf \in Configs /\ web = "idle" /\ chan = <<>> /\ ctl = "idle"
    /\ client = [running |-> FALSE, state |-> "idle", wide |-> TRUE, locked |-> 0,
                 settling |-> FALSE, groups |-> <<>>, fm |-> TRUE, fmBefore |-> FALSE,
                 doa |-> FALSE, doaBefore |-> TRUE]
    /\ worker = Rest
    /\ server = [enabled |-> FALSE, list |-> <<>>, index |-> 0, wide |-> TRUE,
                 freq |-> CenterFreq, base |-> 0, hw |-> Tuning(TRUE, CenterFreq)]
    /\ hop = AtTop
    /\ crossed = FALSE /\ left = MaxCommands

ScanNext ==
    \/ \E c \in Configs : LoadConfig(c)
    \/ \E on \in BOOLEAN : WidebandMode(on)
    \/ \E f \in Frequencies : SetFrequency(f)
    \/ StartScan \/ StartGoes \/ StopScan \/ SetDwell \/ NextSignal
    \/ Settle \/ LoseSignal
    \/ \E i \in DOMAIN conf : Detect(i)
    \/ LockStop \/ LockCoherent \/ LockFrequency \/ LockDone
    \/ ResumeWide \/ ResumeConfigure \/ ResumeStart
    \/ Configure \/ StartCommand \/ StopCommand \/ WideCommand \/ SpreadTuners
    \/ CoherentCommand \/ CoherentDone \/ FrequencyCommand
    \/ HopTop \/ HopRead \/ HopTune \/ HopNext

WorkerStep == LockStop \/ LockCoherent \/ LockFrequency \/ LockDone
              \/ ResumeWide \/ ResumeConfigure \/ ResumeStart
ControlStep == Configure \/ StartCommand \/ StopCommand \/ WideCommand \/ SpreadTuners
               \/ CoherentCommand \/ CoherentDone \/ FrequencyCommand
HopStep == HopTop \/ HopRead \/ HopTune \/ HopNext

ScanSpec ==
    /\ ScanInit /\ [][ScanNext]_scanVars
    /\ WF_scanVars(WorkerStep) /\ WF_scanVars(ControlStep) /\ WF_scanVars(HopStep)
    /\ WF_scanVars(StartGoes) /\ WF_scanVars(Settle) /\ WF_scanVars(LoseSignal)

-----------------------------------------------------------------------------
TypeOK ==
    /\ client.state \in {"idle", "scanning", "locked"}
    /\ worker.pc \in {"idle", "lock", "coherent", "frequency", "locked", "resume", "configure", "start"}
    /\ ctl \in {"idle", "coherent", "spread"} /\ web \in {"idle", "start"}
    /\ hop.pc \in {"top", "read", "tune", "dwell"} /\ hop.n > 0
    /\ server.freq \in Nat /\ server.index \in Nat
    /\ server.index > 0 => \E c \in Configs : server.index < Len(GroupsOf(Enabled(c)))

\* The moments in which nothing is under way between client and heimdall.
Quiet == /\ worker.pc = "idle" /\ web = "idle" /\ chan = <<>>
         /\ ctl = "idle" /\ hop.pc \in {"top", "dwell"}

(***************************************************************************)
(* The two ends agree whenever nothing is under way: as long as no command of *)
(* the user came in the middle of a scan or transition,                       *)
(* heimdall is in the client's mode; it hops exactly while the client scans;  *)
(* and while the client is locked, all its tuners are on that signal, however *)
(* the hop that was under way when the signal was found fell among the        *)
(* commands of the lock (lockOnSignal, resumeScanning, discrete_scanner_thread).*)
(***************************************************************************)
EndsAgree ==
    (Quiet /\ ~crossed) =>
        /\ client.wide = server.wide
        /\ server.enabled <=> (client.running /\ client.state = "scanning")
        /\ server.enabled => client.wide
        /\ (client.running /\ client.state = "locked") => server.hw = Tuning(FALSE, client.locked)

(***************************************************************************)
(* Whatever the user enables, each frequency is within the spread of a group, *)
(* and no fewer groups would do: each starts beyond the span of the one       *)
(* before (buildFrequencyGroups).                                             *)
(***************************************************************************)
GroupingIsTight ==
    \A fs \in SUBSET Grid :
        LET gs == GroupsOf(fs)
        IN  /\ \A f \in fs : \E i \in DOMAIN gs : Covers(Tuning(TRUE, Centers(gs)[i]), f)
            /\ \A i, k \in DOMAIN gs : i < k => gs[k].min - gs[i].min > MaxSpan

GroupsCover == client.running => GroupingIsTight

(***************************************************************************)
(* DoA never runs on the spread tuners: neither a resumption by the scanner   *)
(* nor a mode entered twice lets it on (WIDEBAND_MODE, FREQ, resumeScanning). *)
(***************************************************************************)
NoDoaOnSpread == (client.wide /\ ~crossed) => ~client.doa

(***************************************************************************)
(* The FM demodulator is as before the scan once it is over, a second scan    *)
(* started from any state included (start, stop).                             *)
(***************************************************************************)
FmComesBack == (~client.running /\ web = "idle") => client.fm

(***************************************************************************)
(* The scan reaches every group over and over while it goes on: no reset of   *)
(* the index by a new list or dwell time, and no store of an index computed   *)
(* for an older list, keeps it from one (discrete_scanner_thread).            *)
(***************************************************************************)
EveryGroupIsScanned ==
    \A f \in GroupCenters :
        (/\ []~crossed
         /\ <>[](client.running /\ client.state = "scanning" /\ ~Busy
                 /\ \E i \in DOMAIN client.groups : client.groups[i] = f))
        => []<>(server.hw = Tuning(TRUE, f))

(***************************************************************************)
(* A lock ends: the scanner leaves a signal that is gone, or after 60 s, and  *)
(* a transition that started comes to its end (updateFFTData, the workers).   *)
(***************************************************************************)
LockEnds == (client.running /\ client.state = "locked") ~> ~(client.running /\ client.state = "locked")

\* The list scan is sound: its two ends, its groups, and what it switches off.
ScanSound ==
    /\ TypeOK
    /\ EndsAgree
    /\ GroupsCover
    /\ NoDoaOnSpread
    /\ FmComesBack
=============================================================================
