----------------------------- MODULE ContinuousScan -----------------------------
(***************************************************************************)
(* The continuous scanner of the client.  Its thread polls the averaged       *)
(* spectrum, tunes the decimators to the signals it finds, dwells on them and *)
(* moves on; over a range wider than the tuners it has heimdall retune from   *)
(* band to band, and every retune starts a calibration that feeds the antennas*)
(* with noise.  The scanner learns of it from the flags of the data packets   *)
(* only, and discards the average it may have spoilt.                         *)
(*                                                                           *)
(* A frequency is its band's centre, a multiple of Step, plus a position.     *)
(* Times are flags that the clock clears; what a clock action waits for is    *)
(* the timing assumed of the rest of the system.                              *)
(***************************************************************************)
EXTENDS Integers, Sequences, FiniteSets

CONSTANTS
    MaxBands,      \* bands of the widest range
    Positions,     \* where in a band a signal can be
    Step,          \* distance of two bands
    Airs,          \* signals in the air at the start
    Decs,          \* identifiers decimators can have
    MaxTracked,    \* MAX_TRACKED_SIGNALS
    MaxEmpty,      \* polls without a signal that are waited for
    ScanCommands,  \* commands of the user in this instance
    MaxScanCommands, MaxFaults   \* bounds

Bands == 0 .. MaxBands - 1

ASSUME ContinuousAssumption ==
    /\ MaxBands \in Nat \ {0} /\ Step \in Nat /\ MaxTracked \in Nat \ {0}
    /\ MaxEmpty \in Nat /\ Decs \subseteq Nat /\ IsFiniteSet(Decs)
    /\ Positions \subseteq 1 .. Step - 1
    /\ Airs \subseteq [Bands -> SUBSET Positions]
    /\ MaxScanCommands \in Nat /\ MaxFaults \in Nat

VARIABLES
    opt,      \* settings: wide, bands of the range, whether peaks are remembered
    me,       \* the scanner and what it has tuned
    thread,   \* its thread: pc, its copy of the average, whether it has paused
    who,      \* the web thread: idle, or waiting for the scanner's thread
    decs,     \* the decimators there are
    cmd,      \* the retune on its way to heimdall
    heim,     \* heimdall: its band and where its calibration is
    seen,     \* flags and frequency of the last packet
    fft,      \* the average: what is in it, whether it is valid, to be reset
    timer,    \* what has not run out: quiet, hold, dwell, settle; the 60 seconds
    air,      \* signals in the air, in each band
    aired,    \* history: those there have been
    trusted,  \* history: the band's scan began with a new average
    budget    \* commands and faults left

contVars == <<opt, me, thread, who, decs, cmd, heim, seen, fft, timer, air, aired,
              trusted, budget>>

None == -1
Centre(b) == Step * b
Free == [dec |-> None, f |-> 0]
NoSlots == [i \in 1 .. MaxTracked |-> Free]
Active(m) == {i \in 1 .. MaxTracked : m.slots[i].dec # None}
Sorted(S) == CHOOSE s \in [1 .. Cardinality(S) -> S] :
                \A i, k \in 1 .. Cardinality(S) : i < k => s[i] < s[k]

-----------------------------------------------------------------------------
\* Decimators and their slots.

\* The slot a lock of decimator d goes to: its own, or else the first free one.
SlotFor(m, d) ==
    LET own  == {i \in 1 .. MaxTracked : m.slots[i].dec = d}
        open == IF own # {} THEN own ELSE {i \in 1 .. MaxTracked : m.slots[i].dec = None}
    IN  IF open = {} THEN {} ELSE {CHOOSE i \in open : \A j \in open : i <= j}

First(m) == m.slots[CHOOSE i \in Active(m) : \A j \in Active(m) : i <= j].dec

\* tuneTo: the offset from the centre of the copy, the slot, the FM source.
TuneTo(m, d, f, centre) ==
    LET in == SlotFor(m, d)
        t  == [m EXCEPT !.offs[d] = f - centre,
                        !.slots = [i \in 1 .. MaxTracked |->
                                     IF i \in in THEN [dec |-> d, f |-> f] ELSE @[i]]]
    IN  [t EXCEPT !.fm = First(t)]

\* The first n available decimators take the n frequencies from index `from` on.
TuneAll(m, list, from, n, centre) ==
    LET tuned[k \in 0 .. n] ==
            IF k = 0 THEN m
            ELSE TuneTo(tuned[k - 1], Sorted(decs)[k], list[1 + ((from + k - 2) % Len(list))], centre)
    IN  tuned[n]

Smaller(a, b) == IF a < b THEN a ELSE b

-----------------------------------------------------------------------------
\* The band plan.

\* clearBandState
ClearBand(m) == [m EXCEPT !.mem = {}, !.slots = NoSlots]

\* Zeroes the offsets of the decimators that hold a signal.
Release(m) ==
    [m EXCEPT !.slots = NoSlots,
              !.offs = [d \in Decs |-> IF \E i \in Active(m) : m.slots[i].dec = d /\ d \in decs
                                       THEN 0 ELSE @[d]]]

\* initiateRetune
AlreadyAt(b) == seen.centre = Centre(b)
Retune(m, b) ==
    IF AlreadyAt(b) THEN [ClearBand([m EXCEPT !.band = b]) EXCEPT !.state = "scanning"]
    ELSE [Release(m) EXCEPT !.band = b, !.state = "retuning", !.started = FALSE, !.done = FALSE]

\* advanceToNextBand; without a plan nothing happens.
NextBand(m) == (m.band + 1) % m.plan
Advance(m) == IF m.plan = 0 THEN m ELSE Retune(m, NextBand(m))

\* What a retune of the plan from m to n sends and makes the client believe.
Sends(m, n) == m.state # "retuning" /\ n.state = "retuning"
Tells(m, n) ==
    /\ cmd' = IF Sends(m, n) THEN n.band ELSE cmd
    /\ seen' = IF Sends(m, n) THEN [seen EXCEPT !.centre = Centre(n.band)] ELSE seen
    /\ me' = n

-----------------------------------------------------------------------------
\* Heimdall and the packets.

Noisy(h) == h.cal \in {"work", "pulse"}
\* phase <= 3: anything from WAITING_LAG to VERIFYING; the cool-down after a
\* retune is a higher phase, like CONVERGED.
Low(h) == h.cal \in {"work", "pause"}

InAir(a) == UNION {{Centre(b) + p : p \in a[b]} : b \in Bands}

Flags == [noise |-> Noisy(heim), low |-> Low(heim), centre |-> Centre(heim.band)]

\* The client has had packets and frames of what heimdall is doing now.
Current == seen = Flags /\ fft.avg.band = heim.band

\* A poll takes no time to speak of: packets and frames may come in it.
Pace == thread.pc # "poll"

Fault == budget.faults > 0 /\ budget' = [budget EXCEPT !.faults = @ - 1]

\* The end of a retune resets the client's average if the client sees it.
Reset(a) == [a EXCEPT !.valid = FALSE, !.pending = TRUE]

Retuned ==
    /\ cmd # None /\ cmd' = None
    /\ heim' = [band |-> cmd, cal |-> "cool"]
    /\ fft' \in {fft, Reset(fft)}
    /\ UNCHANGED <<opt, me, thread, who, decs, seen, timer, air, aired, trusted, budget>>

CommandLost ==
    /\ cmd # None /\ cmd' = None /\ Fault
    /\ UNCHANGED <<opt, me, thread, who, decs, heim, seen, fft, timer, air, aired, trusted>>

\* The noise comes in bursts; a check of a calibration that stands is one burst.
\* Each lasts many packets, and a calibration many polls: one that is awaited is
\* seen.
CalSteps == {<<"cool", "work">>, <<"work", "pause">>, <<"pause", "done">>, <<"pulse", "done">>}
CalFaults == {<<"pause", "work">>, <<"done", "pulse">>, <<"pulse", "work">>}

CalibrationStep ==
    /\ Current
    /\ \E s \in CalSteps : heim.cal = s[1] /\ heim' = [heim EXCEPT !.cal = s[2]]
    /\ heim.cal = "pause" /\ me.running /\ me.state = "retuning" => me.started
    /\ UNCHANGED <<opt, me, thread, who, decs, cmd, seen, fft, timer, air, aired, trusted, budget>>

CalibrationTurn ==
    /\ \E s \in CalFaults : heim.cal = s[1] /\ heim' = [heim EXCEPT !.cal = s[2]]
    /\ Fault
    /\ UNCHANGED <<opt, me, thread, who, decs, cmd, seen, fft, timer, air, aired, trusted>>

\* A packet's flags are taken before its samples get to the average. Frames of
\* the packet before it may still be on their way.
Packet ==
    /\ seen # Flags /\ seen' = Flags
    /\ timer' = [timer EXCEPT !.quiet = IF seen'.noise THEN "new" ELSE @]
    /\ fft' = [fft EXCEPT !.stale = @ \/ seen.noise \/ fft.avg.band # heim.band]
    /\ UNCHANGED <<opt, me, thread, who, decs, cmd, heim, air, aired, trusted, budget>>

\* The average: the band of its last frame, and whether it is all of the
\* antennas there.
Fresh == [band |-> heim.band, pure |-> ~Noisy(heim)]
Blended(a) == [Fresh EXCEPT !.pure = @ /\ a.pure /\ a.band = heim.band]

\* A frame is averaged; the first after a reset takes the place of the average.
Averaged(avg) == [fft EXCEPT !.avg = avg, !.valid = TRUE, !.pending = FALSE]

Frame ==
    /\ seen = Flags
    /\ fft' = Averaged(IF fft.pending THEN Fresh ELSE Blended(fft.avg))
    /\ fft' # fft
    /\ UNCHANGED <<opt, me, thread, who, decs, cmd, heim, seen, timer, air, aired, trusted, budget>>

StaleFrame ==
    /\ fft.stale
    /\ fft' = Averaged([fft.avg EXCEPT !.pure = FALSE])
    /\ fft' # fft
    /\ UNCHANGED <<opt, me, thread, who, decs, cmd, heim, seen, timer, air, aired, trusted, budget>>

\* An exponential average forgets what is no longer received.
Forgets ==
    /\ seen = Flags /\ ~fft.stale
    /\ ~fft.pending /\ fft.avg # Fresh
    /\ fft' = [fft EXCEPT !.avg = Fresh]
    /\ UNCHANGED <<opt, me, thread, who, decs, cmd, heim, seen, timer, air, aired, trusted, budget>>

AirChanges ==
    /\ Fault
    /\ \E b \in Bands, p \in Positions :
        air' = [air EXCEPT ![b] = IF p \in @ THEN @ \ {p} ELSE @ \cup {p}]
    /\ aired' = aired \cup InAir(air')
    /\ UNCHANGED <<opt, me, thread, who, decs, cmd, heim, seen, fft, timer, trusted>>

-----------------------------------------------------------------------------
\* The clock. Packets and commands take far less than any of these times.

CaughtUp == cmd = None /\ Current

Alive == thread.pc # "none"

\* 750 ms without a packet that reports noise, in which the thread polls.
QuietPasses ==
    /\ Pace /\ ~seen.noise /\ Current
    /\ timer.quiet # "over" /\ (Alive => timer.quiet = "polled")
    /\ timer' = [timer EXCEPT !.quiet = "over"]
    /\ fft' = [fft EXCEPT !.stale = FALSE]
    /\ UNCHANGED <<opt, me, thread, who, decs, cmd, heim, seen, air, aired, trusted, budget>>

\* FFT_REBUILD_HOLD, in which frames and a poll come.
HoldPasses ==
    /\ Pace /\ timer.hold /\ Current /\ fft.valid /\ ~thread.old
    /\ timer' = [timer EXCEPT !.hold = FALSE]
    /\ UNCHANGED <<opt, me, thread, who, decs, cmd, heim, seen, fft, air, aired, trusted, budget>>

\* The dwell time and the half second of settling.
WaitPasses ==
    /\ Pace /\ timer.wait
    /\ me.state = "retuning" => CaughtUp
    /\ timer' = [timer EXCEPT !.wait = FALSE]
    /\ fft' = IF me.state = "retuning" THEN [fft EXCEPT !.stale = FALSE] ELSE fft
    /\ UNCHANGED <<opt, me, thread, who, decs, cmd, heim, seen, air, aired, trusted, budget>>

\* A retune has taken 60 seconds, in which the thread polls: heimdall never had it,
\* or is slow.
Stuck == heim.cal = "done" /\ ~me.started
MinutePasses ==
    /\ me.state = "retuning" /\ ~me.done /\ ~timer.late /\ CaughtUp
    /\ seen.noise \/ seen.low => me.started
    /\ IF Stuck THEN UNCHANGED budget ELSE Fault
    /\ timer' = [timer EXCEPT !.late = TRUE]
    /\ fft' = [Averaged(Fresh) EXCEPT !.stale = FALSE]
    /\ UNCHANGED <<opt, me, thread, who, decs, cmd, heim, seen, air, aired, trusted>>

-----------------------------------------------------------------------------
\* The scanner's thread: a copy of the average, then the poll.

NoCopy == [band |-> 0, pure |-> TRUE]
AtRest == [thread EXCEPT !.pc = "top", !.copy = NoCopy, !.centre = 0, !.state = "idle"]

Refresh ==
    /\ thread.pc = "top"
    /\ thread' = IF me.running
                 THEN [thread EXCEPT !.pc = "poll", !.copy = fft.avg, !.centre = seen.centre,
                                     !.old = fft.pending, !.state = me.state]
                 ELSE [AtRest EXCEPT !.pc = "none"]
    /\ UNCHANGED <<opt, me, who, decs, cmd, heim, seen, fft, timer, air, aired, trusted, budget>>

\* isCalibrationActive, for a scan over bands.
Unsettled_NoQuiet == seen.noise \/ seen.low
Unsettled == seen.noise \/ seen.low \/ timer.quiet # "over"
Calibrating == opt.wide /\ thread.state # "retuning" /\ Unsettled

\* A pause is over: the average is discarded.
Resumes == thread.paused /\ ~Calibrating
Ready == fft.valid /\ ~timer.hold /\ ~Resumes

\* findAllSignals: of a clean average what is in the air, else anything.
Found == IF thread.copy.pure THEN {air[thread.copy.band]} ELSE SUBSET Positions

Detected == {{thread.centre + p : p \in ps} : ps \in Found}

\* updatePeakMemory: what is found is remembered, what is old forgotten.
Remember(m, found) ==
    IF ~opt.decay THEN {{}} ELSE {found \cup kept : kept \in SUBSET m.mem}

\* The half second before the scan is too short for the quiet to end in it.
Settling == thread.state = "retuning" /\ me.done

\* A poll ends; it restarts the average when a pause is over or afresh.
Polled(afresh, waits) ==
    /\ thread.pc = "poll"
    /\ thread' = [AtRest EXCEPT !.paused = Calibrating, !.old = thread.old \/ Resumes \/ afresh]
    /\ fft' = IF Resumes \/ afresh THEN Reset(fft) ELSE fft
    /\ timer' = [timer EXCEPT !.hold = @ \/ Resumes \/ afresh, !.wait = waits,
                              !.quiet = IF @ = "new" /\ ~Settling THEN "polled" ELSE @,
                              !.late = @ /\ cmd' = cmd /\ me'.state = "retuning"]
    /\ trusted' = (trusted \/ afresh)
    /\ UNCHANGED <<opt, who, decs, heim, air, aired, budget>>

Still == UNCHANGED <<me, cmd, seen>>

\* The dwell countdown is held while heimdall calibrates.
Pauses ==
    /\ Calibrating /\ Still
    /\ Polled(FALSE, timer.wait \/ thread.state = "dwelling")

\* SCANNING without a clean average, and IDLE.
Waits ==
    /\ ~Calibrating /\ Still
    /\ \/ thread.state = "idle"
       \/ thread.state = "scanning" /\ ~Ready
    /\ Polled(FALSE, timer.wait)

\* SCANNING: tune to what there is, or go on after MaxEmpty polls.
Tunes ==
    /\ thread.state = "scanning" /\ ~Calibrating /\ Ready
    /\ \E found \in Detected \ {{}} : \E kept \in Remember(me, found) :
        LET m == [me EXCEPT !.mem = kept]
            n == Smaller(Cardinality(found), Cardinality(decs)) IN
        /\ me' = IF n = 0 THEN m
                 ELSE [TuneAll(m, Sorted(found), 1, n, thread.centre)
                         EXCEPT !.state = "dwelling", !.empty = 0]
        /\ UNCHANGED <<cmd, seen>>
    /\ Polled(FALSE, TRUE)

FindsNothing ==
    /\ thread.state = "scanning" /\ ~Calibrating /\ Ready
    /\ {} \in Detected
    /\ \E kept \in Remember(me, {}) :
        LET m == [me EXCEPT !.mem = kept] IN
        IF ~opt.wide THEN Tells(me, m)
        ELSE IF me.empty < MaxEmpty THEN Tells(me, [m EXCEPT !.empty = @ + 1])
        ELSE Tells(m, [Advance(m) EXCEPT !.empty = 0])
    /\ Polled(FALSE, timer.wait)

\* DWELLING. What is found and remembered; a lock that is still strong is
\* remembered too.
Heard == IF Ready THEN Detected ELSE {{}}
Locked(m) == {m.slots[i].f : i \in Active(m)}
Keeps(m, found) == Remember([m EXCEPT !.mem = @ \cup Locked(m)], found)

NothingTuned ==
    /\ thread.state = "dwelling" /\ ~Calibrating /\ Active(me) = {}
    /\ \E found \in Heard : \E kept \in Keeps(me, found) :
        me' = [me EXCEPT !.state = "scanning", !.mem = kept]
    /\ UNCHANGED <<cmd, seen>> /\ Polled(FALSE, timer.wait)

Dwells ==
    /\ thread.state = "dwelling" /\ ~Calibrating /\ Active(me) # {} /\ timer.wait
    /\ \E found \in Heard : \E kept \in Keeps(me, found) : me' = [me EXCEPT !.mem = kept]
    /\ UNCHANGED <<cmd, seen>> /\ Polled(FALSE, TRUE)

\* The first entry past all that is tuned; past the last, a scan over bands goes
\* on to the next one and another starts again.
Highest(m) == CHOOSE f \in Locked(m) : \A g \in Locked(m) : g <= f
NextIn(list, f) == {k \in DOMAIN list : list[k] > f}
LeastOf(S) == CHOOSE x \in S : \A y \in S : x <= y

SweepOn(m, list) ==
    LET n == Smaller(Smaller(Len(list), Cardinality(decs)), 3)
        later == NextIn(list, Highest(m))
        from == IF later = {} THEN 1 ELSE LeastOf(later) IN
    IF later = {} /\ opt.wide THEN [Advance(m) EXCEPT !.empty = 0]
    ELSE [TuneAll(m, list, from, n, thread.centre) EXCEPT !.empty = 0]

\* Nothing is left of the signals: after MaxEmpty polls the scan goes on.
Fades(m) ==
    IF m.empty < MaxEmpty THEN [m EXCEPT !.empty = @ + 1]
    ELSE LET f == [m EXCEPT !.slots = NoSlots, !.empty = 0] IN
         IF opt.wide THEN Advance(f) ELSE [f EXCEPT !.state = "scanning"]

DwellIsOver ==
    /\ thread.state = "dwelling" /\ ~Calibrating /\ Active(me) # {} /\ ~timer.wait
    /\ \E found \in Heard : \E kept \in Keeps(me, found) :
        LET m == [me EXCEPT !.mem = kept]
            list == Sorted(IF kept # {} THEN kept ELSE found) IN
        Tells(m, IF list = <<>> THEN Fades(m) ELSE SweepOn(m, list))
    /\ Polled(FALSE, me'.state = "dwelling" /\ me'.empty = 0)

\* RETUNING: the calibration begins, is over, has settled.
GivesUp(m) == [Advance(ClearBand(m)) EXCEPT !.empty = 0]

AwaitsStart ==
    /\ thread.state = "retuning" /\ ~me.started
    /\ IF seen.noise \/ seen.low THEN Tells(me, [me EXCEPT !.started = TRUE])
       ELSE IF timer.late THEN Tells([me EXCEPT !.state = "scanning"], GivesUp([me EXCEPT !.state = "scanning"]))
       ELSE Still
    /\ Polled(FALSE, FALSE)

AwaitsEnd ==
    /\ thread.state = "retuning" /\ me.started /\ ~me.done
    /\ IF ~Unsettled THEN Tells(me, [me EXCEPT !.done = TRUE])
       ELSE IF timer.late THEN Tells([me EXCEPT !.state = "scanning"], GivesUp([me EXCEPT !.state = "scanning"]))
       ELSE Still
    /\ Polled(FALSE, me'.done)

Settles ==
    /\ thread.state = "retuning" /\ me.done
    /\ IF timer.wait THEN Still /\ Polled(FALSE, TRUE)
       ELSE /\ Tells(me, [ClearBand(me) EXCEPT !.state = "scanning", !.empty = 0])
            /\ Polled(TRUE, FALSE)

Poll == \/ Pauses \/ Waits \/ Tunes \/ FindsNothing \/ NothingTuned \/ Dwells
        \/ DwellIsOver \/ AwaitsStart \/ AwaitsEnd \/ Settles

-----------------------------------------------------------------------------
\* The commands of the user, on the web thread.

Obeys(c) ==
    /\ c \in ScanCommands /\ who = "idle" /\ budget.commands > 0
    /\ budget' = [budget EXCEPT !.commands = @ - 1]

\* buildBandPlan keeps the plan there is if the range is invalid.
Plan == IF opt.wide /\ opt.range > 0 THEN opt.range ELSE me.plan

Start ==
    /\ Obeys("start") /\ ~me.running
    /\ LET m == [me EXCEPT !.running = TRUE, !.state = "idle", !.slots = NoSlots, !.mem = {},
                          !.plan = Plan, !.empty = 0,
                          !.band = IF opt.wide /\ Plan > 0 THEN 0 ELSE @]
       IN  Tells(m, IF opt.wide /\ Plan > 0 THEN Retune(m, 0) ELSE [m EXCEPT !.state = "scanning"])
    /\ thread' = [thread EXCEPT !.pc = "top", !.paused = FALSE]
    /\ timer' = [timer EXCEPT !.hold = FALSE, !.wait = FALSE, !.late = FALSE]
    /\ trusted' = FALSE
    /\ UNCHANGED <<opt, who, decs, heim, fft, air, aired>>

\* stop(): the flag, IDLE, the join, and what the thread has left.
Cleared(m) == [Release(m) EXCEPT !.mem = {}, !.band = 0]
Halted(m) == [m EXCEPT !.running = FALSE, !.state = "idle"]

Stop ==
    /\ Obeys("stop") /\ me.running
    /\ me' = Halted(me) /\ who' = "joining"
    /\ UNCHANGED <<opt, thread, decs, cmd, heim, seen, fft, timer, air, aired, trusted>>

MayClear == ~Alive

StopClears ==
    /\ who = "joining" /\ MayClear
    /\ who' = "idle" /\ me' = Cleared(me)
    /\ UNCHANGED <<opt, thread, decs, cmd, heim, seen, fft, timer, air, aired, trusted, budget>>

SetWideband ==
    /\ Obeys("wideband")
    /\ opt' = [opt EXCEPT !.wide = ~@]
    /\ trusted' = FALSE
    /\ UNCHANGED <<me, thread, who, decs, cmd, heim, seen, fft, timer, air, aired>>

SetRange(n) ==
    /\ Obeys("range") /\ n # opt.range
    /\ opt' = [opt EXCEPT !.range = n]
    /\ UNCHANGED <<me, thread, who, decs, cmd, heim, seen, fft, timer, air, aired, trusted>>

\* The last decimator stays; the FM source moves to the first other one.
RemoveDecimator(d) ==
    /\ Obeys("remove") /\ d \in decs /\ Cardinality(decs) > 1
    /\ decs' = decs \ {d}
    /\ me' = IF me.fm = d THEN [me EXCEPT !.fm = LeastOf(decs')] ELSE me
    /\ UNCHANGED <<opt, thread, who, cmd, heim, seen, fft, timer, air, aired, trusted>>

UserCommand == \/ Start \/ Stop \/ SetWideband
               \/ \E n \in 1 .. MaxBands : SetRange(n)
               \/ \E d \in Decs : RemoveDecimator(d)

-----------------------------------------------------------------------------
ScannerInit ==
    /\ opt \in [wide : BOOLEAN, range : {0, MaxBands}, decay : BOOLEAN]
    /\ opt.wide = (opt.range > 0)
    /\ me = [running |-> FALSE, state |-> "idle", plan |-> 0, band |-> 0, started |-> FALSE,
             done |-> FALSE, empty |-> 0, slots |-> NoSlots, mem |-> {},
             offs |-> [d \in Decs |-> 0], fm |-> LeastOf(Decs)]
    /\ thread = [pc |-> "none", copy |-> NoCopy, centre |-> 0,
                 old |-> FALSE, state |-> "idle", paused |-> FALSE]
    /\ decs \in (SUBSET Decs) \ {{}} /\ LeastOf(Decs) \in decs
    /\ who = "idle" /\ cmd = None
    /\ heim = [band |-> 0, cal |-> "done"]
    /\ seen = Flags
    /\ fft = [avg |-> Fresh, valid |-> TRUE, pending |-> FALSE, stale |-> FALSE]
    /\ timer = [quiet |-> "over", hold |-> FALSE, wait |-> FALSE, late |-> FALSE]
    /\ air \in Airs
    /\ aired = InAir(air)
    /\ trusted = FALSE
    /\ budget \in [commands : 0 .. MaxScanCommands, faults : 0 .. MaxFaults]

Heimdall == Retuned \/ CalibrationStep
Data == Packet \/ Frame \/ StaleFrame \/ Forgets
Clock == QuietPasses \/ HoldPasses \/ WaitPasses \/ MinutePasses
Scanning == Refresh \/ Poll

ScannerNext ==
    \/ Heimdall \/ CommandLost \/ CalibrationTurn \/ AirChanges
    \/ Data \/ Clock \/ Scanning \/ StopClears \/ UserCommand

ScannerFairness ==
    /\ WF_contVars(Retuned) /\ WF_contVars(CalibrationStep)
    /\ WF_contVars(Packet) /\ WF_contVars(Frame) /\ WF_contVars(Forgets)
    /\ SF_contVars(QuietPasses) /\ SF_contVars(HoldPasses)
    /\ SF_contVars(WaitPasses) /\ WF_contVars(MinutePasses /\ Stuck)
    /\ WF_contVars(Refresh) /\ WF_contVars(Poll)

ScannerSpec == ScannerInit /\ [][ScannerNext]_contVars /\ ScannerFairness

-----------------------------------------------------------------------------
\* Types, and the band within the plan.
ScannerTypeOK ==
    /\ opt \in [wide : BOOLEAN, range : 0 .. MaxBands, decay : BOOLEAN]
    /\ me.state \in {"idle", "scanning", "dwelling", "retuning"}
    /\ me.plan \in 0 .. MaxBands /\ me.band \in 0 .. MaxBands - 1
    /\ me.plan > 0 => me.band < me.plan
    /\ me.empty \in 0 .. MaxEmpty
    /\ \A i \in 1 .. MaxTracked : me.slots[i].dec \in Decs \cup {None}
    /\ me.fm \in Decs /\ decs \subseteq Decs /\ decs # {}
    /\ cmd \in Bands \cup {None} /\ heim.band \in Bands
    /\ thread.pc \in {"none", "top", "poll"} /\ who \in {"idle", "joining"}

(***************************************************************************)
(* A scan over bands that began with a new average only locks on, and only    *)
(* remembers, what is or was in the air where it says: neither the noise of a *)
(* calibration, however short its bursts and late its frames, nor what is     *)
(* left of another band gets into it (isCalibrationActive, scannerThread).    *)
(***************************************************************************)
LocksAreReal == (trusted /\ opt.wide) => (Locked(me) \cup me.mem) \subseteq aired

(***************************************************************************)
(* A lock names the frequency its decimator listens to, as long as there is   *)
(* the decimator: no retune and no lost command moves the one without the     *)
(* other (tuneTo, initiateRetune). A start while the retune of an earlier scan*)
(* is under way is another matter: until its first own retune the scan looks  *)
(* at the band heimdall is leaving.                                           *)
(***************************************************************************)
LocksAreTuned ==
    trusted => \A i \in Active(me) :
        me.slots[i].dec \in decs => me.slots[i].f = seen.centre + me.offs[me.slots[i].dec]

\* No decimator has two locks, however many there are and were (tuneTo).
OneLockEach ==
    \A i, j \in Active(me) : me.slots[i].dec = me.slots[j].dec => i = j

\* Once stop() is through, no poll under way has left a lock or a memory, and
\* none will: its thread is gone (stop).
StoppedIsClear ==
    (~me.running /\ who = "idle") => (Active(me) = {} /\ me.mem = {} /\ ~Alive)

(***************************************************************************)
(* Every band of the plan is scanned again and again: no lost command, no     *)
(* calibration that is missed or takes long, and no signal that stays keeps   *)
(* the scan from a band (advanceToNextBand, the timeouts of RETUNING).        *)
(***************************************************************************)
Wideband(m) == m.running /\ opt.wide /\ m.plan = MaxBands
EveryBandComesBack ==
    \A b \in Bands : <>[]Wideband(me) => []<>(me.band = b /\ me.state = "scanning")

(***************************************************************************)
(* A signal that stays in the air gets a decimator again and again, fewer     *)
(* decimators than signals or not, unless a decimator that is gone still has  *)
(* a lock: that one holds the sweep up for good (scannerThread, DWELLING).    *)
(***************************************************************************)
SignalsAreTuned ==
    \A b \in Bands, p \in Positions :
        <>[](/\ me.running /\ p \in air[b]
             /\ \A i \in Active(me) : me.slots[i].dec \in decs
             /\ IF opt.wide THEN Wideband(me) ELSE heim.band = b)
            => []<>(Centre(b) + p \in Locked(me))

\* What the continuous scanner locks on is there, is tuned to, and is let go.
LocksSound ==
    /\ ScannerTypeOK
    /\ LocksAreReal
    /\ LocksAreTuned
    /\ OneLockEach
    /\ StoppedIsClear
=============================================================================
