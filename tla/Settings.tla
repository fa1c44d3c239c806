------------------------------ MODULE Settings ------------------------------
(***************************************************************************)
(* The settings of the DoA client: the commands of the browsers            *)
(* (control_handler.cpp), the store that remembers them and its file       *)
(* (settings_store.cpp), their replay when the receiver first connects,    *)
(* and the tuner of heimdall they are sent to (tcp_control_server.cpp).    *)
(*                                                                         *)
(* Two threads run commands: "web", the event loop of the browsers, and    *)
(* "recv", the data receiver, which replays the saved settings once per    *)
(* start. A third, the saver, writes the file. They share the store under  *)
(* a mutex of its own, the live settings as atomics, and one flag that     *)
(* tells whether commands are a replay and so are not to be recorded.      *)
(*                                                                         *)
(* A frequency is one of three: 0 is reached by the sides "high" and       *)
(* "low", 1 by "high" and "below", 2 by "below" alone, and each has an     *)
(* antenna ring of its own. A VFO is its offset.                           *)
(***************************************************************************)
EXTENDS Naturals, Sequences, FiniteSets, SequencesExt

CONSTANTS
    Sessions,      \* bounds: what happens in a run. The commands that browsers may
                   \* give and how many; how many faults (messages and connections
                   \* lost), writes that fail or come short (disk) and ends of the
                   \* process (by a signal or a crash); how many of all of these
                   \* together; whether they come after the replay of a start only
    Variant,       \* the client was started with --wideband
    PipeRoom,      \* bound: commands heimdall has not taken yet
    MaxVfos        \* MAX_DECIMATORS

ASSUME SizesAssumption ==
    /\ Variant \in BOOLEAN
    /\ PipeRoom \in Nat \ {0} /\ MaxVfos \in Nat \ {0}

VARIABLES
    live,      \* the settings in force: atomics, processors and VFOs
    synced,    \* sync_replay_store: what a new browser is told, by key
    store,     \* g_store
    dirty,     \* g_dirty
    replaying, \* g_replaying_settings
    thr,       \* the command each of the two threads is in, and those left
    saver,     \* the saver thread, then stop(): see SaverWakes and FinalFlush
    writer,    \* write_now: who is in it, where, and what it serialised
    file,      \* doa_settings.json
    tmp,       \* doa_settings.json.tmp
    phase,     \* of the process: "down", "up", "stopping"
    restored,  \* settings_restored
    view,      \* what a browser shows of the shared settings
    pipe,      \* commands on their way to heimdall
    heim,      \* the tuner of heimdall: frequency, mixer side, LO current
    left,      \* what is left of the bounds
    seen       \* history: what the properties need to know of the past

vars == << live, synced, store, dirty, replaying, thr, saver, writer, file, tmp,
           phase, restored, view, pipe, heim, left, seen >>

diskVars == << saver, writer, file, tmp >>
linkVars == << pipe, heim >>
procVars == << phase, restored >>

Threads == {"web", "recv"}
Nothing == << >>       \* no file or an empty one, no browser

(***************************************************************************)
(* The schema: the remembered settings in the order they are replayed, and *)
(* their defaults. "custom" stands for the positions of a custom array,    *)
(* "ui" for the display settings the client does not interpret.            *)
(***************************************************************************)
Schema == << "fm", "doa", "mixer_side", "frequency", "topology",
             "radius", "custom", "beamforming", "edge_clip", "vfos", "ui" >>

Keys == Range(Schema)

Defaults ==
    [k \in Keys |->
        CASE k \in {"fm", "doa"} -> TRUE
          [] k = "beamforming" -> FALSE
          [] k = "mixer_side" -> "high"
          [] k = "topology" -> "UCA"
          [] k = "vfos" -> [fm |-> 1, offsets |-> << 0 >>]
          [] OTHER -> 0]

(***************************************************************************)
(* A file is a function on the settings it holds. Of a write that came     *)
(* short it holds the first ones, in the order of the schema, the next one *)
(* perhaps cut off: of a toggle any beginning reads as off (bool_suffix).  *)
(* The numbers and names that a cut makes of others are left out.          *)
(***************************************************************************)
First(s, n) == [k \in {Schema[i] : i \in 1..n} |-> s[k]]

ShortOf(s) ==
    {First(s, n) : n \in 0..(Len(Schema) - 1)} \cup
    {[First(s, n) EXCEPT ![Schema[n]] = FALSE] :
        n \in {m \in DOMAIN Schema : Schema[m] \in {"fm", "doa", "beamforming"}}}

\* What load makes of a file: the default for a setting it lacks.
Loaded(f) == [k \in Keys |-> IF k \in DOMAIN f THEN f[k] ELSE Defaults[k]]

\* is_replayed_command, and the UI: keys, which are stored in the same way.
Replayed == {"topology", "radius", "custom", "edge_clip", "ui"}

(***************************************************************************)
(* The mixer sides: which frequencies each reaches, the side both ends     *)
(* select when theirs does not reach the frequency, and the radius (here   *)
(* the number) of the ring that goes with a frequency.                     *)
(***************************************************************************)
Frequencies == 0..2
Reach == [high |-> {0, 1}, low |-> {0}, below |-> {1, 2}]
AutoSide(f) == IF f \in {0, 1} THEN "high" ELSE "below"
Ring(f) == f
RingRadius(f) == 10 + Ring(f)

Kept(side, f) == IF f \in Reach[side] THEN side ELSE AutoSide(f)

(***************************************************************************)
(* The live settings when the process starts, before anything is replayed. *)
(***************************************************************************)
LiveInit ==
    [fm |-> TRUE, doa |-> TRUE, beamforming |-> FALSE,
     frequency |-> 0, mixer_side |-> "high", ring |-> 0,
     topology |-> "UCA", wbTopology |-> FALSE, radius |-> 0, custom |-> 0,
     edge_clip |-> 0, ui |-> 0,
     vfos |-> << [id |-> 0, offset |-> 0] >>, fmId |-> 0,
     wideband |-> FALSE, doaBefore |-> FALSE]

HeimInit == [frequency |-> 0, mixer_side |-> "high"]

(***************************************************************************)
(* The VFOs. A new one gets the smallest free identifier and no offset;    *)
(* the last is not removed; the FM source moves to the first of the others *)
(* when it is. What is remembered is the list in its order and the         *)
(* position of the FM source, because identifiers do not survive a start.  *)
(***************************************************************************)
Ids(l) == {l.vfos[i].id : i \in DOMAIN l.vfos}

\* The place of a VFO, and the k-th of the free identifiers.
Place(l, id) == CHOOSE i \in DOMAIN l.vfos : l.vfos[i].id = id

FreeId(l, k) == CHOOSE n \in 0..(MaxVfos - 1) :
                    n \notin Ids(l) /\ Cardinality((0..(n - 1)) \ Ids(l)) = k - 1

New(l, k) == [id |-> FreeId(l, k), offset |-> 0]

Added(l) ==
    IF Len(l.vfos) >= MaxVfos THEN l
    ELSE [l EXCEPT !.vfos = Append(@, New(l, 1))]

Removed(l, id) ==
    IF Len(l.vfos) <= 1 \/ id \notin Ids(l) THEN l
    ELSE LET rest == RemoveAt(l.vfos, Place(l, id))
         IN  [l EXCEPT !.vfos = rest,
                       !.fmId = IF @ = id THEN rest[1].id ELSE @]

Offset(l, id, o) ==
    [l EXCEPT !.vfos = [i \in DOMAIN @ |->
        IF @[i].id = id THEN [@[i] EXCEPT !.offset = o] ELSE @[i]]]

Snapshot(l) ==
    [fm |-> IF l.fmId \in Ids(l) THEN Place(l, l.fmId) ELSE 1,
     offsets |-> [i \in DOMAIN l.vfos |-> l.vfos[i].offset]]

\* What the loops of Added and of Removed, always of the last, come to for 1 to MaxVfos VFOs.
Resized(l, n) ==
    LET size == Len(l.vfos)
    IN  [l EXCEPT !.vfos = [i \in 1..n |-> IF i <= size THEN @[i] ELSE New(l, i - size)],
                  !.fmId = IF \E i \in (n + 1)..size : l.vfos[i].id = @ THEN l.vfos[1].id ELSE @]

FromSnapshot_NoFm(l, s) ==
    LET r == Resized(l, Len(s.offsets))
    IN  [r EXCEPT !.vfos = [i \in DOMAIN @ |-> [@[i] EXCEPT !.offset = s.offsets[i]]]]

FromSnapshot(l, s) ==
    LET r == Resized(l, Len(s.offsets))
    IN  [r EXCEPT !.vfos = [i \in DOMAIN @ |-> [@[i] EXCEPT !.offset = s.offsets[i]]],
                  !.fmId = r.vfos[s.fm].id]

VfoCommands == {"add", "remove", "offset", "set_fm"}

(***************************************************************************)
(* What a command, and a setting, may carry. Those of browsers are the     *)
(* settings but for the list of VFOs, which they change one at a time.     *)
(***************************************************************************)
Values(k) ==
    CASE k \in {"fm", "doa", "beamforming", "wideband"} -> BOOLEAN
      [] k = "frequency" -> Frequencies
      [] k = "mixer_side" -> DOMAIN Reach
      [] k = "topology" -> {"UCA", "ULA", "CUSTOM", "WIDEBAND"}
      [] k = "edge_clip" -> {0, 1, 9}
      [] k = "offset" -> Nat \X Nat
      [] k = "vfos" -> {v \in [fm : 1..MaxVfos, offsets : Seq(Nat)] :
                                Len(v.offsets) \in v.fm..MaxVfos}
      [] OTHER -> Nat

IsCommand(c) == c \in [key : {c.key}, val : Values(c.key)]

OfferedKeys == (Keys \ {"vfos"}) \cup VfoCommands \cup {"wideband", "malformed", "reset"}

ASSUME BoundsAssumption ==
    \A s \in Sessions :
        /\ s \in [offers : {s.offers}, commands : Nat, faults : Nat, disk : Nat,
                  restarts : Nat, events : Nat, late : BOOLEAN]
        /\ \A c \in s.offers : IsCommand(c) /\ c.key \in OfferedKeys

(***************************************************************************)
(* What a command does to the live settings, branch by branch of           *)
(* handle_message_impl. A frequency leaves the wideband scan, which gives  *)
(* DoA back; side and ring follow it later in the branch (FollowSide).     *)
(***************************************************************************)
LeaveWideband(l) ==
    [l EXCEPT !.wideband = FALSE, !.doa = @ \/ l.doaBefore]

Wideband(l, on) ==
    IF on THEN [l EXCEPT !.wideband = TRUE, !.doaBefore = l.doa, !.doa = FALSE]
    ELSE LeaveWideband(l)

Tune(l, f) == [IF l.wideband THEN LeaveWideband(l) ELSE l EXCEPT !.frequency = f]

FollowSide(l, f) ==
    [l EXCEPT !.mixer_side = Kept(@, f),
              !.ring = Ring(f),
              !.radius = IF l.wbTopology /\ Ring(f) # l.ring THEN RingRadius(f) ELSE @]

MixerSide(l, side) ==
    IF Variant /\ l.frequency \notin Reach[side] THEN l ELSE [l EXCEPT !.mixer_side = side]

Topology(l, t) ==
    LET wb == t = "WIDEBAND" /\ Variant
    IN  [l EXCEPT !.wbTopology = wb,
                  !.topology = IF t = "WIDEBAND" THEN "UCA" ELSE t,
                  !.radius = IF wb THEN RingRadius(l.ring) ELSE @]

Radius(l, r) == IF l.wbTopology THEN l ELSE [l EXCEPT !.radius = r]

CustomPositions(l, p) == [l EXCEPT !.custom = p, !.topology = "CUSTOM"]

Beamforming(l, on) == [l EXCEPT !.beamforming = on, !.doa = @ \/ (on /\ ~l.beamforming)]

\* A clip of 9 stands for one out of range, which is clamped.
EdgeClip(l, e) == [l EXCEPT !.edge_clip = IF e = 9 THEN 1 ELSE e]

Effect(l, c) ==
    CASE c.key = "frequency" -> Tune(l, c.val)
      [] c.key = "wideband" -> Wideband(l, c.val)
      [] c.key = "mixer_side" -> MixerSide(l, c.val)
      [] c.key = "topology" -> Topology(l, c.val)
      [] c.key = "radius" -> Radius(l, c.val)
      [] c.key = "custom" -> CustomPositions(l, c.val)
      [] c.key = "beamforming" -> Beamforming(l, c.val)
      [] c.key = "edge_clip" -> EdgeClip(l, c.val)
      [] c.key = "add" -> Added(l)
      [] c.key = "remove" -> Removed(l, c.val)
      [] c.key = "offset" -> Offset(l, c.val[1], c.val[2])
      [] c.key = "set_fm" -> [l EXCEPT !.fmId = c.val]
      [] c.key = "vfos" -> FromSnapshot(l, c.val)
      [] OTHER -> [l EXCEPT ![c.key] = c.val]

(***************************************************************************)
(* A VFO command that finds nothing to change is not recorded; a value     *)
(* that is refused or clamped is, as it was sent.                          *)
(***************************************************************************)
Refused(l, c) ==
    \/ c.key = "add" /\ Len(l.vfos) >= MaxVfos
    \/ c.key = "remove" /\ (Len(l.vfos) <= 1 \/ c.val \notin Ids(l))
    \/ c.key = "offset" /\ c.val[1] \notin Ids(l)

SideRefused(l, c) == c.key = "mixer_side" /\ Variant /\ l.frequency \notin Reach[c.val]

\* What send_control_command is called with in the branch of a command.
Messages(l, c) ==
    IF c.key = "frequency" \/ (c.key = "mixer_side" /\ Variant /\ ~SideRefused(l, c))
    THEN << c >> ELSE << >>

RecordedKey(c) == IF c.key \in VfoCommands THEN "vfos" ELSE c.key
RecordedValue(c) == IF c.key \in VfoCommands THEN Snapshot(live) ELSE c.val

Set(f, k, v) == [x \in DOMAIN f \cup {k} |-> IF x = k THEN v ELSE f[x]]

(***************************************************************************)
(* Initially the process is down; there may be no file yet.                *)
(***************************************************************************)
Idle == [pc |-> "idle", role |-> "user", todo |-> << >>,
         c |-> [key |-> "none", val |-> 0], out |-> << >>]

NoWriter == [who |-> "nobody", pc |-> "free", snap |-> Defaults]

Past == [crossed |-> FALSE, pristine |-> TRUE, failed |-> FALSE, asked |-> 9, short |-> FALSE]

Init ==
    /\ live = LiveInit /\ synced = << >> /\ store = Defaults
    /\ dirty = FALSE /\ replaying = FALSE
    /\ thr = [t \in Threads |-> Idle]
    /\ saver = "ended" /\ writer = NoWriter
    /\ file = Nothing /\ tmp = Nothing
    /\ phase = "down" /\ restored = FALSE
    /\ view = Nothing
    /\ pipe = << >> /\ heim = HeimInit
    /\ left \in Sessions
    /\ seen = [Past EXCEPT !.short = TRUE]   \* there is no whole file yet

Spend(b) ==
    /\ left[b] > 0 /\ left.events > 0 /\ (left.late => restored)
    /\ left' = [left EXCEPT ![b] = @ - 1, !.events = @ - 1]

(***************************************************************************)
(* main and load: what the file lacks is the default, and a file that      *)
(* lacks something is written before anything else runs. A write here may  *)
(* fail, or come short, like any other.                                    *)
(***************************************************************************)
Boot ==
    /\ phase = "down"
    /\ phase' = "up" /\ restored' = FALSE
    /\ live' = LiveInit /\ synced' = << >> /\ view' = Nothing
    /\ store' = Loaded(file) /\ tmp' = Nothing
    /\ \/ file' = store' /\ seen' = Past /\ UNCHANGED left
       \/ /\ DOMAIN file # Keys /\ Spend("disk")
          /\ file' \in {file} \cup ShortOf(store')
          /\ seen' = [Past EXCEPT !.failed = TRUE, !.short = TRUE]
    /\ dirty' = FALSE /\ replaying' = FALSE /\ saver' = "sleep"
    /\ UNCHANGED << thr, writer, linkVars >>

\* The process dies: everything is gone but the two files and heimdall.
Gone ==
    /\ phase' = "down" /\ restored' = FALSE
    /\ thr' = [t \in Threads |-> Idle]
    /\ saver' = "ended" /\ writer' = NoWriter
    /\ live' = LiveInit /\ synced' = << >> /\ store' = Defaults
    /\ view' = Nothing
    /\ dirty' = FALSE /\ replaying' = FALSE
    /\ seen' = [Past EXCEPT !.short = seen.short]

Crash ==
    /\ phase \in {"up", "stopping"} /\ Spend("restarts")
    /\ Gone
    /\ UNCHANGED << file, tmp, linkVars >>

(***************************************************************************)
(* The commands of a thread, one at a time. Impl is the part of the branch *)
(* before anything is sent; a malformed number throws in it, and nothing   *)
(* of the rest is done.                                                    *)
(***************************************************************************)
Active(t) == phase \in {"up", "stopping"} /\ thr[t].pc # "idle"
At(t, pc) == phase \in {"up", "stopping"} /\ thr[t].pc = pc
Goto(t, pc) == thr' = [thr EXCEPT ![t].pc = pc]

Next1(t, r) ==   \* the state of a thread once its command is done
    IF r.todo = << >> THEN [Idle EXCEPT !.role = r.role, !.pc = IF r.role = "user" THEN "idle" ELSE "end"]
    ELSE [r EXCEPT !.pc = "impl", !.c = Head(r.todo), !.todo = Tail(r.todo), !.out = << >>]

Receive == \E c \in left.offers :
    /\ phase \in {"up", "stopping"} /\ thr["web"].pc = "idle"
    /\ Spend("commands")
    /\ thr' = [thr EXCEPT !["web"] =
            [Idle EXCEPT !.pc = IF c.key = "reset" THEN "reset" ELSE "impl", !.c = c]]
    /\ seen' = [seen EXCEPT !.pristine = FALSE, !.crossed = @ \/ replaying]
    /\ UNCHANGED << live, synced, store, dirty, replaying, diskVars, procVars, view, linkVars >>

\* A broadcast. It is deferred to the event loop, which keeps the order.
Show(k, v) == view' = IF view = Nothing THEN view ELSE Set(view, k, v)

Impl(t) ==
    /\ At(t, "impl")
    /\ LET c == thr[t].c
           l == Effect(live, c)
       IN  IF c.key = "malformed" \/ Refused(live, c)
           THEN /\ thr' = [thr EXCEPT ![t] = Next1(t, @)]
                /\ UNCHANGED << live, store, dirty, view, seen >>
           ELSE /\ live' = l
                /\ IF l.doa # live.doa THEN Show("doa", l.doa) ELSE UNCHANGED view
                /\ IF SideRefused(live, c)
                   THEN store' = [store EXCEPT !.mixer_side = live.mixer_side] /\ dirty' = TRUE
                   ELSE UNCHANGED << store, dirty >>
                /\ seen' = [seen EXCEPT !.asked =
                        IF c.key = "frequency"
                        THEN IF \E u \in Threads \ {t} : thr[u].c.key \in {"frequency", "mixer_side"}
                             THEN 9 ELSE c.val
                        ELSE IF c.key = "mixer_side" THEN 9 ELSE @]
                /\ thr' = [thr EXCEPT ![t].out = Messages(live, c),
                                      ![t].pc = IF Messages(live, c) # << >> THEN "send" ELSE "record"]
    /\ UNCHANGED << synced, replaying, diskVars, procVars, linkVars, left >>

\* A command is dropped when both attempts to send it fail.
Send(t) ==
    /\ At(t, "send") /\ Len(pipe) < PipeRoom
    /\ thr' = [thr EXCEPT ![t].out = Tail(@),
                          ![t].pc = IF Variant /\ Head(thr[t].out).key = "frequency" THEN "side" ELSE "record"]
    /\ \/ pipe' = Append(pipe, Head(thr[t].out)) /\ UNCHANGED << left, seen >>
       \/ Spend("faults") /\ seen' = [seen EXCEPT !.asked = 9, !.pristine = FALSE] /\ UNCHANGED pipe
    /\ UNCHANGED << live, synced, store, dirty, replaying, diskVars, procVars, view, heim >>

(***************************************************************************)
(* The end of the branch FREQ with a converter: side and ring follow the   *)
(* frequency, a changed side is recorded whether this is a replay or not,  *)
(* and the side is sent in any case.                                       *)
(***************************************************************************)
FollowFrequency(t) ==
    /\ At(t, "side")
    /\ LET l == FollowSide(live, thr[t].c.val)
       IN  /\ live' = l
           /\ thr' = [thr EXCEPT ![t].pc = "send",
                                 ![t].out = << [key |-> "mixer_side", val |-> l.mixer_side] >>]
           /\ IF l.mixer_side # live.mixer_side
              THEN store' = [store EXCEPT !.mixer_side = l.mixer_side] /\ dirty' = TRUE
              ELSE UNCHANGED << store, dirty >>
    /\ UNCHANGED << synced, replaying, diskVars, procVars, view, linkVars, left, seen >>

(***************************************************************************)
(* What follows the branch of every command: the value for new browsers    *)
(* (store_for_replay); record, unless a replay is under way in whichever   *)
(* thread, the store first and the flag after it; the echo to the          *)
(* browsers.                                                               *)
(***************************************************************************)
Shown == Replayed \cup {"fm", "doa"}

Record(t) ==
    /\ At(t, "record")
    /\ LET c == thr[t].c
           k == RecordedKey(c)
       IN  /\ synced' = IF c.key \in Replayed THEN Set(synced, c.key, c.val) ELSE synced
           /\ IF c.key \in Shown THEN Show(c.key, c.val) ELSE UNCHANGED view
           /\ IF k \in Keys /\ ~replaying /\ store[k] # RecordedValue(c)
              THEN Goto(t, "mark") /\ store' = [store EXCEPT ![k] = RecordedValue(c)]
              ELSE thr' = [thr EXCEPT ![t] = Next1(t, @)] /\ UNCHANGED store
    /\ UNCHANGED << live, dirty, replaying, diskVars, procVars, linkVars, left, seen >>

Mark(t) ==
    /\ At(t, "mark")
    /\ dirty' = TRUE
    /\ thr' = [thr EXCEPT ![t] = Next1(t, @)]
    /\ UNCHANGED << live, synced, store, replaying, diskVars, procVars, view, linkVars, left, seen >>

(***************************************************************************)
(* The two replays. A reset writes the defaults first; both raise the      *)
(* flag, run the whole schema through the commands, and lower the flag.    *)
(***************************************************************************)
Commands(s) == [i \in DOMAIN Schema |-> [key |-> Schema[i], val |-> s[Schema[i]]]]

StartReplay(t, s) ==
    /\ replaying' = TRUE
    /\ thr' = [thr EXCEPT ![t] = Next1(t, [Idle EXCEPT !.role = "replay", !.todo = Commands(s)])]

ApplyPersisted ==
    /\ phase = "up" /\ ~restored /\ thr["recv"].pc = "idle"
    /\ StartReplay("recv", store)
    /\ seen' = [seen EXCEPT !.crossed = @ \/ thr["web"].pc # "idle"]
    /\ UNCHANGED << live, synced, store, dirty, diskVars, procVars, view, linkVars, left >>

EndReplay(t) ==
    /\ At(t, "end")
    /\ replaying' = FALSE
    /\ thr' = [thr EXCEPT ![t] = Idle]
    /\ restored' = (restored \/ t = "recv")
    /\ UNCHANGED << live, synced, store, dirty, diskVars, phase, view, linkVars, left, seen >>

ResetStore ==
    /\ At("web", "reset")
    /\ store' = Defaults /\ Goto("web", "clean")
    /\ UNCHANGED << live, synced, dirty, replaying, diskVars, procVars, view, linkVars, left, seen >>

ResetClean ==
    /\ At("web", "clean")
    /\ dirty' = FALSE /\ Goto("web", "write")
    /\ UNCHANGED << live, synced, store, replaying, diskVars, procVars, view, linkVars, left, seen >>

ResetReplay ==
    /\ At("web", "written")
    /\ StartReplay("web", store)
    /\ UNCHANGED << live, synced, store, dirty, diskVars, procVars, view, linkVars, left, seen >>

(***************************************************************************)
(* write_now, by the saver, the reset and the end of the process, one at a *)
(* time: serialise, truncate the second file, fill it, rename it. When it  *)
(* cannot be opened or renamed nothing is tried again: the flag is down.   *)
(* Nobody asks whether the stream took all of it: a second file that came  *)
(* short, as on a full disk, is renamed like a whole one.                  *)
(***************************************************************************)
Wants(who) == IF who = "saver" THEN saver \in {"write", "final"} ELSE At("web", "write")

MayWrite(who) ==
    writer.who = "nobody" /\ phase \in {"up", "stopping"} /\ Wants(who)

WriteStart(who) ==
    /\ MayWrite(who)
    /\ writer' = [who |-> who, pc |-> "fill", snap |-> store] /\ tmp' = Nothing
    /\ UNCHANGED << live, synced, store, dirty, replaying, thr, saver, file, procVars,
                    view, linkVars, left, seen >>

WriteDone(who) ==
    /\ writer' = NoWriter
    /\ IF who = "web" THEN Goto("web", "written") /\ UNCHANGED saver
       ELSE /\ saver' = IF saver = "final" THEN "ended"
                        ELSE IF phase = "stopping" THEN "joined" ELSE "sleep"
            /\ UNCHANGED thr

WriteFill ==
    /\ writer.pc = "fill"
    /\ writer' = [writer EXCEPT !.pc = "rename"] /\ tmp' = writer.snap
    /\ UNCHANGED << live, synced, store, dirty, replaying, thr, saver, file, procVars,
                    view, linkVars, left, seen >>

WriteShort ==
    /\ writer.pc = "fill" /\ Spend("disk")
    /\ writer' = [writer EXCEPT !.pc = "rename"] /\ tmp' \in ShortOf(writer.snap)
    /\ UNCHANGED << live, synced, store, dirty, replaying, thr, saver, file, procVars,
                    view, linkVars, seen >>

\* Whether what is renamed is the version, which the code does not know.
Renamed == [seen EXCEPT !.failed = tmp # writer.snap, !.short = tmp # writer.snap]

WriteRename_Clears ==
    /\ writer.pc = "rename"
    /\ file' = tmp /\ tmp' = Nothing
    /\ WriteDone(writer.who)
    /\ seen' = Renamed
    /\ dirty' = FALSE
    /\ UNCHANGED << live, synced, store, replaying, procVars, view, linkVars, left >>

WriteRename ==
    /\ writer.pc = "rename"
    /\ file' = tmp /\ tmp' = Nothing
    /\ WriteDone(writer.who)
    /\ seen' = Renamed
    /\ UNCHANGED << live, synced, store, dirty, replaying, procVars, view, linkVars, left >>

\* It cannot be opened, or not renamed.
WriteFails ==
    /\ Spend("disk")
    /\ \E who \in {"saver", "web"} :
        /\ MayWrite(who) \/ (writer.pc = "rename" /\ writer.who = who)
        /\ WriteDone(who)
    /\ seen' = [seen EXCEPT !.failed = TRUE]
    /\ UNCHANGED << live, synced, store, dirty, replaying, file, tmp, procVars, view, linkVars >>

(***************************************************************************)
(* The saver wakes, takes the flag down and writes. stop() waits for it    *)
(* and looks at the flag once more; the event loop of the browsers is      *)
(* still running then, and until _Exit.                                    *)
(***************************************************************************)
SaverWakes_AtStop ==
    /\ saver = "sleep" /\ phase \in {"up", "stopping"}
    /\ phase = "stopping"
    /\ saver' = IF dirty THEN "write" ELSE "joined"
    /\ dirty' = FALSE
    /\ UNCHANGED << live, synced, store, replaying, thr, writer, file, tmp, procVars,
                    view, linkVars, left, seen >>

SaverWakes ==
    /\ saver = "sleep" /\ phase \in {"up", "stopping"}
    /\ dirty \/ phase = "stopping"
    /\ saver' = IF dirty THEN "write" ELSE "joined"
    /\ dirty' = FALSE
    /\ UNCHANGED << live, synced, store, replaying, thr, writer, file, tmp, procVars,
                    view, linkVars, left, seen >>

Shutdown ==
    /\ phase = "up" /\ thr["recv"].pc = "idle" /\ Spend("restarts")
    /\ phase' = "stopping"
    /\ UNCHANGED << live, synced, store, dirty, replaying, thr, diskVars, restored,
                    view, linkVars, seen >>

FinalFlush ==
    /\ saver = "joined"
    /\ saver' = IF dirty THEN "final" ELSE "ended"
    /\ dirty' = FALSE
    /\ UNCHANGED << live, synced, store, replaying, thr, writer, file, tmp, procVars,
                    view, linkVars, left, seen >>

Exit ==
    /\ phase = "stopping" /\ saver = "ended"
    /\ Gone
    /\ UNCHANGED << file, tmp, linkVars, left >>

(***************************************************************************)
(* A browser connects, on the event loop: the toggles as they are, the     *)
(* rest as it was stored.                                                  *)
(***************************************************************************)
WebFree == phase \in {"up", "stopping"} /\ thr["web"].pc = "idle"

Connect ==
    /\ WebFree /\ view = Nothing
    /\ view' = Set(Set(synced, "fm", live.fm), "doa", live.doa)
    /\ UNCHANGED << live, synced, store, dirty, replaying, thr, diskVars, procVars, linkVars, left, seen >>

(***************************************************************************)
(* heimdall. A retune keeps the mixer side while it reaches the frequency  *)
(* and selects another when it does not; a side that does not reach the    *)
(* frequency in force is refused. The side is stored before the converter  *)
(* is programmed, which may fail, and the frequency after it.              *)
(***************************************************************************)
Obeyed(c) ==
    CASE c.key = "frequency" ->
            [heim EXCEPT !.frequency = c.val, !.mixer_side = IF Variant THEN Kept(@, c.val) ELSE @]
      [] OTHER ->
            [heim EXCEPT !.mixer_side = IF heim.frequency \in Reach[c.val] THEN c.val ELSE @]

HeimTakes ==
    /\ pipe # << >> /\ pipe' = Tail(pipe)
    /\ LET c == Head(pipe)
       IN  \/ heim' = Obeyed(c) /\ UNCHANGED << left, seen >>
          \/ /\ Variant /\ c.key = "frequency" /\ Spend("faults")
             /\ heim' = [Obeyed(c) EXCEPT !.frequency = heim.frequency]
             /\ seen' = [seen EXCEPT !.asked = 9]
    /\ UNCHANGED << live, synced, store, dirty, replaying, thr, diskVars, procVars, view >>

HeimRestarts ==
    /\ heim # HeimInit \/ pipe # << >>
    /\ Spend("faults")
    /\ heim' = HeimInit /\ pipe' = << >>
    /\ seen' = [seen EXCEPT !.asked = 9]
    /\ UNCHANGED << live, synced, store, dirty, replaying, thr, diskVars, procVars, view >>

(***************************************************************************)
(* Every packet carries the frequency of heimdall, and the client takes it *)
(* for the frequency of the channel (update_channel_info), on the thread   *)
(* that replays the settings before it reads a packet.                     *)
(***************************************************************************)
Header ==
    /\ phase = "up" /\ restored /\ live.frequency # heim.frequency
    /\ live' = [live EXCEPT !.frequency = heim.frequency]
    /\ UNCHANGED << synced, store, dirty, replaying, thr, diskVars, procVars, view, linkVars, left, seen >>

Run(t) ==
    \/ Impl(t) \/ Send(t) \/ FollowFrequency(t)
    \/ Record(t) \/ Mark(t) \/ EndReplay(t)

Reset == ResetStore \/ ResetClean \/ ResetReplay

Write ==
    \/ \E who \in {"saver", "web"} : WriteStart(who)
    \/ WriteFill \/ WriteRename

Next ==
    \/ Boot \/ Crash \/ Shutdown \/ FinalFlush \/ Exit
    \/ Receive
    \/ \E t \in Threads : Run(t)
    \/ ApplyPersisted \/ Reset
    \/ Write \/ WriteShort \/ WriteFails \/ SaverWakes
    \/ Connect
    \/ HeimTakes \/ HeimRestarts \/ Header

Spec == Init /\ [][Next]_vars

\* Threads that can go on do; nothing makes a browser, a fault or a restart happen.
Fairness ==
    /\ \A t \in Threads : WF_vars(Run(t))
    /\ WF_vars(Reset) /\ WF_vars(Write) /\ WF_vars(SaverWakes)
    /\ WF_vars(FinalFlush \/ Exit)

FairSpec == Spec /\ Fairness

-----------------------------------------------------------------------------
(***************************************************************************)
(* Types.                                                                  *)
(***************************************************************************)
TypeOK ==
    /\ live.frequency \in Frequencies /\ live.mixer_side \in DOMAIN Reach
    /\ live.edge_clip \in 0..1
    /\ live.doa \in BOOLEAN /\ live.beamforming \in BOOLEAN
    /\ Len(live.vfos) \in 1..MaxVfos /\ Cardinality(Ids(live)) = Len(live.vfos)
    /\ DOMAIN synced \subseteq Replayed
    /\ DOMAIN store = Keys
    /\ dirty \in BOOLEAN /\ replaying \in BOOLEAN
    /\ saver \in {"sleep", "write", "joined", "final", "ended"}
    /\ phase \in {"down", "up", "stopping"}
    /\ heim.frequency \in Frequencies /\ heim.mixer_side \in DOMAIN Reach

Settled == \A t \in Threads : thr[t].pc = "idle"

(***************************************************************************)
(* While nothing is being written and no thread is between the store and   *)
(* the flag, what is not in the file is announced by the flag - whichever  *)
(* of the saver, a reset and stop() took it down before - unless a write   *)
(* failed or came short, after which nothing tries again (flush,           *)
(* reset_to_defaults).                                                     *)
(***************************************************************************)
DirtyOrSaved ==
    phase # "down" /\ ~dirty /\ writer = NoWriter /\ saver \notin {"write", "final"}
        /\ (\A t \in Threads : thr[t].pc \notin {"mark", "clean", "write"})
    => file = store \/ seen.failed

(***************************************************************************)
(* From the first whole version on the file holds every setting, at every  *)
(* instant and so at every crash ("write it atomically so a crash can't    *)
(* leave it truncated"), and whatever fails and is noticed: only a write   *)
(* that came short, which nobody notices, leaves a file that lacks some,   *)
(* until the next write or start.                                          *)
(***************************************************************************)
FileWhole == DOMAIN file = Keys \/ seen.short

(***************************************************************************)
(* A start without commands of browsers ends with the settings that were   *)
(* saved in force: the toggles, DoA on where beamforming needs it, the     *)
(* VFOs and their FM source under new identifiers.                         *)
(***************************************************************************)
AsSaved(k) ==
    CASE k = "doa" -> live.doa = (store.doa \/ store.beamforming)
      [] k = "vfos" -> Snapshot(live) = store.vfos
      [] k = "edge_clip" -> live.edge_clip = EdgeClip(live, store.edge_clip).edge_clip
      [] OTHER -> live[k] = store[k]

RestoredAsSaved ==
    restored /\ seen.pristine /\ Settled =>
        \A k \in {"fm", "doa", "beamforming", "vfos", "edge_clip", "ui"} : AsSaved(k)

\* The same for the topology of the array: settings_store.hpp promises it of every setting.
TopologyRestored == restored /\ seen.pristine /\ Settled => AsSaved("topology")

(***************************************************************************)
(* Outside a replay every change of the VFOs, under whatever identifiers   *)
(* and positions, is in the store once its command is done, as are the     *)
(* toggles.                                                                *)
(***************************************************************************)
StoreFollows ==
    restored /\ Settled /\ ~seen.crossed =>
        /\ Snapshot(live) = store.vfos
        /\ live.fm = store.fm /\ live.beamforming = store.beamforming

(***************************************************************************)
(* Once both messages of the last FREQ have arrived, both ends have the    *)
(* same mixer side and heimdall the frequency, however far they had        *)
(* drifted apart before: a lost command, a restart of either end. A FREQ   *)
(* counts when the other thread is in no FREQ or MIXER_SIDE of its own:    *)
(* a side it has chosen and not sent yet would arrive last.                *)
(***************************************************************************)
RetuneConverges ==
    Variant /\ seen.asked # 9 /\ pipe = << >>
        /\ (\A t \in Threads : thr[t].c.key \notin {"frequency", "mixer_side"})
    => heim.frequency = seen.asked /\ heim.mixer_side = live.mixer_side

(***************************************************************************)
(* A browser that has been there all along shows what one that connects    *)
(* now is told: the stored commands, and the toggles as they are, which    *)
(* commands of other names change as well.                                 *)
(***************************************************************************)
BrowsersAgree ==
    view # Nothing /\ Settled /\ ~seen.crossed =>
        /\ view["fm"] = live.fm /\ view["doa"] = live.doa
        /\ \A k \in DOMAIN synced : k \in DOMAIN view /\ view[k] = synced[k]

\* What was recorded reaches the file, unless a write fails or comes short or the process ends.
SavedInTheEnd == dirty ~> (file = store \/ seen.failed \/ phase = "down")

\* The settings file holds every setting, but for writes that came short, and what
\* it is behind is known.
SaverSound ==
    /\ TypeOK
    /\ DirtyOrSaved
    /\ FileWhole

\* What is in force, saved, restored and shown, and what heimdall was sent, agree.
SettingsAgree ==
    /\ RestoredAsSaved
    /\ StoreFollows
    /\ RetuneConverges
    /\ BrowsersAgree
=============================================================================
