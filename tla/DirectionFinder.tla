--------------------------- MODULE DirectionFinder ---------------------------
(***************************************************************************)
(* One decimator of the direction finding client, from a block of samples   *)
(* to the bearing on the page: the task that mixes, labels and gates the     *)
(* block, the MUSIC processor with its accumulator, temporal average, source *)
(* count and squelch gate, and the squelch that learns its own threshold.    *)
(* The web thread changes every setting at any point of the task.            *)
(*                                                                           *)
(* A sample is its number.  Frequencies and offsets are small numbers, more  *)
(* than 1 kHz apart; what the numbers of a frame come to (eigenvalue ratio,  *)
(* estimated number of sources, FFT peak) is chosen.  MUSIC holds            *)
(* config_mutex_ through a block and in every setter, so each is one step.   *)
(***************************************************************************)
EXTENDS Integers, Sequences, FiniteSets, SequencesExt

CONSTANTS
    Elements,      \* largest element count of the array
    BlockSizes,    \* decimated samples of a block
    SnapLength, Overlap, NumSnaps, MinSnaps,      \* MUSICConfig
    BufferSize,    \* nextPowerOf2(3 * SnapLength * NumSnaps)
    StableFrames,  \* AUTO_SOURCES_STABLE_FRAMES
    Offsets,       \* offsets the page offers
    Frequencies,   \* frequencies of the tuners
    Stored,        \* settings of the last run: [method, squelch, autoK]
    Settings,      \* settings the page changes in this instance
    MaxBlocks,     \* bound: blocks
    MaxEvents      \* bound: changes of settings, tuning or noise source

ASSUME FinderAssumption ==
    /\ Elements \in Nat /\ Elements >= 2 /\ 0 \in Offsets
    /\ Offsets \cup Frequencies \subseteq Nat /\ Frequencies # {}
    /\ {SnapLength, NumSnaps, MinSnaps, StableFrames} \subseteq Nat \ {0}
    /\ Overlap \in 0 .. SnapLength - 1 /\ MinSnaps <= NumSnaps
    /\ BlockSizes \subseteq Nat \ {0} /\ BlockSizes # {}
    /\ BufferSize \in Nat /\ BufferSize >= NumSnaps * SnapLength
    /\ Stored \subseteq [method : {"fft", "eigenvalue", "auto"}, squelch : BOOLEAN, autoK : BOOLEAN]
    /\ {MaxBlocks, MaxEvents} \subseteq Nat

VARIABLES
    radio,    \* tuner_frequencies[0], the element counts now and before, the
              \* noise source (and its quiet time), the hold after a retune
    set,      \* the settings of the DecimatorInstance
    web,      \* the web thread inside setFrequencyOffset or setSquelchMethod
    task,     \* the pipeline task and its block
    music,    \* MUSICProcessor
    auto,     \* auto_eigen_floor, _threshold, _freq and the settle time
    open,     \* squelch_open
    seen,     \* history: the last estimates of the number of sources, the noisy
              \* samples, and whether a setting changed during the task
    budget    \* what is left of the bounds, and the samples taken

vars == <<radio, set, web, task, music, auto, open, seen, budget>>

None  == -1
Idle  == [pc |-> "idle", samples |-> <<>>, arg |-> 0, mixed |-> <<>>, label |-> 0,
          count |-> 0, freq |-> 0, method |-> "fft", floor |-> None]
Least(x, y) == IF x < y THEN x ELSE y

-----------------------------------------------------------------------------
\* The accumulator: a circular buffer of BufferSize samples.

EmptyAcc == [cell |-> [i \in 0 .. BufferSize - 1 |-> 0], at |-> 0, avail |-> 0]

\* addToAccumulator.
Accumulated(acc, samples) ==
    LET n == Least(Len(samples), BufferSize)
        new(i) == (i - acc.at) % BufferSize
    IN  [cell  |-> [i \in DOMAIN acc.cell |->
                       IF new(i) < n THEN samples[new(i) + 1] ELSE acc.cell[i]],
         at    |-> (acc.at + n) % BufferSize,
         avail |-> Least(acc.avail + n, BufferSize)]

Step == SnapLength - Overlap
Needed == MinSnaps * SnapLength - (MinSnaps - 1) * Overlap

\* How many snapshots extractSnapshots takes of n samples.
SnapsOf(n) ==
    IF n < Needed THEN 0
    ELSE LET fit == {k \in 0 .. NumSnaps : k = 0 \/ (k - 1) * Step + SnapLength <= n}
         IN  CHOOSE k \in fit : \A j \in fit : j <= k

\* getSnapshotWindow: the snapshot that starts off samples after the oldest.
Window(acc, off) ==
    LET oldest == acc.at + BufferSize - acc.avail
    IN  [i \in 1 .. SnapLength |-> acc.cell[(oldest + off + i - 1) % BufferSize]]

Extracted(acc) ==
    [k \in 1 .. SnapsOf(acc.avail) |-> Window(acc, (k - 1) * Step)]

Consumed_Snapshots(acc) ==
    LET k == SnapsOf(acc.avail) IN
    IF k < MinSnaps THEN acc
    ELSE [acc EXCEPT !.avail = @ - Least(@, Step * (k - 1))]

\* What extractSnapshots leaves.
Consumed(acc) ==
    LET k == SnapsOf(acc.avail) IN
    IF k < MinSnaps THEN acc
    ELSE [acc EXCEPT !.avail = @ - Least(@, Step * (k - 1) + SnapLength)]

-----------------------------------------------------------------------------
\* The number of sources, with hysteresis over frames.

Unknown == [now |-> None, candidate |-> None, streak |-> 0]

\* resolveSignalDimension: a new count is adopted after StableFrames in a row.
Resolved(k, raw) ==
    IF k.now = None THEN [now |-> raw, candidate |-> raw, streak |-> 0]
    ELSE IF raw = k.now THEN [k EXCEPT !.candidate = raw, !.streak = 0]
    ELSE IF raw = k.candidate
         THEN IF k.streak + 1 >= StableFrames
              THEN [k EXCEPT !.now = raw, !.streak = 0]
              ELSE [k EXCEPT !.streak = @ + 1]
    ELSE [k EXCEPT !.candidate = raw, !.streak = 1]

-----------------------------------------------------------------------------
\* The settings of MUSIC.  What the covariance and the steering depend on:

Array(m)     == [freq |-> m.freq, topo |-> m.topo, n |-> m.n, fb |-> m.fb]
Steering(m)  == [freq |-> m.freq, topo |-> m.topo, n |-> m.n, radius |-> m.radius, deep |-> m.deep]
Elevation(m) == [n |-> m.n, deep |-> m.deep]
TwoD(m)      == m.topo = "CUSTOM" /\ m.deep

\* updateSteeringVectors: a circular array needs three elements.
Steered(m) == [m EXCEPT !.steer = Steering(m),
                        !.steers = ~(m.topo = "UCA" /\ m.n < 3)]
\* updateSteeringVectors2D, where the array has a height, does both.
SteeredAnew(m) ==
    IF TwoD(m) THEN [Steered(m) EXCEPT !.steer2 = Elevation(m), !.steers2 = TRUE]
    ELSE [Steered(m) EXCEPT !.steers2 = FALSE]
Forgotten(m) == [m EXCEPT !.avg = {}, !.k = Unknown]

WithFrequency_Averages(m, f) ==
    IF m.freq = f THEN m ELSE Steered([m EXCEPT !.freq = f, !.k = Unknown])
\* setFrequency makes only the vectors of the plane anew.
WithFrequency(m, f) ==
    IF m.freq = f THEN m ELSE Steered(Forgotten([m EXCEPT !.freq = f]))

WithTopology(m, t) ==
    IF m.topo = t THEN m ELSE SteeredAnew(Forgotten([m EXCEPT !.topo = t]))

\* setCustomPositions: nothing is steered until CUSTOM is chosen.
WithPositions(m, d) ==
    IF m.topo = "CUSTOM" THEN SteeredAnew([m EXCEPT !.deep = d])
    ELSE [m EXCEPT !.deep = d, !.steers = FALSE, !.steers2 = FALSE]

WithRadius(m, r) == IF m.radius = r THEN m ELSE Steered([m EXCEPT !.radius = r])
WithElevation(m) ==
    [(IF TwoD(m) THEN SteeredAnew(m) ELSE [m EXCEPT !.steers2 = FALSE]) EXCEPT !.tilt = <<>>]
WithFB(m, b)     == IF m.fb = b THEN m ELSE [m EXCEPT !.fb = b, !.avg = {}]
WithAlpha(m, b)  == IF m.averages = b THEN m ELSE [m EXCEPT !.averages = b, !.avg = {}]
WithAutoSources(m, b) ==
    IF m.autoK = b THEN m ELSE [m EXCEPT !.autoK = b, !.k = Unknown]
WithConfig(m)    == Forgotten([m EXCEPT !.acc = EmptyAcc, !.frame = <<>>])

\* syncElementCount: all state that is per element is made anew.
Synced(m, n) ==
    IF m.n = n THEN m
    ELSE SteeredAnew(Forgotten([m EXCEPT !.n = n, !.acc = EmptyAcc, !.frame = <<>>]))

-----------------------------------------------------------------------------
\* A frame of MUSIC.

\* computeCorrelationMatrix: the arrays the average is made of.
Averaged(m) == IF m.averages THEN m.avg \cup {Array(m)} ELSE {}

\* updateSquelchGate, for a ratio below, between or above the two thresholds.
GateClosed(m, ratio) ==
    /\ m.gate.armed /\ m.gate.learned
    /\ IF m.closed THEN ratio # "above" ELSE ratio = "below"

\* computeMUSICSpectrum2D: the elevation, of an array with a height.
Planar(m)        == ~(TwoD(m) /\ m.steers2)
Tilted(m, snaps) == IF Planar(m) THEN m.tilt ELSE Last(snaps)

\* computeMUSICSpectrum: what is shown changes unless the gate is closed or
\* the task has asked for a hold; without steering vectors it is all zeros.
Computed(m, raw, ratio) ==
    LET snaps == Extracted(m.acc)
        g == [m EXCEPT !.avg = Averaged(m), !.frame = snaps, !.acc = Consumed(m.acc)]
        k == IF m.autoK THEN Resolved(m.k, raw) ELSE m.k
        closed == GateClosed(m, ratio)
    IN  IF Planar(m) /\ ~m.steers THEN [g EXCEPT !.shown = <<>>]
        ELSE IF closed \/ m.hold THEN [g EXCEPT !.k = k, !.closed = closed]
        ELSE [g EXCEPT !.k = k, !.closed = FALSE, !.shown = Last(snaps),
                       !.tilt = Tilted(m, snaps)]

-----------------------------------------------------------------------------
\* The pipeline task.  Asked for 0, the decimator mixes with its own offset.

Goto(s)   == [task EXCEPT !.pc = s]
Taking(n) == [i \in 1 .. n |-> budget.taken + i]

\* A packet of the server reaches the task, with the noise source on or off;
\* the quiet time after noise is over only in a packet without.  A packet
\* still queued when the element count changed has the channels of before.
TaskBegin ==
    /\ task.pc = "idle" /\ budget.blocks > 0
    /\ \E n \in BlockSizes, c \in {radio.n, radio.was},
          on \in IF budget.events > 0 THEN BOOLEAN ELSE {radio.noise} :
          LET new == Taking(n) IN
          /\ task' = [Idle EXCEPT !.pc = "multi", !.samples = new, !.arg = set.offset,
                                  !.count = Least(c, radio.n)]
          /\ budget' = [budget EXCEPT !.blocks = @ - 1, !.taken = @ + n,
                                      !.events = IF on = radio.noise THEN @ ELSE @ - 1]
          /\ radio' = [radio EXCEPT !.noise = on, !.was = c]
          /\ seen' = [seen EXCEPT !.dragged = web.pc # "idle",
                                  !.noisy = IF on THEN @ \cup ToSet(new) ELSE @]
    /\ UNCHANGED <<set, web, music, auto, open>>

\* decimateMultiChannel looks once, and every channel's task again.
MixOffset(arg) == IF arg = 0 THEN set.mixer ELSE arg

TaskMix ==
    /\ task.pc = "multi"
    /\ task' = [Goto("mix") EXCEPT !.arg = MixOffset(task.arg)]
    /\ UNCHANGED <<radio, set, web, music, auto, open, seen, budget>>

TaskMixChannel ==
    /\ task.pc = "mix"
    /\ LET mixed == Append(task.mixed, MixOffset(task.arg)) IN
       task' = [task EXCEPT !.mixed = mixed,
                            !.pc = IF Len(mixed) = task.count THEN "label" ELSE "mix"]
    /\ UNCHANGED <<radio, set, web, music, auto, open, seen, budget>>

\* The label is the offset of the instance as it is by now.
TaskLabel ==
    /\ task.pc = "label"
    /\ task' = [Goto("squelch") EXCEPT !.label = set.offset]
    /\ UNCHANGED <<radio, set, web, music, auto, open, seen, budget>>

Eigen(method) == method \in {"eigenvalue", "auto"}

\* The FFT squelch decides whether MUSIC runs or, with beamforming, only what
\* the page is told.
TaskSquelch ==
    /\ task.pc = "squelch"
    /\ \/ /\ set.squelch /\ ~Eigen(set.method)
          /\ \E signal \in BOOLEAN :
                /\ open' = signal
                /\ task' = IF signal \/ set.beam
                           THEN [Goto("gate") EXCEPT !.method = set.method] ELSE Idle
       \/ /\ ~set.squelch \/ Eigen(set.method) \/ set.beam
          /\ task' = [Goto("gate") EXCEPT !.method = set.method]
          /\ open' = open
    /\ UNCHANGED <<radio, set, web, music, auto, seen, budget>>

\* No noise source, none just switched off, and no retune just over.
MayRun == ~radio.noise /\ ~radio.hold

\* MUSIC follows the tuner and the offset by itself.
TaskTune ==
    /\ task.pc = "gate"
    /\ IF MayRun
       THEN LET f == radio.freq + set.offset IN
            task' = [Goto("arm") EXCEPT !.freq = f] /\ music' = WithFrequency(music, f)
       ELSE task' = Idle /\ music' = music
    /\ UNCHANGED <<radio, set, web, auto, open, seen, budget>>

\* The gate is armed with the threshold of the last frame.
TaskArm ==
    /\ task.pc = "arm"
    /\ music' = [music EXCEPT
          !.gate = [armed   |-> Eigen(task.method) /\ set.squelch,
                    learned |-> task.method = "auto" => auto.threshold # None],
          !.hold = ~Eigen(task.method) /\ set.beam /\ set.squelch /\ ~open]
    /\ task' = Goto("run")
    /\ UNCHANGED <<radio, set, web, auto, open, seen, budget>>

Recorded(raw) == IF Len(seen.raw) < StableFrames THEN Append(seen.raw, raw)
                 ELSE Append(Tail(seen.raw), raw)

\* processDecimatedIQ: the element count, the accumulator, and a frame if
\* there is enough for one.
Frame(raw, ratio) ==
    LET m == Synced(music, radio.n)
        a == [m EXCEPT !.acc = Accumulated(m.acc, task.samples)]
    IN  IF ~music.enabled THEN music
        ELSE IF task.count < radio.n THEN m
        ELSE IF SnapsOf(a.acc.avail) < MinSnaps THEN a
        ELSE Computed(a, raw, ratio)

TaskRun ==
    /\ task.pc = "run"
    /\ \E raw \in 0 .. 1, ratio \in {"below", "between", "above"} :
          LET m == Frame(raw, ratio) IN
          /\ music' = m
          /\ seen' = [seen EXCEPT !.raw = IF m.k.now = None THEN <<>>
                                          ELSE IF m.n # music.n THEN <<raw>>
                                          ELSE IF m.frame # music.frame /\ m.autoK
                                          THEN Recorded(raw) ELSE @]
    /\ task' = IF ~Eigen(task.method) \/ ~set.squelch THEN Idle
               ELSE IF task.method = "auto" THEN Goto("moved") ELSE Goto("tell")
    /\ UNCHANGED <<radio, set, web, auto, open, budget>>

Moved(at, freq) == at # freq

\* updateAutoEigenThreshold: a VFO that moved loses its floor ...
TaskMoved ==
    /\ task.pc = "moved"
    /\ auto' = IF Moved(auto.at, task.freq)
               THEN [auto EXCEPT !.floor = None, !.at = task.freq, !.settling = TRUE]
               ELSE auto
    /\ task' = Goto("read")
    /\ UNCHANGED <<radio, set, web, music, open, seen, budget>>

\* ... then the floor is read, and moved by this frame's ratio if it is lower,
\* or if the FFT shows a quiet band and the time to settle is over ...
TaskRead ==
    /\ task.pc = "read"
    /\ \E quiet, lower \in BOOLEAN :
          LET learns == quiet /\ ~radio.noise /\ ~auto.settling IN
          task' = [Goto("floor") EXCEPT
                      !.floor = IF learns \/ (auto.floor # None /\ lower)
                                THEN task.freq ELSE auto.floor]
    /\ UNCHANGED <<radio, set, web, music, auto, open, seen, budget>>

\* ... and floor and threshold are stored, one after the other.
TaskFloor ==
    /\ task.pc = "floor"
    /\ auto' = [auto EXCEPT !.floor = task.floor]
    /\ task' = Goto("threshold")
    /\ UNCHANGED <<radio, set, web, music, open, seen, budget>>

TaskThreshold ==
    /\ task.pc = "threshold"
    /\ auto' = [auto EXCEPT !.threshold = task.floor]
    /\ task' = Goto("tell")
    /\ UNCHANGED <<radio, set, web, music, open, seen, budget>>

\* The page and the audio are told what the gate did with this frame.
TaskTell ==
    /\ task.pc = "tell"
    /\ open' = ~music.closed
    /\ task' = Idle
    /\ UNCHANGED <<radio, set, web, music, auto, seen, budget>>

-----------------------------------------------------------------------------
\* The web thread.

MayChange == web.pc = "idle" /\ budget.events > 0
Spend     == budget' = [budget EXCEPT !.events = @ - 1]
Drags     == seen' = [seen EXCEPT !.dragged = TRUE]

\* setFrequencyOffset: the instance, its decimator, its MUSIC processor.
SetOffset ==
    /\ MayChange
    /\ \E o \in Offsets \ {set.offset} :
          /\ set' = [set EXCEPT !.offset = o]
          /\ web' = [pc |-> "mixer", offset |-> o]
    /\ Spend /\ Drags
    /\ UNCHANGED <<radio, task, music, auto, open>>

\* SharedDecimator::setFrequencyOffset
Mixing(mixer, offset) == offset

SetMixer ==
    /\ web.pc = "mixer"
    /\ set' = [set EXCEPT !.mixer = Mixing(@, web.offset)]
    /\ web' = [web EXCEPT !.pc = "music"]
    /\ Drags
    /\ UNCHANGED <<radio, task, music, auto, open, budget>>

SetMusic ==
    /\ web.pc = "music"
    /\ music' = WithFrequency(music, radio.freq + web.offset)
    /\ web' = [pc |-> "idle", offset |-> 0]
    /\ Drags
    /\ UNCHANGED <<radio, set, task, auto, open, budget>>

\* setSquelchMethod, which for "auto" starts the learning from scratch.
SetMethod ==
    /\ MayChange /\ "method" \in Settings
    /\ \E s \in {"fft", "eigenvalue", "auto"} \ {set.method} :
          /\ set' = [set EXCEPT !.method = s]
          /\ web' = [web EXCEPT !.pc = IF s = "auto" THEN "floor" ELSE "idle"]
    /\ Spend
    /\ UNCHANGED <<radio, task, music, auto, open, seen>>

SetFloor ==
    /\ web.pc = "floor"
    /\ auto' = [auto EXCEPT !.floor = None]
    /\ web' = [web EXCEPT !.pc = "threshold"]
    /\ UNCHANGED <<radio, set, task, music, open, seen, budget>>

SetThreshold ==
    /\ web.pc = "threshold"
    /\ auto' = [auto EXCEPT !.threshold = None, !.settling = TRUE]
    /\ web' = [web EXCEPT !.pc = "idle"]
    /\ UNCHANGED <<radio, set, task, music, open, seen, budget>>

\* Every other setting of MUSIC is one call under config_mutex_.
Changed(s) ==
    CASE s = "topology"  -> {WithTopology(music, t) : t \in {"UCA", "ULA"}}
      [] s = "positions" -> {WithPositions(music, d) : d \in BOOLEAN}
      [] s = "radius"    -> {WithRadius(music, 1 - music.radius)}
      [] s = "elevation" -> {WithElevation(music)}
      [] s = "fb"        -> {WithFB(music, ~music.fb)}
      [] s = "alpha"     -> {WithAlpha(music, ~music.averages)}
      [] s = "sources"   -> {WithAutoSources(music, ~music.autoK)}
      [] s = "config"    -> {WithConfig(music)}
      [] s = "enable"    -> {[music EXCEPT !.enabled = ~@]}
      [] OTHER           -> {}

SetSetting ==
    /\ MayChange
    /\ \E s \in Settings : \E m \in Changed(s) \ {music} :
          /\ music' = m
          /\ web' = [web EXCEPT !.pc = IF s = "positions" THEN "custom" ELSE "idle"]
    /\ Spend
    /\ UNCHANGED <<radio, set, task, auto, open, seen>>

\* CUSTOM_POSITIONS: after the positions, the topology.
SetCustom ==
    /\ web.pc = "custom"
    /\ music' = WithTopology(music, "CUSTOM")
    /\ web' = [web EXCEPT !.pc = "idle"]
    /\ UNCHANGED <<radio, set, task, auto, open, seen, budget>>

SetSquelch ==
    /\ MayChange
    /\ \/ "squelch" \in Settings /\ set' = [set EXCEPT !.squelch = ~@]
       \/ "beam" \in Settings /\ set' = [set EXCEPT !.beam = ~@]
    /\ Spend
    /\ UNCHANGED <<radio, web, task, music, auto, open, seen>>

\* SET_FREQUENCY hands MUSIC the frequency without the offset.
SetFrequency ==
    /\ MayChange /\ "frequency" \in Settings
    /\ \E f \in Frequencies :
          music.freq # f /\ music' = WithFrequency(music, f)
    /\ Spend /\ Drags
    /\ UNCHANGED <<radio, set, web, task, auto, open>>

-----------------------------------------------------------------------------
\* The receiver thread and the clock.

\* update_channel_info: the server's packets carry a new frequency.
Retuned ==
    /\ budget.events > 0 /\ "frequency" \in Settings
    /\ \E f \in Frequencies \ {radio.freq} :
          /\ radio' = [radio EXCEPT !.freq = f, !.hold = TRUE]
          /\ music' = WithFrequency(music, f + set.offset)
    /\ Spend /\ Drags
    /\ UNCHANGED <<set, web, task, auto, open>>

\* ... or another number of elements.
Resized ==
    /\ budget.events > 0 /\ "count" \in Settings /\ radio.was = radio.n
    /\ \E n \in 2 .. Elements : n # radio.n /\ radio' = [radio EXCEPT !.n = n]
    /\ Spend
    /\ UNCHANGED <<set, web, task, music, auto, open, seen>>

HoldOver ==
    /\ radio.hold
    /\ radio' = [radio EXCEPT !.hold = FALSE]
    /\ UNCHANGED <<set, web, task, music, auto, open, seen, budget>>

Settled ==
    /\ auto.settling
    /\ auto' = [auto EXCEPT !.settling = FALSE]
    /\ UNCHANGED <<radio, set, web, task, music, open, seen, budget>>

-----------------------------------------------------------------------------
\* Some settings of the last run are restored.
FinderInit ==
    \E f \in Frequencies, old \in Stored :
       /\ \A g \in Frequencies : f <= g
       /\ radio = [freq |-> f, n |-> Elements, was |-> Elements,
                   noise |-> FALSE, hold |-> FALSE]
       /\ set = [offset |-> 0, mixer |-> 0, method |-> old.method,
                squelch |-> old.squelch, beam |-> FALSE]
       /\ web = [pc |-> "idle", offset |-> 0]
       /\ task = Idle
       /\ LET m == [freq |-> f, topo |-> "UCA", n |-> Elements, fb |-> FALSE,
                    radius |-> 0, deep |-> FALSE, averages |-> TRUE, avg |-> {},
                    acc |-> EmptyAcc, frame |-> <<>>, k |-> Unknown, autoK |-> old.autoK,
                    steer |-> None, steers |-> FALSE, steer2 |-> None, steers2 |-> FALSE,
                    gate |-> [armed |-> FALSE, learned |-> TRUE], closed |-> FALSE,
                    hold |-> FALSE, enabled |-> TRUE, shown |-> <<>>, tilt |-> <<>>]
          IN  music = Steered(m)
       /\ auto = [floor |-> None, threshold |-> None, at |-> 0, settling |-> FALSE]
       /\ open = FALSE
       /\ seen = [raw |-> <<>>, noisy |-> {}, dragged |-> FALSE]
       /\ budget = [blocks |-> MaxBlocks, taken |-> 0, events |-> MaxEvents]

FinderNext ==
    \/ TaskBegin \/ TaskMix \/ TaskMixChannel \/ TaskLabel \/ TaskSquelch \/ TaskTune
    \/ TaskArm \/ TaskRun \/ TaskMoved \/ TaskRead \/ TaskFloor \/ TaskThreshold \/ TaskTell
    \/ SetOffset \/ SetMixer \/ SetMusic \/ SetMethod \/ SetFloor \/ SetThreshold
    \/ SetSetting \/ SetCustom \/ SetSquelch \/ SetFrequency
    \/ Retuned \/ Resized \/ HoldOver \/ Settled

FinderSpec == FinderInit /\ [][FinderNext]_vars

-----------------------------------------------------------------------------
\* Every sample of a snapshot has been taken, the accumulator has no more
\* than it was given, and the source count is one an array can have.
TypeOK ==
    /\ radio.n \in 2 .. Elements /\ music.n \in 2 .. Elements
    /\ music.acc.avail \in 0 .. BufferSize /\ music.acc.avail <= budget.taken
    /\ music.acc.at \in 0 .. BufferSize - 1
    /\ \A k \in DOMAIN music.frame : ToSet(music.frame[k]) \subseteq 1 .. budget.taken
    /\ music.k.streak \in 0 .. StableFrames /\ music.k.now \in {None, 0, 1}
    /\ task.count \in 0 .. Elements /\ Len(task.mixed) <= task.count

\* The temporal average never mixes covariances of two frequencies, topologies,
\* element counts or averaging modes (music_processor.cpp, "Reset whenever
\* frequency/config/topology changes"), whoever changes them and when.
AverageIsOfOneArray == music.avg \subseteq {Array(music)}

\* Valid steering vectors are those of the array as it is set: its frequency,
\* topology, elements, radius and positions; those of an array with a height,
\* which a change of frequency leaves alone, of its elements and positions.
SteeringIsCurrent ==
    /\ music.steers  => music.steer = Steering(music)
    /\ music.steers2 => music.steer2 = Elevation(music) /\ TwoD(music)

\* A frame is made of samples in the order they were taken, and shares none
\* with the frame before.
FramesAdvance ==
    [][\A k \in DOMAIN music'.frame :
          music'.frame # music.frame =>
            /\ \A i, j \in 1 .. SnapLength : i < j => music'.frame[k][i] < music'.frame[k][j]
            /\ \A l \in DOMAIN music.frame : \A i, j \in 1 .. SnapLength :
                  music.frame[l][i] < music'.frame[k][j]]_vars

\* The number of sources of an array changes, other than to or from "unknown",
\* only when the last StableFrames frames all said so.
CountIsStable ==
    [][(music.k.now # None /\ music'.k.now \notin {None, music.k.now} /\ music'.n = music.n) =>
          seen'.raw = [i \in 1 .. StableFrames |-> music'.k.now]]_vars

\* What the squelch has learned is of the frequency it listens to; between two
\* frames the threshold is too.
FloorIsOfVfo ==
    /\ auto.floor \in {None, auto.at}
    /\ task.pc \notin {"read", "floor", "threshold"} => auto.threshold \in {None, auto.at}

\* A block during which nobody moved the decimator or the tuner was mixed with
\* one offset in every channel, the one on its label, and MUSIC looks for
\* bearings at its frequency.
AlikeUnlessDragged ==
    task.pc = "run" /\ ~seen.dragged =>
       ToSet(task.mixed) \subseteq {task.label} /\ music.freq = radio.freq + task.label

\* No bearing shown, or published is of the noise source.
NoNoiseShown ==
    seen.noisy \cap (ToSet(music.shown) \cup ToSet(music.tilt)) = {}

\* Nothing a bearing is computed of outlives what it was made for.
FinderSound ==
    /\ TypeOK
    /\ AverageIsOfOneArray
    /\ SteeringIsCurrent
    /\ FloorIsOfVfo
    /\ AlikeUnlessDragged
    /\ NoNoiseShown
=============================================================================
