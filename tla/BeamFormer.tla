----------------------------- MODULE BeamFormer -----------------------------
(***************************************************************************)
(* The beamformer of a decimator, from the pass after the pipeline tasks to  *)
(* the combined samples, and the configuration that all beamformers share.   *)
(* What a beamformer computes once it keeps for many blocks: a steering      *)
(* vector, weights of the adaptive beam, a covariance on its way, a table of *)
(* phases per frequency bin, the samples of the frame to come.  Each has its *)
(* own condition for being made anew, while the data thread moves angle and  *)
(* geometry before every block and commands change the rest between them.    *)
(*                                                                           *)
(* A sample is its number.  setElementSpacing is setArrayRadius over again   *)
(* and left out; angles and frequencies differ by more than the tolerances.  *)
(***************************************************************************)
EXTENDS Integers, Sequences, FiniteSets, SequencesExt

CONSTANTS
    Angles,        \* bearings and manual angles, 0 among them
    Radii, Tuned,  \* array radii; frequencies of the tuner with the offset
    Counts,        \* element counts of the server
    Snaps,         \* snapshot lengths the page offers, the default the largest
    BeamBlocks,    \* samples of a block
    FftSize,       \* FDDAS_FFT_SIZE, an even number
    MaxPasses,     \* bound: blocks
    MaxTurns       \* bound: changes of bearing, geometry, count or command

HasLargest(S) == \E x \in S : \A y \in S : y <= x

ASSUME BeamAssumption ==
    /\ Angles \cup Radii \cup Tuned \subseteq Nat /\ 0 \in Angles /\ 0 \notin Tuned
    /\ Counts \cup Snaps \cup BeamBlocks \subseteq Nat \ {0}
    /\ \A S \in {Radii, Tuned, Counts, Snaps} : HasLargest(S)
    /\ FftSize \in Nat /\ FftSize > 0 /\ FftSize % 2 = 0
    /\ MaxPasses \in Nat /\ MaxTurns \in Nat

VARIABLES
    asked,   \* what MUSIC, the manual steering and the packet header say
    beam,    \* the beamformer of decimator 0
    pass,    \* the data thread in the pass over the beamformers
    boss,    \* the configuration of the manager, the other beamformers and
             \* the two threads that run commands
    made,    \* history: what the last block was made with
    turns    \* what is left of the bounds, and the samples taken

beamVars == <<asked, beam, pass, boss, made, turns>>

Hop    == FftSize \div 2
NoBeam == -1
Modes  == {"das", "mvdr", "diversity", "freq"}
Topologies == {"UCA", "ULA"}
LargestOf(S) == CHOOSE x \in S : \A y \in S : y <= x
SmallerOf(x, y) == IF x < y THEN x ELSE y

\* What a steering vector, weights and phases are computed of.
Aim(b) == [angle |-> b.angle, topo |-> b.topo, radius |-> b.radius, freq |-> b.freq, n |-> b.n]

-----------------------------------------------------------------------------
\* The setters.  Each holds config_mutex_, and does nothing if nothing changes.

WithAngle_Keeps(b, a) ==
    IF b.angle = a THEN b ELSE [b EXCEPT !.angle = a, !.valid = FALSE]
WithAngle(b, a) ==
    IF b.angle = a THEN b ELSE [b EXCEPT !.angle = a, !.valid = FALSE, !.wvalid = FALSE]

WithTopo(b, t) == IF b.topo = t THEN b ELSE [b EXCEPT !.topo = t, !.valid = FALSE]

WithSize(b, r) == IF b.radius = r THEN b ELSE [b EXCEPT !.radius = r, !.valid = FALSE]

WithTuned(b, f) == IF b.freq = f THEN b ELSE [b EXCEPT !.freq = f, !.valid = FALSE]

NoSum == [count |-> 0, ns |-> {}]

\* setBeamformingMode, setMVDRSnapshotLength, enable and disable.  The loading
\* of the diagonal only makes the weights invalid.
Configured(b, key, v) ==
    CASE key = "on"   -> [b EXCEPT !.on = v]
      [] key = "mode" -> IF b.mode = v THEN b ELSE [b EXCEPT !.mode = v, !.wvalid = FALSE]
      [] key = "snap" -> IF b.snap = v THEN b
                         ELSE [b EXCEPT !.snap = v, !.sum = NoSum, !.wvalid = FALSE]

\* syncElementCount: everything that is per element is made anew.
BeamSynced(b, n) ==
    IF b.n = n THEN b
    ELSE [b EXCEPT !.n = n, !.valid = FALSE, !.wvalid = FALSE, !.cov = n, !.sum = NoSum,
                   !.tail = <<>>, !.last = [angle |-> NoBeam, freq |-> 0]]

-----------------------------------------------------------------------------
\* A block in each mode: the beamformer after it, and what came out of it.
\* gatherChannels gives nothing when the block has too few channels.

Steers(b) == IF b.valid THEN b ELSE [b EXCEPT !.steer = Aim(b), !.valid = TRUE]

\* updateCovarianceMatrix takes of a block what the covariance still lacks.
Summed(b, block) ==
    LET count == b.sum.count + SmallerOf(Len(block.samples), b.snap - b.sum.count)
        ns == b.sum.ns \cup {b.n}
    IN  IF block.channels < b.n THEN b
        ELSE IF count < b.snap THEN [b EXCEPT !.sum = [count |-> count, ns |-> ns]]
        ELSE [b EXCEPT !.cov = b.n, !.sum = NoSum, !.wvalid = FALSE]

\* computeMVDRWeights.
Weighed(b) ==
    IF b.wvalid THEN b
    ELSE LET s == Steers(b) IN [s EXCEPT !.weights = s.steer, !.wvalid = TRUE]

\* updateFDDASSteeringPhases looks at angle and frequency only.
Phased(b) ==
    IF b.last = [angle |-> b.angle, freq |-> b.freq] THEN b
    ELSE [b EXCEPT !.last = [angle |-> b.angle, freq |-> b.freq], !.phases = Aim(b)]

\* How many frames of FftSize, Hop apart, n samples hold.
FramesIn(n) == IF n < FftSize THEN 0 ELSE ((n - FftSize) \div Hop) + 1
FrameOf(s, k) == SubSeq(s, ((k - 1) * Hop) + 1, ((k - 1) * Hop) + FftSize)

TailOf_Frames(s) ==
    IF FramesIn(Len(s)) = 0 THEN s
    ELSE SubSeq(s, ((FramesIn(Len(s)) - 1) * Hop) + FftSize + 1, Len(s))
\* What freqDomainDAS keeps for the next block: half of the last frame too.
TailOf(s) == SubSeq(s, (FramesIn(Len(s)) * Hop) + 1, Len(s))

\* selectionDiversity: another channel is clearly better, or it stays.
Held(b, best, clearly) ==
    IF b.selected < b.n /\ ~clearly THEN b.selected ELSE best

Nothing == [mode |-> "none", with |-> {}, aim |-> {}, pick |-> 0, frames |-> <<>>]
Made(b, with) == [Nothing EXCEPT !.mode = b.mode, !.with = {with}, !.aim = {Aim(b)}]

Formed(b, block, plain, best, clearly) ==
    LET enough == block.channels >= b.n IN
    CASE b.mode = "das" ->
           LET s == Steers(b) IN
           [beam |-> s, out |-> IF ~enough THEN Nothing
                                ELSE Made(s, IF plain THEN Aim(s) ELSE s.steer)]
      [] b.mode = "mvdr" ->
           LET w == Weighed(Summed(b, block)) IN
           [beam |-> w, out |-> IF enough THEN Made(w, w.weights) ELSE Nothing]
      [] b.mode = "diversity" ->
           IF ~enough THEN [beam |-> b, out |-> Nothing]
           ELSE LET s == [b EXCEPT !.selected = Held(b, best, clearly)] IN
                [beam |-> s, out |-> [Made(s, Aim(s)) EXCEPT !.pick = s.selected]]
      [] b.mode = "freq" ->
           IF ~enough THEN [beam |-> b, out |-> Nothing]
           ELSE LET p == Phased(b)
                    all == p.tail \o block.samples
                    frames == [k \in 1 .. FramesIn(Len(all)) |-> FrameOf(all, k)]
                IN  [beam |-> [p EXCEPT !.tail = TailOf(all)],
                     out  |-> [Made(p, p.phases) EXCEPT !.frames = frames]]

-----------------------------------------------------------------------------
\* The pass over the beamformers, after all pipeline tasks of a block.

NoBlock == [pc |-> "idle", channels |-> 0, samples |-> <<>>]
At(pc)  == [pass EXCEPT !.pc = pc]

\* A block that does not go through the frames of the frequency domain beam.
Passed(b) == made.missed \/ b.tail # <<>> \/ made.first # NoBeam

\* beamforming_needs_processing: the master switch, and enough channels for the
\* count the header of the newest packet gave.
PassBegin ==
    /\ pass.pc = "idle" /\ turns.blocks > 0
    /\ \E n \in BeamBlocks, c \in Counts :
          LET new == [i \in 1 .. n |-> turns.taken + i] IN
          /\ turns' = [turns EXCEPT !.blocks = @ - 1, !.taken = @ + n]
          /\ IF boss.master /\ c >= asked.count
             THEN /\ pass' = [pc |-> "angle", channels |-> SmallerOf(c, asked.count), samples |-> new]
                  /\ made' = made
             ELSE /\ pass' = pass
                  /\ made' = [made EXCEPT !.missed = Passed(beam)]
    /\ UNCHANGED <<asked, beam, boss>>

\* The manual angle, MUSIC's if it has one, or else the old one.
Pointed ==
    IF asked.manual # NoBeam THEN asked.manual
    ELSE IF asked.angle # NoBeam THEN asked.angle ELSE beam.angle

PassAngle ==
    /\ pass.pc = "angle"
    /\ beam' = WithAngle(beam, Pointed) /\ pass' = At("topo")
    /\ UNCHANGED <<asked, boss, made, turns>>

\* The geometry of MUSIC, one getter and setter after the other.
PassGeometry(pc, b, next) ==
    /\ pass.pc = pc
    /\ beam' = b /\ pass' = At(next)
    /\ made' = IF b = beam THEN made ELSE [made EXCEPT !.renewed = FALSE]
    /\ UNCHANGED <<asked, boss, turns>>
PassTopo   == PassGeometry("topo", WithTopo(beam, asked.topo), "radius")
PassRadius == PassGeometry("radius", WithSize(beam, asked.radius), "freq")
PassFreq   == PassGeometry("freq", WithTuned(beam, asked.freq), "process")

\* process: one critical section.
PassProcess ==
    /\ pass.pc = "process"
    /\ pass' = NoBlock
    /\ IF ~beam.on
       THEN /\ beam' = beam
            /\ made' = [made EXCEPT !.out = Nothing, !.missed = Passed(beam)]
       ELSE \E best \in 0 .. asked.count - 1, clearly \in BOOLEAN :
            LET b == BeamSynced(beam, asked.count)
                f == Formed(b, pass, asked.manual = 0, best, clearly)
                fed == b.mode = "freq" /\ f.out.mode = "freq"
                first == IF b.n = beam.n THEN made.first ELSE NoBeam
            IN  /\ b.mode # "diversity" => best = 0 /\ ~clearly
                /\ beam' = f.beam
                /\ made' = [out |-> f.out,
                            renewed |-> \/ made.renewed
                                        \/ b.mode = "mvdr" /\ f.beam.sum = NoSum
                                           /\ pass.channels >= b.n,
                            first |-> IF f.out.frames = <<>> THEN first
                                      ELSE Head(Last(f.out.frames)),
                            missed |-> /\ b.n = beam.n
                                       /\ IF fed THEN made.missed ELSE Passed(b)]
    /\ UNCHANGED <<asked, boss, turns>>

-----------------------------------------------------------------------------
\* Commands.  One thread sets what all beamformers share, the other restores
\* saved decimators; both take the list under decimator_mutex.

Shared == [mode : Modes, on : BOOLEAN, snap : Snaps]
Fresh  == [mode |-> "das", on |-> FALSE, snap |-> LargestOf(Snaps)]
Turn   == turns' = [turns EXCEPT !.events = @ - 1]

\* set...All stores the setting first.  BEAMFORMING sets the master switch too.
CommandStore ==
    /\ boss.pc = "idle" /\ turns.events > 0
    /\ \E key \in DOMAIN Fresh :
       \E v \in CASE key = "mode" -> Modes [] key = "on" -> {~boss.master} [] key = "snap" -> Snaps :
          boss' = [boss EXCEPT !.pc = "list", !.key = key, !.cfg[key] = v,
                               !.master = IF key = "on" THEN v ELSE @]
    /\ Turn
    /\ UNCHANGED <<asked, beam, pass, made>>

CommandList ==
    /\ boss.pc = "list" /\ boss.adding = "no"
    /\ boss' = [boss EXCEPT !.pc = "apply", !.todo = {0} \cup DOMAIN boss.others]
    /\ UNCHANGED <<asked, beam, pass, made, turns>>

CommandApply ==
    /\ boss.pc = "apply"
    /\ LET id == CHOOSE i \in boss.todo : \A j \in boss.todo : i <= j
           v == boss.cfg[boss.key]
           rest == boss.todo \ {id}
           pc == IF rest = {} THEN "idle" ELSE "apply"
       IN  IF id = 0
           THEN /\ beam' = Configured(beam, boss.key, v)
                /\ boss' = [boss EXCEPT !.todo = rest, !.pc = pc]
           ELSE /\ boss' = [boss EXCEPT !.todo = rest, !.pc = pc, !.others[id][boss.key] = v]
                /\ beam' = beam
    /\ UNCHANGED <<asked, pass, made, turns>>

\* applyBeamformingConfig to a new decimator, which no list has yet.
Inherited(cfg) == cfg

AddStart ==
    /\ boss.adding = "no" /\ Cardinality(DOMAIN boss.others) < 1 /\ turns.events > 0
    /\ boss' = [boss EXCEPT !.adding = "copied", !.new = Inherited(boss.cfg)]
    /\ Turn
    /\ UNCHANGED <<asked, beam, pass, made>>

AddPush ==
    /\ boss.adding = "copied"
    /\ boss' = [boss EXCEPT !.adding = "no", !.others = [i \in {1} |-> boss.new]]
    /\ UNCHANGED <<asked, beam, pass, made, turns>>

\* A new bearing or none, a command to MUSIC or the manual steering, a packet
\* with another count.
AskAnew ==
    /\ turns.events > 0 /\ Turn
    /\ \/ \E a \in Angles \cup {NoBeam} : asked' = [asked EXCEPT !.angle = a]
       \/ \E a \in Angles \cup {NoBeam} : asked' = [asked EXCEPT !.manual = a]
       \/ \E t \in Topologies : asked' = [asked EXCEPT !.topo = t]
       \/ \E r \in Radii : asked' = [asked EXCEPT !.radius = r]
       \/ \E f \in Tuned : asked' = [asked EXCEPT !.freq = f]
       \/ \E c \in Counts : asked' = [asked EXCEPT !.count = c]
    /\ asked' # asked
    /\ UNCHANGED <<beam, pass, boss, made>>

-----------------------------------------------------------------------------
\* A beamformer starts with another geometry than MUSIC's.

NewBeam(mode, n) ==
    LET aim == [angle |-> 0, topo |-> "UCA", radius |-> NoBeam, freq |-> NoBeam, n |-> n]
    IN  [angle |-> 0, topo |-> "UCA", radius |-> NoBeam, freq |-> NoBeam, n |-> n,
         on |-> TRUE, mode |-> mode, snap |-> LargestOf(Snaps), valid |-> FALSE,
         steer |-> aim, wvalid |-> FALSE, weights |-> aim, cov |-> n, sum |-> NoSum,
         phases |-> aim, last |-> [angle |-> NoBeam, freq |-> 0], tail |-> <<>>,
         selected |-> 0]

\* After a first BEAMFORMING:1, in the mode that was chosen before it.
BeamInit ==
    /\ asked = [angle |-> NoBeam, manual |-> NoBeam, topo |-> "UCA", radius |-> LargestOf(Radii),
                freq |-> LargestOf(Tuned), count |-> LargestOf(Counts)]
    /\ \E mode \in Modes :
          /\ beam = NewBeam(mode, LargestOf(Counts))
          /\ boss = [cfg |-> [Fresh EXCEPT !.mode = mode, !.on = TRUE], master |-> TRUE,
                     others |-> <<>>, pc |-> "idle", key |-> "on", todo |-> {},
                     adding |-> "no", new |-> Fresh]
    /\ pass = NoBlock
    /\ made = [out |-> Nothing, renewed |-> FALSE, first |-> NoBeam, missed |-> FALSE]
    /\ turns = [blocks |-> MaxPasses, events |-> MaxTurns, taken |-> 0]

BeamNext ==
    \/ PassBegin \/ PassAngle \/ PassTopo \/ PassRadius \/ PassFreq \/ PassProcess
    \/ CommandStore \/ CommandList \/ CommandApply \/ AddStart \/ AddPush \/ AskAnew

BeamSpec == BeamInit /\ [][BeamNext]_beamVars

-----------------------------------------------------------------------------
(* Every variable of the beamformer has its type; a covariance on its way     *)
(* still lacks a sample.                                                      *)
BeamTypeOK ==
    /\ beam.mode \in Modes /\ beam.snap \in Snaps /\ beam.n \in Counts
    /\ {beam.on, beam.valid, beam.wvalid} \subseteq BOOLEAN
    /\ beam.sum.count \in 0 .. beam.snap - 1 /\ Len(beam.tail) < FftSize
    /\ pass.pc \in {"idle", "angle", "topo", "radius", "freq", "process"}
    /\ boss.cfg \in Shared /\ boss.todo \subseteq {0, 1}

(* A block of the delay-and-sum beam is combined with the steering vector of  *)
(* the angle, geometry and count it was to be combined for, and one of the    *)
(* frequency domain beam with phases of its angle, frequency and count        *)
(* (updateSteeringVector, updateFDDASSteeringPhases).                         *)
BeamPointsWhereAsked ==
    \A aim \in made.out.aim, with \in made.out.with :
        /\ made.out.mode = "das" => with = aim
        /\ made.out.mode = "freq" =>
              with.angle = aim.angle /\ with.freq = aim.freq /\ with.n = aim.n

(* The adaptive beam never looks at an angle of before, and at a geometry of  *)
(* before only until the next covariance is complete.                         *)
WeightsFollow ==
    made.out.mode = "mvdr" =>
        \A aim \in made.out.aim, with \in made.out.with :
            /\ with.angle = aim.angle /\ with.n = aim.n
            /\ made.renewed => with = aim

(* A covariance is made of samples of one element count, the present one.     *)
CovarianceOfOneCount == beam.sum.ns \subseteq {beam.n} /\ beam.cov = beam.n

ContinuousFrom(s) == \A i \in 1 .. Len(s) - 1 : s[i + 1] = s[i] + 1

(* Frames of the frequency domain beam overlap by half and leave no sample    *)
(* out, over the borders of blocks too, as long as every block goes through   *)
(* them.                                                                      *)
FramesTile ==
    ~made.missed =>
        /\ ContinuousFrom(beam.tail)
        /\ \A k \in DOMAIN made.out.frames : ContinuousFrom(made.out.frames[k])
        /\ made.first # NoBeam =>
              beam.tail # <<>> /\ Head(beam.tail) = made.first + Hop

(* The channel that diversity copies is one of those the array has, also      *)
(* after the array has become smaller.                                        *)
SelectedInRange ==
    made.out.mode = "diversity" =>
        \A aim \in made.out.aim : made.out.pick \in 0 .. aim.n - 1

(* When no command is under way, every beamformer has the configuration of    *)
(* the manager, one that was added during the command too.                    *)
AllSteerAlike ==
    boss.pc = "idle" /\ boss.adding = "no" =>
        /\ beam.mode = boss.cfg.mode /\ beam.on = boss.cfg.on /\ beam.snap = boss.cfg.snap
        /\ \A id \in DOMAIN boss.others : boss.others[id] = boss.cfg

\* Nothing a beam is formed with outlives what it was made for, and the
\* beamformers are configured alike.
BeamSound ==
    /\ BeamTypeOK
    /\ BeamPointsWhereAsked
    /\ WeightsFollow
    /\ CovarianceOfOneCount
    /\ SelectedInRange
    /\ AllSteerAlike
=============================================================================
