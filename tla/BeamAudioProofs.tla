-------------------------- MODULE BeamAudioProofs --------------------------
(***************************************************************************)
(* The beamformers and the audio of the client, proved for every value of  *)
(* their constants. First the beamformers, then the audio.                 *)
(***************************************************************************)
EXTENDS BeamFormer, AudioPath, SequenceTheorems, FiniteSetTheorems, WellFoundedInduction, TLAPS

(***************************************************************************)
(* What the beamformer keeps for many blocks is what it would compute now, *)
(* for every set of angles, counts, block sizes and for every frame size.  *)
(*                                                                         *)
(* Whole says of a beamformer which of its kept data still belong to its   *)
(* present settings; every setter and every mode's block keeps it.  Tiling *)
(* says where the kept samples end: at the last sample before the block    *)
(* that is being processed.  Uniformly says who has which configuration    *)
(* while a command goes through the list of beamformers.                   *)
(***************************************************************************)
AimType == [angle : Angles, topo : Topologies, radius : Radii \cup {NoBeam},
            freq : Tuned \cup {NoBeam}, n : Counts]

Beams == [angle : Angles, topo : Topologies, radius : Radii \cup {NoBeam},
          freq : Tuned \cup {NoBeam}, n : Counts,
          on : BOOLEAN, mode : Modes, snap : Snaps, valid : BOOLEAN, steer : AimType,
          wvalid : BOOLEAN, weights : AimType, cov : Counts,
          sum : [count : Nat, ns : SUBSET Counts], phases : AimType,
          last : [angle : Angles \cup {NoBeam}, freq : Tuned \cup {NoBeam, 0}],
          tail : Seq(Nat), selected : Nat]

Outs == [mode : Modes \cup {"none"}, with : SUBSET AimType, aim : SUBSET AimType,
         pick : Nat, frames : Seq(Seq(Nat))]

BeamVarsOK ==
    /\ asked \in [angle : Angles \cup {NoBeam}, manual : Angles \cup {NoBeam},
                  topo : Topologies, radius : Radii, freq : Tuned, count : Counts]
    /\ beam \in Beams
    /\ pass \in [pc : {"idle", "angle", "topo", "radius", "freq", "process"},
                 channels : Nat, samples : Seq(Nat)]
    /\ pass.pc # "idle" => Len(pass.samples) > 0
    /\ boss \in [cfg : Shared, master : BOOLEAN, others : [{} -> Shared] \cup [{1} -> Shared],
                 pc : {"idle", "list", "apply"}, key : {"mode", "on", "snap"},
                 todo : SUBSET {0, 1}, adding : {"no", "copied"}, new : Shared]
    /\ made \in [out : Outs, renewed : BOOLEAN, first : Nat \cup {NoBeam}, missed : BOOLEAN]
    /\ turns \in [blocks : Nat, events : Nat, taken : Nat]

\* The data a beamformer keeps are those of its settings.
Steady(b)    == b.valid => b.steer = Aim(b)
Weights(b)   == b.wvalid => b.weights.angle = b.angle /\ b.weights.n = b.n
Exact(b)     == b.wvalid => b.weights = Aim(b)
Phases(b)    == b.last.angle # NoBeam =>
                    /\ b.phases.angle = b.last.angle /\ b.phases.freq = b.last.freq
                    /\ b.phases.n = b.n
Covariance(b) == b.sum.ns \subseteq {b.n} /\ b.cov = b.n /\ b.sum.count < b.snap
Whole(b) ==
    /\ b \in Beams
    /\ Steady(b) /\ Weights(b) /\ Phases(b) /\ Covariance(b)
    /\ Len(b.tail) < FftSize

\* The samples taken before the block that is being processed.
BeforeBlock == turns.taken - IF pass.pc = "idle" THEN 0 ELSE Len(pass.samples)

\* The numbers up to e, without a gap.
UpTo(s, e) == \A i \in DOMAIN s : s[i] = e - Len(s) + i

Tiling ==
    /\ pass.pc # "idle" => UpTo(pass.samples, turns.taken)
    /\ ~made.missed =>
          /\ UpTo(beam.tail, BeforeBlock)
          /\ \A k \in DOMAIN made.out.frames : ContinuousFrom(made.out.frames[k])
          /\ made.first # NoBeam => beam.tail # <<>> /\ Head(beam.tail) = made.first + Hop

\* Everybody has what the manager has, but for the setting that is on its way.
Same(c, keys) == \A k \in keys : c[k] = boss.cfg[k]
Others == DOMAIN Fresh \ {boss.key}
Done(id) == boss.pc = "idle" \/ (boss.pc = "apply" /\ id \notin boss.todo)
Uniformly ==
    /\ Same(beam, Others) /\ (Done(0) => Same(beam, DOMAIN Fresh))
    /\ \A id \in DOMAIN boss.others :
          Same(boss.others[id], Others) /\ (Done(id) => Same(boss.others[id], DOMAIN Fresh))
    /\ boss.adding = "copied" =>
          /\ DOMAIN boss.others = {} /\ Same(boss.new, Others)
          /\ boss.pc # "list" => Same(boss.new, DOMAIN Fresh)
    /\ boss.pc = "apply" <=> boss.todo # {}
    /\ boss.todo \subseteq {0} \cup DOMAIN boss.others

BInv ==
    /\ BeamVarsOK
    /\ Whole(beam)
    /\ made.renewed => Exact(beam)
    /\ BeamPointsWhereAsked /\ WeightsFollow /\ SelectedInRange
    /\ Tiling /\ Uniformly

-----------------------------------------------------------------------------
(* Numbers and records. *)

LEMMA Chosen ==
    ASSUME NEW S \in {Radii, Tuned, Counts, Snaps}
    PROVE  LargestOf(S) \in S
BY BeamAssumption DEF HasLargest, LargestOf

LEMMA Given ==
    /\ Angles \subseteq Nat /\ Radii \subseteq Nat /\ Tuned \subseteq Nat
    /\ Counts \subseteq Nat \ {0} /\ Snaps \subseteq Nat \ {0} /\ BeamBlocks \subseteq Nat \ {0}
    /\ NoBeam \notin Nat /\ NoBeam \in Int
BY BeamAssumption DEF NoBeam

LEMMA HalfFrame == Hop \in Nat /\ Hop > 0 /\ FftSize = 2 * Hop /\ FftSize \in Nat
BY BeamAssumption DEF Hop

LEMMA Aims ==
    ASSUME NEW b \in Beams
    PROVE  Aim(b) \in AimType
BY DEF Aim, Beams, AimType

-----------------------------------------------------------------------------
(* The setters keep what is kept true. *)

LEMMA AngleKeeps ==
    ASSUME NEW b, Whole(b), NEW a \in Angles
    PROVE  /\ Whole(WithAngle(b, a))
           /\ Exact(b) => Exact(WithAngle(b, a))
           /\ WithAngle(b, a).tail = b.tail
           /\ \A k \in DOMAIN Fresh : WithAngle(b, a)[k] = b[k]
<1> DEFINE w == WithAngle(b, a)
<1>1. CASE b.angle = a
  BY <1>1 DEF WithAngle
<1>2. CASE b.angle # a
  <2>1. w = [b EXCEPT !.angle = a, !.valid = FALSE, !.wvalid = FALSE]
    BY <1>2 DEF WithAngle
  <2>2. b \in Beams
    BY DEF Whole
  <2>3. w \in Beams /\ ~w.valid /\ ~w.wvalid
    BY <2>1, <2>2 DEF Beams
  <2>4. /\ w.tail = b.tail /\ w.mode = b.mode /\ w.on = b.on /\ w.snap = b.snap
        /\ w.last = b.last /\ w.phases = b.phases /\ w.n = b.n /\ w.sum = b.sum /\ w.cov = b.cov
    BY <2>1, <2>2 DEF Beams
  <2> HIDE DEF w
  <2>5. Whole(w) /\ Exact(w)
    BY <2>3, <2>4 DEF Whole, Steady, Weights, Phases, Covariance, Exact
  <2> QED  BY <2>4, <2>5 DEF w, Fresh
<1> QED  BY <1>1, <1>2

\* A change of geometry or frequency, which does not touch the weights.
OnlyMoved(b, w) ==
    /\ w \in Beams /\ ~w.valid
    /\ w.wvalid = b.wvalid /\ w.weights = b.weights /\ w.angle = b.angle /\ w.n = b.n
    /\ w.last = b.last /\ w.phases = b.phases /\ w.sum = b.sum /\ w.cov = b.cov
    /\ w.tail = b.tail /\ w.mode = b.mode /\ w.on = b.on /\ w.snap = b.snap

LEMMA MovedKeeps ==
    ASSUME NEW b, Whole(b), NEW w, w = b \/ OnlyMoved(b, w)
    PROVE  Whole(w) /\ w.tail = b.tail /\ \A k \in DOMAIN Fresh : w[k] = b[k]
<1>1. CASE w = b
  BY <1>1
<1>2. CASE OnlyMoved(b, w)
  <2>1. Whole(w)
    BY <1>2 DEF OnlyMoved, Whole, Steady, Weights, Phases, Covariance
  <2> QED  BY <1>2, <2>1 DEF OnlyMoved, Fresh
<1> QED  BY <1>1, <1>2

LEMMA GeometryKeeps ==
    ASSUME NEW b, Whole(b), NEW t \in Topologies, NEW r \in Radii, NEW f \in Tuned,
           NEW w \in {WithTopo(b, t), WithSize(b, r), WithTuned(b, f)}
    PROVE  Whole(w) /\ w.tail = b.tail /\ \A k \in DOMAIN Fresh : w[k] = b[k]
<1>1. b \in Beams
  BY DEF Whole
<1>2. WithTopo(b, t) = b \/ OnlyMoved(b, WithTopo(b, t))
  BY <1>1 DEF WithTopo, OnlyMoved, Beams
<1>3. WithSize(b, r) = b \/ OnlyMoved(b, WithSize(b, r))
  BY <1>1 DEF WithSize, OnlyMoved, Beams
<1>4. WithTuned(b, f) = b \/ OnlyMoved(b, WithTuned(b, f))
  BY <1>1 DEF WithTuned, OnlyMoved, Beams
<1> QED  BY <1>2, <1>3, <1>4, MovedKeeps

LEMMA ConfiguredKeeps ==
    ASSUME NEW b, Whole(b), NEW key \in DOMAIN Fresh, NEW v, [Fresh EXCEPT ![key] = v] \in Shared
    PROVE  /\ Whole(Configured(b, key, v))
           /\ Exact(b) => Exact(Configured(b, key, v))
           /\ Configured(b, key, v).tail = b.tail
           /\ Configured(b, key, v)[key] = v
           /\ \A k \in DOMAIN Fresh \ {key} : Configured(b, key, v)[k] = b[k]
<1> DEFINE w == Configured(b, key, v)
<1>1. b \in Beams
  BY DEF Whole
<1>2. CASE key = "on"
  <2>1. w = [b EXCEPT !.on = v] /\ v \in BOOLEAN
    BY <1>2 DEF Configured, Shared, Fresh
  <2>2. /\ w \in Beams /\ w.on = v /\ w.mode = b.mode /\ w.snap = b.snap /\ w.tail = b.tail
        /\ w.wvalid = b.wvalid /\ w.weights = b.weights /\ Aim(w) = Aim(b)
        /\ w.valid = b.valid /\ w.steer = b.steer /\ w.angle = b.angle /\ w.n = b.n
        /\ w.last = b.last /\ w.phases = b.phases /\ w.sum = b.sum /\ w.cov = b.cov
    BY <1>1, <2>1 DEF Beams, Aim
  <2> HIDE DEF w
  <2>3. Whole(w) /\ (Exact(b) => Exact(w))
    BY <2>2 DEF Whole, Steady, Weights, Phases, Covariance, Exact
  <2> QED  BY <1>2, <2>2, <2>3 DEF w, Fresh
<1>3. CASE key = "mode"
  <2>1. v \in Modes
    BY <1>3 DEF Shared, Fresh
  <2>2. w = b \/ w = [b EXCEPT !.mode = v, !.wvalid = FALSE]
    BY <1>3 DEF Configured
  <2>3. w = b => v = b.mode
    BY <1>1, <1>3 DEF Configured, Beams
  <2>4. /\ w \in Beams /\ w.on = b.on /\ w.mode = v /\ w.snap = b.snap /\ w.tail = b.tail
        /\ w.wvalid => w = b
        /\ w.weights = b.weights /\ Aim(w) = Aim(b)
        /\ w.valid = b.valid /\ w.steer = b.steer /\ w.angle = b.angle /\ w.n = b.n
        /\ w.last = b.last /\ w.phases = b.phases /\ w.sum = b.sum /\ w.cov = b.cov
    <3>1. CASE w = b
      BY <1>1, <2>3, <3>1
    <3>2. CASE w = [b EXCEPT !.mode = v, !.wvalid = FALSE]
      BY <1>1, <2>1, <3>2 DEF Beams, Aim
    <3> QED  BY <2>2, <3>1, <3>2
  <2> HIDE DEF w
  <2>5. Whole(w) /\ (Exact(b) => Exact(w))
    BY <2>4 DEF Whole, Steady, Weights, Phases, Covariance, Exact
  <2> QED  BY <1>3, <2>4, <2>5 DEF w, Fresh
<1>4. CASE key = "snap"
  <2>1. v \in Snaps /\ v \in Nat \ {0}
    BY <1>4, Given DEF Shared, Fresh
  <2>2. w = b \/ w = [b EXCEPT !.snap = v, !.sum = NoSum, !.wvalid = FALSE]
    BY <1>4 DEF Configured
  <2>3. w = b => v = b.snap
    BY <1>1, <1>4 DEF Configured, Beams, NoSum
  <2>4. /\ w \in Beams /\ w.on = b.on /\ w.mode = b.mode /\ w.snap = v /\ w.tail = b.tail
        /\ w.wvalid => w = b
        /\ w.weights = b.weights /\ Aim(w) = Aim(b)
        /\ w.valid = b.valid /\ w.steer = b.steer /\ w.angle = b.angle /\ w.n = b.n
        /\ w.last = b.last /\ w.phases = b.phases /\ w.cov = b.cov
    <3>1. NoSum \in [count : Nat, ns : SUBSET Counts]
      BY DEF NoSum
    <3>2. CASE w = b
      BY <1>1, <2>3, <3>2
    <3>3. CASE w = [b EXCEPT !.snap = v, !.sum = NoSum, !.wvalid = FALSE]
      BY <1>1, <2>1, <3>1, <3>3 DEF Beams, Aim
    <3> QED  BY <2>2, <3>2, <3>3
  <2>5. w = b \/ w.sum = NoSum
    BY <1>1, <2>2 DEF Beams
  <2> HIDE DEF w
  <2>6. Whole(w) /\ (Exact(b) => Exact(w))
    BY <2>1, <2>4, <2>5 DEF Whole, Steady, Weights, Phases, Covariance, Exact, NoSum
  <2> QED  BY <1>4, <2>4, <2>6 DEF w, Fresh
<1> QED  BY <1>2, <1>3, <1>4 DEF Fresh

LEMMA SyncedKeeps ==
    ASSUME NEW b, Whole(b), NEW n \in Counts
    PROVE  /\ Whole(BeamSynced(b, n)) /\ BeamSynced(b, n).n = n
           /\ Exact(b) => Exact(BeamSynced(b, n))
           /\ b.n = n => BeamSynced(b, n) = b
           /\ b.n # n => BeamSynced(b, n).tail = <<>>
           /\ \A k \in DOMAIN Fresh : BeamSynced(b, n)[k] = b[k]
<1> DEFINE w == BeamSynced(b, n)
<1>1. CASE b.n = n
  BY <1>1 DEF BeamSynced
<1>2. CASE b.n # n
  <2>1. w = [b EXCEPT !.n = n, !.valid = FALSE, !.wvalid = FALSE, !.cov = n, !.sum = NoSum,
                   !.tail = <<>>, !.last = [angle |-> NoBeam, freq |-> 0]]
    BY <1>2 DEF BeamSynced
  <2>2. b \in Beams
    BY DEF Whole
  <2> DEFINE none == [angle |-> NoBeam, freq |-> 0]
  <2>3. none \in [angle : Angles \cup {NoBeam}, freq : Tuned \cup {NoBeam, 0}]
    OBVIOUS
  <2>4. w \in Beams
    <3>1. NoSum \in [count : Nat, ns : SUBSET Counts] /\ <<>> \in Seq(Nat)
      BY DEF NoSum
    <3>2. w = [b EXCEPT !.n = n, !.valid = FALSE, !.wvalid = FALSE, !.cov = n, !.sum = NoSum,
                        !.tail = <<>>, !.last = none]
      BY <2>1
    <3> HIDE DEF none, w
    <3> QED  BY <2>2, <2>3, <3>1, <3>2 DEF Beams
  <2>5. /\ ~w.valid /\ ~w.wvalid /\ w.n = n /\ w.cov = n /\ w.sum = NoSum
        /\ w.tail = <<>> /\ w.last.angle = NoBeam
        /\ w.mode = b.mode /\ w.on = b.on /\ w.snap = b.snap
    BY <2>1, <2>2 DEF Beams
  <2>6. w.snap \in Nat \ {0} /\ Len(<<>>) < FftSize
    BY <2>4, Given, BeamAssumption DEF Beams
  <2> HIDE DEF w
  <2>7. Whole(w) /\ Exact(w)
    BY <2>4, <2>5, <2>6 DEF Whole, Steady, Weights, Phases, Covariance, Exact, NoSum
  <2> QED  BY <1>2, <2>5, <2>7 DEF w, Fresh
<1> QED  BY <1>1, <1>2

-----------------------------------------------------------------------------
(* A block in each mode. *)

\* What a block leaves alone in every mode.
SameBut(b, w) ==
    /\ w.n = b.n /\ w.angle = b.angle /\ Aim(w) = Aim(b)
    /\ \A k \in DOMAIN Fresh : w[k] = b[k]

LEMMA SteersKeeps ==
    ASSUME NEW b, Whole(b)
    PROVE  /\ Whole(Steers(b)) /\ SameBut(b, Steers(b)) /\ Steers(b).tail = b.tail
           /\ Steers(b).steer = Aim(b) /\ Steers(b).sum = b.sum /\ Steers(b).cov = b.cov
           /\ Steers(b).wvalid = b.wvalid /\ Steers(b).weights = b.weights
<1> DEFINE w == Steers(b)
<1>1. b \in Beams /\ Aim(b) \in AimType
  BY Aims DEF Whole
<1>2. CASE b.valid
  BY <1>2 DEF Steers, SameBut, Whole, Steady
<1>3. CASE ~b.valid
  <2>1. w = [b EXCEPT !.steer = Aim(b), !.valid = TRUE]
    BY <1>3 DEF Steers
  <2>2. /\ w \in Beams /\ w.steer = Aim(b) /\ w.tail = b.tail /\ w.wvalid = b.wvalid
        /\ w.weights = b.weights /\ w.angle = b.angle /\ w.n = b.n /\ w.sum = b.sum
        /\ w.cov = b.cov /\ w.last = b.last /\ w.phases = b.phases /\ w.snap = b.snap
        /\ w.mode = b.mode /\ w.on = b.on /\ w.topo = b.topo /\ w.radius = b.radius
        /\ w.freq = b.freq
    BY <1>1, <2>1 DEF Beams
  <2>3. Aim(w) = Aim(b)
    <3> HIDE DEF w
    <3> QED  BY <2>2 DEF Aim
  <2> HIDE DEF w
  <2>4. Whole(w)
    BY <2>2, <2>3 DEF Whole, Steady, Weights, Phases, Covariance
  <2>5. SameBut(b, w)
    BY <2>2, <2>3 DEF SameBut, Fresh
  <2> QED  BY <2>2, <2>4, <2>5 DEF w
<1> QED  BY <1>2, <1>3

LEMMA PhasedKeeps ==
    ASSUME NEW b, Whole(b)
    PROVE  /\ Whole(Phased(b)) /\ SameBut(b, Phased(b)) /\ Phased(b).tail = b.tail
           /\ Phased(b).phases.angle = b.angle /\ Phased(b).phases.freq = b.freq
           /\ Phased(b).phases.n = b.n
           /\ Phased(b).wvalid = b.wvalid /\ Phased(b).weights = b.weights
<1> DEFINE w == Phased(b)  l == [angle |-> b.angle, freq |-> b.freq]
<1>1. b \in Beams /\ Aim(b) \in AimType
  BY Aims DEF Whole
<1>2. b.angle \in Angles /\ b.angle # NoBeam
  BY <1>1, Given DEF Beams
<1>3. l.angle = b.angle /\ l.freq = b.freq /\ l \in [angle : Angles \cup {NoBeam}, freq : Tuned \cup {NoBeam, 0}]
  BY <1>1 DEF Beams
<1>4. CASE b.last = l
  BY <1>2, <1>3, <1>4 DEF Phased, SameBut, Whole, Phases
<1>5. CASE b.last # l
  <2>1. w = [b EXCEPT !.last = l, !.phases = Aim(b)]
    BY <1>5 DEF Phased
  <2> HIDE DEF l
  <2>2. /\ w \in Beams /\ w.last = l /\ w.phases = Aim(b) /\ w.tail = b.tail
        /\ w.wvalid = b.wvalid /\ w.valid = b.valid /\ w.steer = b.steer
        /\ w.weights = b.weights /\ w.angle = b.angle /\ w.n = b.n /\ w.sum = b.sum
        /\ w.cov = b.cov /\ w.snap = b.snap
        /\ w.mode = b.mode /\ w.on = b.on /\ w.topo = b.topo /\ w.radius = b.radius
        /\ w.freq = b.freq
    BY <1>1, <1>3, <2>1 DEF Beams
  <2>3. Aim(b).angle = b.angle /\ Aim(b).freq = b.freq /\ Aim(b).n = b.n
    BY DEF Aim
  <2>4. Aim(w) = Aim(b)
    <3> HIDE DEF w
    <3> QED  BY <2>2 DEF Aim
  <2> HIDE DEF w
  <2>5. Whole(w)
    BY <1>3, <2>2, <2>3, <2>4 DEF Whole, Steady, Weights, Phases, Covariance
  <2>6. SameBut(b, w)
    BY <2>2, <2>4 DEF SameBut, Fresh
  <2> QED  BY <2>2, <2>3, <2>5, <2>6 DEF w
<1> QED  BY <1>4, <1>5

LEMMA SummedKeeps ==
    ASSUME NEW b, Whole(b), NEW block, block.channels \in Nat,
           block.samples \in Seq(Nat), Len(block.samples) > 0
    PROVE  /\ Whole(Summed(b, block)) /\ SameBut(b, Summed(b, block))
           /\ Summed(b, block).tail = b.tail
           /\ Summed(b, block).wvalid =>
                 b.wvalid /\ Summed(b, block).weights = b.weights
           /\ Summed(b, block).sum = NoSum /\ block.channels >= b.n =>
                 ~Summed(b, block).wvalid
<1> DEFINE w == Summed(b, block)  l == Len(block.samples)
           count == b.sum.count + SmallerOf(l, b.snap - b.sum.count)
           new == [count |-> count, ns |-> b.sum.ns \cup {b.n}]
<1>1. /\ b \in Beams /\ b.n \in Counts /\ b.sum.ns \subseteq {b.n} /\ b.cov = b.n
      /\ b.sum.count \in Nat /\ b.snap \in Nat /\ b.sum.count < b.snap
  BY Given DEF Whole, Covariance, Beams
<1>2. count \in Nat /\ count > 0 /\ count <= b.snap
  <2>1. l \in Nat /\ l > 0
    BY LenProperties
  <2> HIDE DEF l
  <2> QED  BY <1>1, <2>1 DEF SmallerOf
<1>3. new \in [count : Nat, ns : SUBSET Counts] /\ new # NoSum
  <2>1. new.count = count /\ NoSum.count = 0
    BY DEF NoSum
  <2> HIDE DEF count
  <2> QED  BY <1>1, <1>2, <2>1
<1>4. CASE block.channels < b.n
  <2>1. w = b
    BY <1>4 DEF Summed
  <2>2. ~(block.channels >= b.n)
    <3>1. b.n \in Nat
      <4>1. b.n \in Counts
        BY <1>1
      <4> QED  BY <4>1, Given
    <3>2. \A x, y \in Nat : x < y => ~(x >= y)
      OBVIOUS
    <3> QED  BY <1>4, <3>1, <3>2, Zenon
  <2> QED  BY <2>1, <2>2 DEF SameBut
<1>5. CASE ~(block.channels < b.n) /\ count < b.snap
  <2>1. w = [b EXCEPT !.sum = new]
    BY <1>5 DEF Summed
  <2> HIDE DEF new, count
  <2>2. /\ w \in Beams /\ w.sum = new /\ w.last = b.last /\ w.phases = b.phases
        /\ w.tail = b.tail /\ w.wvalid = b.wvalid /\ w.valid = b.valid /\ w.steer = b.steer
        /\ w.weights = b.weights /\ w.angle = b.angle /\ w.n = b.n
        /\ w.cov = b.cov /\ w.snap = b.snap
        /\ w.mode = b.mode /\ w.on = b.on /\ w.topo = b.topo /\ w.radius = b.radius
        /\ w.freq = b.freq
    BY <1>1, <1>3, <2>1 DEF Beams
  <2>3. Aim(w) = Aim(b)
    <3> HIDE DEF w
    <3> QED  BY <2>2 DEF Aim
  <2>4. new.count = count /\ new.ns \subseteq {b.n}
    BY <1>1 DEF new
  <2>5. ~(w.sum = NoSum)
    BY <1>3, <2>2
  <2> HIDE DEF w
  <2>6. Whole(w)
    BY <1>1, <1>5, <2>2, <2>3, <2>4 DEF Whole, Steady, Weights, Phases, Covariance
  <2>7. SameBut(b, w)
    BY <2>2, <2>3 DEF SameBut, Fresh
  <2> QED  BY <2>2, <2>5, <2>6, <2>7 DEF w
<1>6. CASE ~(block.channels < b.n) /\ ~(count < b.snap)
  <2>1. w = [b EXCEPT !.cov = b.n, !.sum = NoSum, !.wvalid = FALSE]
    BY <1>6 DEF Summed
  <2>2. NoSum \in [count : Nat, ns : SUBSET Counts]
    BY DEF NoSum
  <2>3. /\ w \in Beams /\ w.sum = NoSum /\ ~w.wvalid /\ w.last = b.last /\ w.phases = b.phases
        /\ w.tail = b.tail /\ w.valid = b.valid /\ w.steer = b.steer
        /\ w.weights = b.weights /\ w.angle = b.angle /\ w.n = b.n
        /\ w.cov = b.n /\ w.snap = b.snap
        /\ w.mode = b.mode /\ w.on = b.on /\ w.topo = b.topo /\ w.radius = b.radius
        /\ w.freq = b.freq
    BY <1>1, <2>1, <2>2 DEF Beams
  <2>4. Aim(w) = Aim(b)
    <3> HIDE DEF w
    <3> QED  BY <2>3 DEF Aim
  <2> HIDE DEF w
  <2>5. Whole(w)
    BY <1>1, <2>3, <2>4 DEF Whole, Steady, Weights, Phases, Covariance, NoSum
  <2>6. SameBut(b, w)
    BY <2>3, <2>4 DEF SameBut, Fresh
  <2> QED  BY <2>3, <2>5, <2>6 DEF w
<1> QED  BY <1>4, <1>5, <1>6

LEMMA WeighedKeeps ==
    ASSUME NEW b, Whole(b)
    PROVE  /\ Whole(Weighed(b)) /\ SameBut(b, Weighed(b)) /\ Weighed(b).tail = b.tail
           /\ Weighed(b).sum = b.sum /\ Weighed(b).wvalid
           /\ b.wvalid => Weighed(b) = b
           /\ ~b.wvalid => Weighed(b).weights = Aim(b)
<1> DEFINE w == Weighed(b)  s == Steers(b)
<1>1. CASE b.wvalid
  BY <1>1 DEF Weighed, SameBut
<1>2. CASE ~b.wvalid
  <2>1. w = [s EXCEPT !.weights = s.steer, !.wvalid = TRUE]
    BY <1>2 DEF Weighed
  <2>2. /\ Whole(s) /\ SameBut(b, s) /\ s.tail = b.tail /\ s.steer = Aim(b) /\ s.sum = b.sum
        /\ Aim(s) = Aim(b)
    BY SteersKeeps DEF SameBut
  <2> HIDE DEF s
  <2>3. s \in Beams /\ Aim(b).angle = s.angle /\ Aim(b).n = s.n
    BY <2>2 DEF Whole, SameBut, Aim
  <2>4. /\ w \in Beams /\ w.weights = Aim(b) /\ w.wvalid /\ w.tail = s.tail
        /\ w.valid = s.valid /\ w.steer = s.steer /\ w.angle = s.angle /\ w.n = s.n
        /\ w.sum = s.sum /\ w.cov = s.cov /\ w.last = s.last /\ w.phases = s.phases
        /\ w.mode = s.mode /\ w.on = s.on /\ w.snap = s.snap /\ w.topo = s.topo
        /\ w.radius = s.radius /\ w.freq = s.freq
    BY <2>1, <2>2, <2>3 DEF Beams
  <2>5. Aim(w) = Aim(s)
    <3> HIDE DEF w
    <3> QED  BY <2>4 DEF Aim
  <2> HIDE DEF w
  <2>6. Whole(w)
    BY <2>2, <2>3, <2>4, <2>5 DEF Whole, Steady, Weights, Phases, Covariance
  <2>7. SameBut(b, w)
    BY <2>2, <2>4, <2>5 DEF SameBut, Fresh
  <2> QED  BY <1>2, <2>2, <2>4, <2>6, <2>7 DEF w
<1> QED  BY <1>1, <1>2

-----------------------------------------------------------------------------
(* The arithmetic of frames.  m frames of a sequence begin at each half frame *)
(* and leave less than a frame behind the last beginning.                     *)

LEMMA Division ==
    ASSUME NEW a \in Nat, NEW h \in Nat, h > 0
    PROVE  a \div h \in Nat /\ a % h \in Nat /\ a % h < h /\ a = h * (a \div h) + (a % h)
OBVIOUS

LEMMA FramesCounted ==
    ASSUME NEW n \in Nat
    PROVE  /\ FramesIn(n) \in Nat /\ FramesIn(n) * Hop \in Nat
           /\ FramesIn(n) * Hop <= n /\ n - FramesIn(n) * Hop < FftSize
           /\ FramesIn(n) > 0 => FramesIn(n) * Hop + Hop <= n
<1>1. Hop \in Nat /\ Hop > 0 /\ FftSize = 2 * Hop
  BY HalfFrame
<1>2. CASE n < FftSize
  <2>1. FramesIn(n) = 0
    BY <1>2 DEF FramesIn
  <2>2. 0 * Hop = 0
    BY <1>1
  <2> QED  BY <1>1, <1>2, <2>1, <2>2
<1>3. CASE ~(n < FftSize)
  <2> DEFINE a == n - FftSize  q == a \div Hop  p == Hop * q
  <2>1. a \in Nat /\ n = a + FftSize
    BY <1>1, <1>3
  <2>2. q \in Nat /\ a % Hop \in Nat /\ a % Hop < Hop /\ a = p + (a % Hop)
    BY <1>1, <2>1, Division
  <2>3. FramesIn(n) = q + 1
    BY <1>3 DEF FramesIn
  <2> HIDE DEF a, q
  <2>4. p \in Nat /\ (q + 1) * Hop = p + Hop
    BY <1>1, <2>2
  <2> HIDE DEF p
  <2> DEFINE r == a % Hop
  <2>5. r \in Nat /\ r < Hop /\ a = p + r
    BY <2>2
  <2> HIDE DEF r
  <2> QED  BY <1>1, <2>1, <2>2, <2>3, <2>4, <2>5
<1> QED  BY <1>2, <1>3

LEMMA Cut ==
    ASSUME NEW s \in Seq(Nat), NEW a \in Nat, NEW c \in Nat, a + c <= Len(s)
    PROVE  /\ SubSeq(s, a + 1, a + c) \in Seq(Nat)
           /\ Len(SubSeq(s, a + 1, a + c)) = c
           /\ \A i \in 1 .. c : SubSeq(s, a + 1, a + c)[i] = s[a + i]
<1>1. Len(s) \in Nat /\ \A i \in 1 .. Len(s) : s[i] \in Nat
  BY LenProperties, ElementOfSeq
<1>2. a + 1 \in Int /\ a + c \in Int /\ \A i \in a + 1 .. a + c : s[i] \in Nat
  BY <1>1
<1>3. /\ SubSeq(s, a + 1, a + c) \in Seq(Nat)
      /\ Len(SubSeq(s, a + 1, a + c)) = IF a + 1 <= a + c THEN a + c - (a + 1) + 1 ELSE 0
      /\ \A i \in 1 .. a + c - (a + 1) + 1 : SubSeq(s, a + 1, a + c)[i] = s[a + 1 + i - 1]
  BY <1>2, SubSeqProperties
<1> DEFINE t == SubSeq(s, a + 1, a + c)
<1> HIDE DEF t
<1>4. /\ t \in Seq(Nat)
      /\ Len(t) = IF a + 1 <= a + c THEN a + c - (a + 1) + 1 ELSE 0
      /\ \A i \in 1 .. a + c - (a + 1) + 1 : t[i] = s[a + 1 + i - 1]
  BY <1>3 DEF t
<1>5. a + c - (a + 1) + 1 = c /\ \A i \in 1 .. c : a + 1 + i - 1 = a + i
  OBVIOUS
<1>6. Len(t) = c
  BY <1>4
<1>7. \A i \in 1 .. c : t[i] = s[a + i]
  BY <1>4, <1>5
<1> QED  BY <1>4, <1>6, <1>7 DEF t

LEMMA UpToContinuous ==
    ASSUME NEW s \in Seq(Nat), NEW e \in Int, UpTo(s, e)
    PROVE  ContinuousFrom(s)
<1>1. Len(s) \in Nat /\ DOMAIN s = 1 .. Len(s)
  BY LenProperties
<1> SUFFICES ASSUME NEW i \in 1 .. Len(s) - 1
             PROVE  s[i + 1] = s[i] + 1
  BY DEF ContinuousFrom
<1>2. i \in DOMAIN s /\ i + 1 \in DOMAIN s
  BY <1>1
<1>3. s[i] = e - Len(s) + i /\ s[i + 1] = e - Len(s) + (i + 1)
  BY <1>2 DEF UpTo
<1> QED  BY <1>1, <1>3

LEMMA UpToConcat ==
    ASSUME NEW s \in Seq(Nat), NEW t \in Seq(Nat), NEW e \in Int,
           UpTo(s, e - Len(t)), UpTo(t, e)
    PROVE  s \o t \in Seq(Nat) /\ Len(s \o t) = Len(s) + Len(t) /\ UpTo(s \o t, e)
<1>1. /\ s \o t \in Seq(Nat) /\ Len(s \o t) = Len(s) + Len(t)
      /\ \A i \in 1 .. Len(s) + Len(t) : (s \o t)[i] = IF i <= Len(s) THEN s[i] ELSE t[i - Len(s)]
  BY ConcatProperties
<1>2. /\ Len(s) \in Nat /\ DOMAIN s = 1 .. Len(s) /\ Len(t) \in Nat /\ DOMAIN t = 1 .. Len(t)
      /\ DOMAIN (s \o t) = 1 .. Len(s) + Len(t)
  BY <1>1, LenProperties
<1> DEFINE u == s \o t  l == Len(s)  k == Len(t)
<1>3. UpTo(u, e)
  <2> SUFFICES ASSUME NEW i \in 1 .. l + k
               PROVE  u[i] = e - (l + k) + i
    BY <1>1, <1>2 DEF UpTo
  <2>1. CASE i <= l
    <3>1. u[i] = s[i] /\ i \in DOMAIN s
      BY <1>1, <1>2, <2>1
    <3>2. s[i] = (e - k) - l + i
      BY <3>1 DEF UpTo
    <3> HIDE DEF u, l, k
    <3>3. l \in Nat /\ k \in Nat
      BY <1>2 DEF l, k
    <3> QED  BY <3>1, <3>2, <3>3
  <2>2. CASE ~(i <= l)
    <3>1. u[i] = t[i - l] /\ i - l \in DOMAIN t
      BY <1>1, <1>2, <2>2
    <3>2. t[i - l] = e - k + (i - l)
      BY <3>1 DEF UpTo
    <3> HIDE DEF u, l, k
    <3>3. l \in Nat /\ k \in Nat
      BY <1>2 DEF l, k
    <3> QED  BY <3>1, <3>2, <3>3
  <2> QED  BY <2>1, <2>2
<1> QED  BY <1>1, <1>3

\* What is kept for the next block ends where the sequence ends, and begins
\* half a frame after the last frame did.
LEMMA TailKept ==
    ASSUME NEW s \in Seq(Nat)
    PROVE  /\ TailOf(s) \in Seq(Nat) /\ Len(TailOf(s)) < FftSize
           /\ \A e \in Int : UpTo(s, e) => UpTo(TailOf(s), e)
           /\ FramesIn(Len(s)) = 0 => TailOf(s) = s
           /\ FramesIn(Len(s)) > 0 =>
                 /\ TailOf(s) # <<>>
                 /\ Head(TailOf(s)) = s[(FramesIn(Len(s)) * Hop) + 1]
<1> DEFINE n == Len(s)  a == FramesIn(n) * Hop  c == n - a  t == TailOf(s)
<1>1. n \in Nat /\ DOMAIN s = 1 .. n
  BY LenProperties
<1>2. /\ FramesIn(n) \in Nat /\ a \in Nat /\ a <= n /\ n - a < FftSize
      /\ FramesIn(n) > 0 => a + Hop <= n
  BY <1>1, FramesCounted
<1>3. c \in Nat /\ a + c = n
  <2> HIDE DEF a, n
  <2> QED  BY <1>1, <1>2
<1>4. t = SubSeq(s, a + 1, a + c)
  BY <1>3 DEF TailOf
<1>5. t \in Seq(Nat) /\ Len(t) = c /\ \A i \in 1 .. c : t[i] = s[a + i]
  <2> HIDE DEF a, c
  <2>1. a + c <= Len(s)
    BY <1>1, <1>2, <1>3
  <2> HIDE DEF t
  <2> QED  BY <1>2, <1>3, <1>4, <2>1, Cut
<1>6. ASSUME NEW e \in Int, UpTo(s, e)
      PROVE  UpTo(t, e)
  <2> SUFFICES ASSUME NEW i \in 1 .. c
               PROVE  t[i] = e - c + i
    BY <1>5, LenProperties DEF UpTo
  <2>1. a + i \in DOMAIN s /\ t[i] = s[a + i]
    <3> HIDE DEF a, c, t, n
    <3> QED  BY <1>1, <1>2, <1>3, <1>5
  <2>2. s[a + i] = e - n + (a + i)
    BY <1>6, <2>1 DEF UpTo
  <2> HIDE DEF a, c, t, n
  <2> QED  BY <1>1, <1>2, <1>3, <2>1, <2>2
<1>7. CASE FramesIn(n) = 0
  <2>1. a = 0
    BY <1>7, HalfFrame
  <2>2. t = SubSeq(s, 1, Len(s))
    BY <2>1, <1>1 DEF TailOf
  <2>3. t = s
    BY <2>2, SubSeqFull
  <2> QED  BY <1>2, <1>5, <1>6, <1>7, <2>3
<1>8. CASE FramesIn(n) > 0
  <2>1. c >= Hop /\ Hop > 0 /\ Hop \in Nat
    <3> HIDE DEF a, n
    <3> QED  BY <1>1, <1>2, <1>8, HalfFrame
  <2> HIDE DEF c, a, t
  <2>2. 1 \in 1 .. c /\ c > 0
    BY <2>1, <1>3
  <2>3. t # <<>>
    BY <1>5, <2>2
  <2>4. Head(t) = s[a + 1]
    BY <1>5, <2>2
  <2> QED  BY <1>2, <1>3, <1>5, <1>6, <1>8, <2>3, <2>4 DEF t, a, c
<1> QED  BY <1>2, <1>7, <1>8

LEMMA FrameWhole ==
    ASSUME NEW s \in Seq(Nat), NEW k \in 1 .. FramesIn(Len(s))
    PROVE  /\ FrameOf(s, k) \in Seq(Nat)
           /\ Head(FrameOf(s, k)) = s[((k - 1) * Hop) + 1]
           /\ \A e \in Int : UpTo(s, e) => ContinuousFrom(FrameOf(s, k))
<1> DEFINE n == Len(s)  m == FramesIn(n)  a == (k - 1) * Hop  t == FrameOf(s, k)
<1>1. n \in Nat /\ DOMAIN s = 1 .. n /\ Hop \in Nat /\ Hop > 0 /\ FftSize = 2 * Hop
  BY LenProperties, HalfFrame
<1>2. m \in Nat /\ m * Hop \in Nat /\ (m > 0 => m * Hop + Hop <= n)
  BY <1>1, FramesCounted
<1> HIDE DEF m
<1>3. k \in Nat /\ k > 0 /\ k <= m
  BY <1>2 DEF m
<1>4. a \in Nat /\ a + FftSize <= n
  <2>1. a \in Nat /\ a = k * Hop - Hop
    BY <1>1, <1>3
  <2>2. k * Hop <= m * Hop
    <3>1. PICK d \in Nat : m = k + d
      <4>1. m - k \in Nat /\ m = k + (m - k)
        BY <1>2, <1>3
      <4> QED  BY <4>1
    <3>2. m * Hop = k * Hop + d * Hop /\ d * Hop \in Nat
      BY <1>1, <1>3, <3>1
    <3> QED  BY <1>1, <1>3, <3>2
  <2> DEFINE x == k * Hop  y == m * Hop
  <2>3. x \in Nat /\ x <= y /\ a = x - Hop
    BY <1>1, <1>3, <2>1, <2>2
  <2>4. y \in Nat /\ y + Hop <= n
    BY <1>2, <1>3
  <2> HIDE DEF a, x, y, n
  <2> QED  BY <1>1, <2>1, <2>3, <2>4
<1> HIDE DEF a
<1>5. t = SubSeq(s, a + 1, a + FftSize)
  BY DEF FrameOf, a
<1>6. FftSize \in Nat /\ FftSize > 0
  BY <1>1
<1>7. t \in Seq(Nat) /\ Len(t) = FftSize /\ \A i \in 1 .. FftSize : t[i] = s[a + i]
  <2>1. a + FftSize <= Len(s) /\ a \in Nat /\ FftSize \in Nat
    BY <1>4, <1>6
  <2> HIDE DEF t
  <2> QED  BY <1>5, <2>1, Cut
<1> HIDE DEF t
<1>8. Head(t) = s[a + 1]
  BY <1>6, <1>7
<1>9. ASSUME NEW e \in Int, UpTo(s, e)
      PROVE  ContinuousFrom(t)
  <2> SUFFICES ASSUME NEW i \in 1 .. FftSize - 1
               PROVE  t[i + 1] = t[i] + 1
    BY <1>7 DEF ContinuousFrom
  <2>1. /\ i \in 1 .. FftSize /\ i + 1 \in 1 .. FftSize
        /\ a + i \in DOMAIN s /\ a + (i + 1) \in DOMAIN s
    BY <1>1, <1>4, <1>6
  <2>2. t[i] = s[a + i] /\ t[i + 1] = s[a + (i + 1)]
    BY <1>7, <2>1
  <2>3. s[a + i] = e - Len(s) + (a + i) /\ s[a + (i + 1)] = e - Len(s) + (a + (i + 1))
    BY <1>9, <2>1 DEF UpTo
  <2> QED  BY <1>1, <1>4, <2>2, <2>3
<1> QED  BY <1>7, <1>8, <1>9 DEF t, a

-----------------------------------------------------------------------------
(* What comes out of a block. *)

PointsOf(out) ==
    \A aim \in out.aim, with \in out.with :
        /\ out.mode = "das" => with = aim
        /\ out.mode = "freq" =>
              with.angle = aim.angle /\ with.freq = aim.freq /\ with.n = aim.n
PickOf(out) ==
    out.mode = "diversity" => \A aim \in out.aim : out.pick \in 0 .. aim.n - 1
FollowsOf(out, exact) ==
    out.mode = "mvdr" =>
        \A aim \in out.aim, with \in out.with :
            /\ with.angle = aim.angle /\ with.n = aim.n
            /\ exact => with = aim

\* Everything a block promises, in whichever mode it is combined.
BlockSound(b, block, f) ==
    /\ Whole(f.beam) /\ SameBut(b, f.beam) /\ f.out \in Outs
    /\ PointsOf(f.out) /\ PickOf(f.out) /\ FollowsOf(f.out, Exact(f.beam))
    /\ Exact(b) => Exact(f.beam)
    /\ b.mode = "mvdr" /\ f.beam.sum = NoSum /\ block.channels >= b.n => Exact(f.beam)
    /\ f.out.mode # "freq" => f.out.frames = <<>> /\ f.beam.tail = b.tail

LEMMA NothingSound ==
    /\ Nothing \in Outs /\ PointsOf(Nothing) /\ PickOf(Nothing) /\ Nothing.frames = <<>>
    /\ Nothing.mode = "none" /\ \A exact : FollowsOf(Nothing, exact)
<1>1. <<>> \in Seq(Seq(Nat))
  OBVIOUS
<1>2. Nothing \in Outs
  BY <1>1 DEF Nothing, Outs
<1> QED  BY <1>2 DEF Nothing, PointsOf, PickOf, FollowsOf

LEMMA MadeIs ==
    ASSUME NEW b \in Beams, NEW with \in AimType
    PROVE  /\ Made(b, with) \in Outs /\ Made(b, with).mode = b.mode
           /\ Made(b, with).with = {with} /\ Made(b, with).aim = {Aim(b)}
           /\ Made(b, with).pick = 0 /\ Made(b, with).frames = <<>>
<1> DEFINE w == Made(b, with)
<1>1. /\ Nothing \in Outs /\ Aim(b) \in AimType /\ b.mode \in Modes
      /\ Nothing.pick = 0 /\ Nothing.frames = <<>>
  BY NothingSound, Aims DEF Beams, Nothing
<1>2. w = [Nothing EXCEPT !.mode = b.mode, !.with = {with}, !.aim = {Aim(b)}]
  BY DEF Made
<1> HIDE DEF w
<1>3. /\ w \in Outs /\ w.mode = b.mode /\ w.with = {with} /\ w.aim = {Aim(b)}
      /\ w.pick = Nothing.pick /\ w.frames = Nothing.frames
  BY <1>1, <1>2 DEF Outs
<1> QED  BY <1>1, <1>3 DEF w

LEMMA DasSound ==
    ASSUME NEW b, Whole(b), b.mode = "das", NEW block, NEW plain, NEW best, NEW clearly
    PROVE  BlockSound(b, block, Formed(b, block, plain, best, clearly))
<1> DEFINE f == Formed(b, block, plain, best, clearly)  s == Steers(b)
           v == IF plain THEN Aim(s) ELSE s.steer
<1>1. f = [beam |-> s, out |-> IF block.channels >= b.n THEN Made(s, v) ELSE Nothing]
  BY DEF Formed
<1>2. /\ Whole(s) /\ SameBut(b, s) /\ s.tail = b.tail /\ s.steer = Aim(b)
      /\ s.wvalid = b.wvalid /\ s.weights = b.weights
  BY SteersKeeps
<1>3. s \in Beams /\ Aim(s) = Aim(b) /\ v = Aim(s) /\ Aim(s) \in AimType /\ s.mode = "das"
  BY <1>2, Aims DEF Whole, SameBut, Fresh
<1>4. f.beam = s /\ (f.out = Made(s, v) \/ f.out = Nothing)
  BY <1>1
<1> HIDE DEF f, s, v
<1>5. /\ f.out \in Outs /\ PointsOf(f.out) /\ PickOf(f.out) /\ FollowsOf(f.out, Exact(f.beam))
      /\ f.out.frames = <<>>
  <2>1. CASE f.out = Nothing
    BY <2>1, NothingSound
  <2>2. CASE f.out = Made(s, v)
    <3>1. /\ f.out \in Outs /\ f.out.mode = "das" /\ f.out.with = {Aim(s)}
          /\ f.out.aim = {Aim(s)} /\ f.out.frames = <<>>
      BY <1>3, <2>2, MadeIs
    <3> QED  BY <3>1 DEF PointsOf, PickOf, FollowsOf
  <2> QED  BY <1>4, <2>1, <2>2
<1>6. Exact(b) => Exact(s)
  BY <1>2, <1>3 DEF Exact
<1> QED  BY <1>2, <1>4, <1>5, <1>6 DEF BlockSound, f

LEMMA MvdrSound ==
    ASSUME NEW b, Whole(b), b.mode = "mvdr", NEW block, block.channels \in Nat,
           block.samples \in Seq(Nat), Len(block.samples) > 0,
           NEW plain, NEW best, NEW clearly
    PROVE  BlockSound(b, block, Formed(b, block, plain, best, clearly))
<1> DEFINE f == Formed(b, block, plain, best, clearly)  s == Summed(b, block)  w == Weighed(s)
<1>1. f = [beam |-> w, out |-> IF block.channels >= b.n THEN Made(w, w.weights) ELSE Nothing]
  BY DEF Formed
<1>2. /\ Whole(s) /\ SameBut(b, s) /\ s.tail = b.tail
      /\ s.wvalid => b.wvalid /\ s.weights = b.weights
      /\ s.sum = NoSum /\ block.channels >= b.n => ~s.wvalid
  BY SummedKeeps
<1> HIDE DEF s
<1>3. /\ Whole(w) /\ SameBut(s, w) /\ w.tail = s.tail /\ w.sum = s.sum /\ w.wvalid
      /\ s.wvalid => w = s
      /\ ~s.wvalid => w.weights = Aim(s)
  BY <1>2, WeighedKeeps
<1>4. f.beam = w /\ (f.out = Made(w, w.weights) \/ f.out = Nothing)
  BY <1>1
<1> HIDE DEF f, w
<1>5. SameBut(b, w) /\ w.tail = b.tail
  BY <1>2, <1>3 DEF SameBut
<1>6. w \in Beams /\ w.weights \in AimType /\ w.mode = "mvdr" /\ Aim(w) = Aim(s) /\ Aim(s) = Aim(b)
  BY <1>2, <1>3, <1>5 DEF Whole, Beams, SameBut, Fresh
<1>7. w.weights.angle = w.angle /\ w.weights.n = w.n
  BY <1>3 DEF Whole, Weights
<1>8. Exact(b) => Exact(w)
  BY <1>2, <1>3, <1>6 DEF Exact
<1>9. w.sum = NoSum /\ block.channels >= b.n => Exact(w)
  BY <1>2, <1>3, <1>6 DEF Exact
<1>10. /\ f.out \in Outs /\ PointsOf(f.out) /\ PickOf(f.out) /\ FollowsOf(f.out, Exact(w))
       /\ f.out.frames = <<>>
  <2>1. CASE f.out = Nothing
    BY <2>1, NothingSound
  <2>2. CASE f.out = Made(w, w.weights)
    <3>1. /\ f.out \in Outs /\ f.out.mode = "mvdr" /\ f.out.with = {w.weights}
          /\ f.out.aim = {Aim(w)} /\ f.out.frames = <<>>
      BY <1>6, <2>2, MadeIs
    <3>2. Aim(w).angle = w.angle /\ Aim(w).n = w.n
      BY DEF Aim
    <3>3. Exact(w) => w.weights = Aim(w)
      BY <1>3 DEF Exact
    <3> QED  BY <1>7, <3>1, <3>2, <3>3 DEF PointsOf, PickOf, FollowsOf
  <2> QED  BY <1>4, <2>1, <2>2
<1> QED  BY <1>3, <1>4, <1>5, <1>8, <1>9, <1>10 DEF BlockSound, f

LEMMA DiversitySound ==
    ASSUME NEW b, Whole(b), b.mode = "diversity", NEW block, NEW plain,
           NEW best \in 0 .. b.n - 1, NEW clearly \in BOOLEAN
    PROVE  BlockSound(b, block, Formed(b, block, plain, best, clearly))
<1> DEFINE f == Formed(b, block, plain, best, clearly)  p == Held(b, best, clearly)
           s == [b EXCEPT !.selected = p]  o == [Made(s, Aim(s)) EXCEPT !.pick = s.selected]
<1>1. f = IF ~(block.channels >= b.n) THEN [beam |-> b, out |-> Nothing]
          ELSE [beam |-> s, out |-> o]
  BY DEF Formed
<1>2. b \in Beams /\ b.n \in Counts /\ b.n \in Nat
  BY Given DEF Whole, Beams
<1>3. p \in 0 .. b.n - 1 /\ p \in Nat
  BY <1>2 DEF Held, Beams
<1> HIDE DEF p
<1>4. /\ s \in Beams /\ s.selected = p /\ s.mode = "diversity" /\ s.tail = b.tail
      /\ s.wvalid = b.wvalid /\ s.valid = b.valid /\ s.steer = b.steer
      /\ s.weights = b.weights /\ s.angle = b.angle /\ s.n = b.n /\ s.sum = b.sum
      /\ s.cov = b.cov /\ s.last = b.last /\ s.phases = b.phases /\ s.snap = b.snap
      /\ s.on = b.on /\ s.topo = b.topo /\ s.radius = b.radius /\ s.freq = b.freq
  BY <1>2, <1>3 DEF Beams
<1> HIDE DEF s
<1>5. Aim(s) = Aim(b) /\ Aim(s).n = s.n
  BY <1>4 DEF Aim
<1>6. Whole(s) /\ SameBut(b, s) /\ (Exact(b) => Exact(s))
  BY <1>4, <1>5 DEF Whole, Steady, Weights, Phases, Covariance, SameBut, Fresh, Exact
<1>7. Made(s, Aim(s)) \in Outs /\ Made(s, Aim(s)).mode = "diversity" /\ Made(s, Aim(s)).aim = {Aim(s)}
      /\ Made(s, Aim(s)).frames = <<>>
  BY <1>4, Aims, MadeIs
<1>8. o \in Outs /\ o.mode = "diversity" /\ o.aim = {Aim(s)} /\ o.frames = <<>> /\ o.pick = p
  BY <1>3, <1>4, <1>7 DEF Outs
<1> HIDE DEF o
<1>9. CASE ~(block.channels >= b.n)
  <2>1. f.beam = b /\ f.out = Nothing
    BY <1>1, <1>9
  <2> HIDE DEF f
  <2>2. SameBut(b, b)
    BY DEF SameBut
  <2> QED  BY <2>1, <2>2, NothingSound DEF BlockSound, f
<1>10. CASE block.channels >= b.n
  <2>1. f.beam = s /\ f.out = o
    BY <1>1, <1>10
  <2> HIDE DEF f
  <2>2. PointsOf(o) /\ PickOf(o) /\ FollowsOf(o, Exact(s))
    BY <1>3, <1>4, <1>5, <1>8 DEF PointsOf, PickOf, FollowsOf
  <2> QED  BY <1>4, <1>6, <1>8, <2>1, <2>2 DEF BlockSound, f
<1> QED  BY <1>9, <1>10


\* The frames that a block completes, and what is left of it.
All(b, block) == b.tail \o block.samples
FrameSound(b, block, f) ==
    f.out.mode = "freq" =>
        /\ f.beam.tail = TailOf(All(b, block))
        /\ f.out.frames \in Seq(Seq(Nat))
        /\ Len(f.out.frames) = FramesIn(Len(All(b, block)))
        /\ \A k \in 1 .. FramesIn(Len(All(b, block))) : f.out.frames[k] = FrameOf(All(b, block), k)

LEMMA FreqSound ==
    ASSUME NEW b, Whole(b), b.mode = "freq", NEW block, block.samples \in Seq(Nat),
           NEW plain, NEW best, NEW clearly
    PROVE  /\ BlockSound(b, block, Formed(b, block, plain, best, clearly))
           /\ FrameSound(b, block, Formed(b, block, plain, best, clearly))
<1> DEFINE f == Formed(b, block, plain, best, clearly)  p == Phased(b)  all == p.tail \o block.samples
           m == FramesIn(Len(all))
           frames == [k \in 1 .. m |-> FrameOf(all, k)]
           s == [p EXCEPT !.tail = TailOf(all)]
           o == [Made(p, p.phases) EXCEPT !.frames = frames]
<1>1. f = IF ~(block.channels >= b.n) THEN [beam |-> b, out |-> Nothing]
          ELSE [beam |-> s, out |-> o]
  BY DEF Formed
<1>2. /\ Whole(p) /\ SameBut(b, p) /\ p.tail = b.tail
      /\ p.phases.angle = b.angle /\ p.phases.freq = b.freq /\ p.phases.n = b.n
      /\ p.wvalid = b.wvalid /\ p.weights = b.weights
  BY PhasedKeeps
<1>3. p \in Beams /\ p.phases \in AimType /\ p.mode = "freq" /\ Aim(p) = Aim(b)
  BY <1>2 DEF Whole, Beams, SameBut, Fresh
<1> HIDE DEF p
<1>4. all \in Seq(Nat) /\ all = All(b, block)
  BY <1>2, <1>3, ConcatProperties DEF Beams, All
<1> HIDE DEF all
<1>5. TailOf(all) \in Seq(Nat) /\ Len(TailOf(all)) < FftSize
  BY <1>4, TailKept
<1>6. m \in Nat
  BY <1>4, LenProperties, FramesCounted
<1>7. \A k \in 1 .. m : FrameOf(all, k) \in Seq(Nat)
  BY <1>4, FrameWhole
<1> HIDE DEF m
<1>8. frames \in Seq(Seq(Nat)) /\ Len(frames) = m /\ \A k \in 1 .. m : frames[k] = FrameOf(all, k)
  <2>1. frames \in [1 .. m -> Seq(Nat)]
    BY <1>7
  <2>2. frames \in Seq(Seq(Nat))
    BY <1>6, <2>1, SeqDef
  <2>3. Len(frames) = m
    BY <1>6, <2>1, <2>2, LenProperties
  <2> QED  BY <2>2, <2>3
<1> HIDE DEF frames
<1>9. /\ s \in Beams /\ s.tail = TailOf(all) /\ s.mode = "freq"
      /\ s.wvalid = p.wvalid /\ s.valid = p.valid /\ s.steer = p.steer
      /\ s.weights = p.weights /\ s.angle = p.angle /\ s.n = p.n /\ s.sum = p.sum
      /\ s.cov = p.cov /\ s.last = p.last /\ s.phases = p.phases /\ s.snap = p.snap
      /\ s.on = p.on /\ s.topo = p.topo /\ s.radius = p.radius /\ s.freq = p.freq
  BY <1>3, <1>5 DEF Beams
<1> HIDE DEF s
<1>10. Aim(s) = Aim(p)
  BY <1>9 DEF Aim
<1>11. Whole(s) /\ SameBut(b, s) /\ (Exact(b) => Exact(s))
  BY <1>2, <1>3, <1>5, <1>9, <1>10 DEF Whole, Steady, Weights, Phases, Covariance, SameBut, Fresh, Exact
<1>12. Made(p, p.phases) \in Outs /\ Made(p, p.phases).mode = "freq"
       /\ Made(p, p.phases).with = {p.phases} /\ Made(p, p.phases).aim = {Aim(p)}
  BY <1>3, MadeIs
<1>13. o \in Outs /\ o.mode = "freq" /\ o.with = {p.phases} /\ o.aim = {Aim(p)} /\ o.frames = frames
  BY <1>8, <1>12 DEF Outs
<1> HIDE DEF o
<1>14. CASE ~(block.channels >= b.n)
  <2>1. f.beam = b /\ f.out = Nothing
    BY <1>1, <1>14
  <2> HIDE DEF f
  <2>2. SameBut(b, b)
    BY DEF SameBut
  <2> QED  BY <2>1, <2>2, NothingSound DEF BlockSound, FrameSound, f
<1>15. CASE block.channels >= b.n
  <2>1. f.beam = s /\ f.out = o
    BY <1>1, <1>15
  <2> HIDE DEF f
  <2>2. PointsOf(o) /\ PickOf(o) /\ FollowsOf(o, Exact(s))
    <3>1. Aim(p).angle = b.angle /\ Aim(p).freq = b.freq /\ Aim(p).n = b.n
      BY <1>3 DEF Aim
    <3> QED  BY <1>2, <1>13, <3>1 DEF PointsOf, PickOf, FollowsOf
  <2>3. BlockSound(b, block, f)
    BY <1>11, <1>13, <2>1, <2>2 DEF BlockSound
  <2>4. FrameSound(b, block, f)
    BY <1>4, <1>8, <1>9, <1>13, <2>1 DEF FrameSound, m
  <2> QED  BY <2>3, <2>4 DEF f
<1> QED  BY <1>14, <1>15

LEMMA FormedSound ==
    ASSUME NEW b, Whole(b), NEW block, block.channels \in Nat,
           block.samples \in Seq(Nat), Len(block.samples) > 0,
           NEW plain, NEW best \in 0 .. b.n - 1, NEW clearly \in BOOLEAN
    PROVE  /\ BlockSound(b, block, Formed(b, block, plain, best, clearly))
           /\ FrameSound(b, block, Formed(b, block, plain, best, clearly))
           /\ Formed(b, block, plain, best, clearly).out.mode \in {b.mode, "none"}
<1> DEFINE f == Formed(b, block, plain, best, clearly)
<1>1. b.mode \in Modes
  BY DEF Whole, Beams
<1>2. BlockSound(b, block, f)
  BY <1>1, DasSound, MvdrSound, DiversitySound, FreqSound DEF Modes
<1>3. f.out.mode \in {b.mode, "none"}
  <2>1. Nothing.mode = "none"
    BY DEF Nothing
  <2>2. \A x, v : Made(x, v).mode = x.mode
    BY DEF Made, Nothing
  <2>3. \A x, v, k : [Made(x, v) EXCEPT !.pick = k].mode = x.mode
    BY DEF Made, Nothing
  <2>4. \A x, v, k : [Made(x, v) EXCEPT !.frames = k].mode = x.mode
    BY DEF Made, Nothing
  <2>5. Steers(b).mode = b.mode /\ Phased(b).mode = b.mode
    BY SteersKeeps, PhasedKeeps DEF SameBut, Fresh
  <2>6. Weighed(Summed(b, block)).mode = b.mode
    <3>1. Whole(Summed(b, block)) /\ Summed(b, block).mode = b.mode
      BY SummedKeeps DEF SameBut, Fresh
    <3> QED  BY <3>1, WeighedKeeps DEF SameBut, Fresh
  <2>7. [b EXCEPT !.selected = Held(b, best, clearly)].mode = b.mode
    BY DEF Whole, Beams
  <2>8. CASE b.mode = "das"
    BY <2>1, <2>2, <2>5, <2>8 DEF Formed
  <2>9. CASE b.mode = "mvdr"
    BY <2>1, <2>2, <2>6, <2>9 DEF Formed
  <2>10. CASE b.mode = "diversity"
    <3> DEFINE s == [b EXCEPT !.selected = Held(b, best, clearly)]
               o == [Made(s, Aim(s)) EXCEPT !.pick = s.selected]
    <3>1. f.out = Nothing \/ f.out = o
      BY <2>10 DEF Formed
    <3>2. o.mode = s.mode
      BY <2>3
    <3> QED  BY <2>1, <2>7, <3>1, <3>2
  <2>11. CASE b.mode = "freq"
    BY <2>1, <2>4, <2>5, <2>11 DEF Formed
  <2> QED  BY <1>1, <2>8, <2>9, <2>10, <2>11 DEF Modes
<1>4. FrameSound(b, block, f)
  <2>1. CASE b.mode = "freq"
    BY <2>1, FreqSound
  <2>2. CASE b.mode # "freq"
    BY <1>3, <2>2 DEF FrameSound
  <2> QED  BY <2>1, <2>2
<1> QED  BY <1>2, <1>3, <1>4

-----------------------------------------------------------------------------
(* Steps that leave a part of the invariant alone. *)

LEMMA OutsAre ==
    /\ BeamPointsWhereAsked <=> PointsOf(made.out)
    /\ WeightsFollow <=> FollowsOf(made.out, made.renewed)
    /\ SelectedInRange <=> PickOf(made.out)
BY DEF BeamPointsWhereAsked, WeightsFollow, SelectedInRange, PointsOf, FollowsOf, PickOf

LEMMA OutKept ==
    ASSUME BInv, made'.out = made.out, made'.renewed => made.renewed
    PROVE  BeamPointsWhereAsked' /\ WeightsFollow' /\ SelectedInRange'
BY DEF BInv, BeamPointsWhereAsked, WeightsFollow, SelectedInRange

LEMMA TilingKept ==
    ASSUME BInv, made'.out = made.out, made'.first = made.first, made'.missed = made.missed,
           beam'.tail = beam.tail, pass'.samples = pass.samples,
           pass'.pc = "idle" <=> pass.pc = "idle", turns'.taken = turns.taken
    PROVE  Tiling'
<1>1. UpTo(beam.tail, BeforeBlock) => UpTo(beam'.tail, BeforeBlock')
  BY DEF UpTo, BeforeBlock
<1> QED  BY <1>1 DEF BInv, Tiling, UpTo

LEMMA UniformKept ==
    ASSUME BInv, boss' = boss, \A k \in DOMAIN Fresh : beam'[k] = beam[k]
    PROVE  Uniformly'
BY DEF BInv, Uniformly, Same, Others, Done

LEMMA NewInit == BeamInit => BInv
<1> SUFFICES ASSUME BeamInit
             PROVE  BInv
  OBVIOUS
<1>1. PICK mode \in Modes :
        /\ beam = NewBeam(mode, LargestOf(Counts))
        /\ boss = [cfg |-> [Fresh EXCEPT !.mode = mode, !.on = TRUE], master |-> TRUE,
                   others |-> <<>>, pc |-> "idle", key |-> "on", todo |-> {},
                   adding |-> "no", new |-> Fresh]
  BY DEF BeamInit
<1> DEFINE n == LargestOf(Counts)  l == LargestOf(Snaps)
<1>2. /\ n \in Counts /\ l \in Snaps /\ l \in Nat /\ l > 0
      /\ LargestOf(Radii) \in Radii /\ LargestOf(Tuned) \in Tuned
  <2>1. \A S \in {Radii, Tuned, Counts, Snaps} : LargestOf(S) \in S
    BY Chosen
  <2>2. n \in Counts /\ l \in Snaps /\ LargestOf(Radii) \in Radii /\ LargestOf(Tuned) \in Tuned
    BY <2>1
  <2> HIDE DEF n, l
  <2> QED  BY <2>2, Given
<1> HIDE DEF n, l
<1> DEFINE aim == [angle |-> 0, topo |-> "UCA", radius |-> NoBeam, freq |-> NoBeam, n |-> n]
<1>3. 0 \in Angles
  BY BeamAssumption
<1>4. aim \in AimType
  BY <1>2, <1>3 DEF AimType, Topologies
<1>5. beam = [angle |-> 0, topo |-> "UCA", radius |-> NoBeam, freq |-> NoBeam, n |-> n,
              on |-> TRUE, mode |-> mode, snap |-> l, valid |-> FALSE,
              steer |-> aim, wvalid |-> FALSE, weights |-> aim, cov |-> n, sum |-> NoSum,
              phases |-> aim, last |-> [angle |-> NoBeam, freq |-> 0], tail |-> <<>>,
              selected |-> 0]
  BY <1>1 DEF NewBeam, n, l
<1> HIDE DEF aim
<1>6. NoSum \in [count : Nat, ns : SUBSET Counts] /\ NoSum.ns = {} /\ NoSum.count = 0
  BY DEF NoSum
<1>7. /\ beam \in Beams /\ beam.n = n /\ ~beam.valid /\ ~beam.wvalid /\ beam.cov = n
      /\ beam.sum = NoSum /\ beam.last.angle = NoBeam /\ beam.tail = <<>> /\ beam.snap = l
      /\ beam.mode = mode /\ beam.on = TRUE
  BY <1>2, <1>3, <1>4, <1>5, <1>6 DEF Beams, Topologies
<1>8. Len(<<>>) < FftSize
  BY BeamAssumption
<1>9. Whole(beam)
  BY <1>2, <1>6, <1>7, <1>8 DEF Whole, Steady, Weights, Phases, Covariance
<1>10. made = [out |-> Nothing, renewed |-> FALSE, first |-> NoBeam, missed |-> FALSE]
  BY DEF BeamInit
<1>11. /\ asked = [angle |-> NoBeam, manual |-> NoBeam, topo |-> "UCA", radius |-> LargestOf(Radii),
                   freq |-> LargestOf(Tuned), count |-> n]
       /\ pass = [pc |-> "idle", channels |-> 0, samples |-> <<>>]
       /\ turns = [blocks |-> MaxPasses, events |-> MaxTurns, taken |-> 0]
  BY DEF BeamInit, n, NoBlock
<1>12. Fresh \in Shared /\ [Fresh EXCEPT !.mode = mode, !.on = TRUE] \in Shared
  BY <1>2 DEF Fresh, Shared, Modes, l
<1>13. <<>> \in [{} -> Shared]
  OBVIOUS
<1>14. boss \in [cfg : Shared, master : BOOLEAN, others : [{} -> Shared] \cup [{1} -> Shared],
                 pc : {"idle", "list", "apply"}, key : {"mode", "on", "snap"},
                 todo : SUBSET {0, 1}, adding : {"no", "copied"}, new : Shared]
  <2> DEFINE o == <<>>
  <2>1. o \in [{} -> Shared] \cup [{1} -> Shared]
    BY <1>13
  <2>2. boss = [cfg |-> [Fresh EXCEPT !.mode = mode, !.on = TRUE], master |-> TRUE,
                others |-> o, pc |-> "idle", key |-> "on", todo |-> {},
                adding |-> "no", new |-> Fresh]
    BY <1>1
  <2> HIDE DEF o
  <2> QED  BY <1>12, <2>1, <2>2
<1>15. BeamVarsOK
  BY <1>2, <1>7, <1>10, <1>11, <1>14, NothingSound, BeamAssumption DEF BeamVarsOK, Topologies
<1>16. BeamPointsWhereAsked /\ WeightsFollow /\ SelectedInRange
  BY <1>10, OutsAre, NothingSound
<1>17. Tiling
  BY <1>7, <1>10, <1>11, NothingSound DEF Tiling, UpTo
<1>18. Uniformly
  <2>1. boss.pc = "idle" /\ boss.others = <<>> /\ boss.adding = "no" /\ boss.todo = {}
        /\ boss.cfg = [Fresh EXCEPT !.mode = mode, !.on = TRUE]
    BY <1>1
  <2>2. DOMAIN boss.others = {}
    BY <2>1
  <2>3. Same(beam, DOMAIN Fresh)
    BY <1>7, <2>1 DEF Same, Fresh, l
  <2> QED  BY <2>1, <2>2, <2>3 DEF Uniformly, Same, Others
<1> QED  BY <1>9, <1>10, <1>15, <1>16, <1>17, <1>18 DEF BInv

-----------------------------------------------------------------------------
(* The pass of the data thread up to the block. *)

LEMMA BeginKeeps == BInv /\ PassBegin => BInv'
<1> SUFFICES ASSUME BInv, PassBegin
             PROVE  BInv'
  OBVIOUS
<1>1. PICK n \in BeamBlocks, c \in Counts :
        LET new == [i \in 1 .. n |-> turns.taken + i] IN
        /\ turns' = [turns EXCEPT !.blocks = @ - 1, !.taken = @ + n]
        /\ IF boss.master /\ c >= asked.count
           THEN /\ pass' = [pc |-> "angle", channels |-> SmallerOf(c, asked.count), samples |-> new]
                /\ made' = made
           ELSE /\ pass' = pass
                /\ made' = [made EXCEPT !.missed = Passed(beam)]
  BY DEF PassBegin
<1> DEFINE t == turns.taken  new == [i \in 1 .. n |-> t + i]
<1>2. /\ BeamVarsOK /\ pass.pc = "idle" /\ asked' = asked /\ beam' = beam /\ boss' = boss
      /\ turns.blocks > 0 /\ turns \in [blocks : Nat, events : Nat, taken : Nat]
  BY DEF BInv, BeamVarsOK, PassBegin
<1>3. n \in Nat /\ n > 0 /\ c \in Nat /\ asked.count \in Nat /\ t \in Nat
  <2>1. asked.count \in Counts
    BY <1>2 DEF BeamVarsOK
  <2>2. n \in Nat /\ n > 0
    BY Given
  <2>3. c \in Nat
    BY Given
  <2>4. asked.count \in Nat
    BY <2>1, Given
  <2>5. t \in Nat
    BY <1>2
  <2> QED  BY <2>2, <2>3, <2>4, <2>5
<1>4. turns' \in [blocks : Nat, events : Nat, taken : Nat] /\ turns'.taken = t + n
  <2> DEFINE blocks == turns.blocks - 1  taken == t + n
  <2>1. blocks \in Nat /\ taken \in Nat
    BY <1>2, <1>3
  <2>2. turns' = [turns EXCEPT !.blocks = blocks, !.taken = taken]
    BY <1>1
  <2> HIDE DEF blocks, taken
  <2>3. turns' \in [blocks : Nat, events : Nat, taken : Nat] /\ turns'.taken = taken
    BY <1>2, <2>1, <2>2
  <2> QED  BY <2>3 DEF taken
<1>5. Uniformly' /\ Whole(beam') /\ (Exact(beam) => Exact(beam'))
  BY <1>2, UniformKept DEF BInv
<1>6. CASE boss.master /\ c >= asked.count
  <2>1. made' = made /\ pass' = [pc |-> "angle", channels |-> SmallerOf(c, asked.count), samples |-> new]
    BY <1>1, <1>6
  <2>2. new \in Seq(Nat) /\ Len(new) = n /\ DOMAIN new = 1 .. n
    <3>1. new \in [1 .. n -> Nat]
      BY <1>3
    <3> QED  BY <1>3, <3>1, SeqDef, LenProperties
  <2>3. UpTo(new, t + n)
    <3>1. \A i \in 1 .. n : new[i] = t + i
      OBVIOUS
    <3> HIDE DEF new, t
    <3>2. \A i \in 1 .. n : t + i = (t + n) - n + i
      BY <1>3
    <3>3. \A i \in DOMAIN new : new[i] = (t + n) - Len(new) + i
      BY <2>2, <3>1, <3>2
    <3> QED  BY <3>3 DEF UpTo
  <2> HIDE DEF new, t
  <2>4. SmallerOf(c, asked.count) \in Nat
    BY <1>3 DEF SmallerOf
  <2>5. pass'.pc = "angle" /\ pass'.samples = new
    BY <2>1
  <2>6. BeamVarsOK'
    BY <1>2, <1>3, <1>4, <2>1, <2>2, <2>4 DEF BeamVarsOK
  <2>7. BeforeBlock' = BeforeBlock
    <3>1. BeforeBlock = t
      BY <1>2, <1>3 DEF BeforeBlock, t
    <3>2. BeforeBlock' = turns'.taken - Len(pass'.samples)
      BY <2>5 DEF BeforeBlock
    <3>3. turns'.taken = t + n /\ Len(pass'.samples) = n
      BY <1>4, <2>2, <2>5 DEF t
    <3> QED  BY <1>3, <3>1, <3>2, <3>3
  <2>8. Tiling'
    BY <1>2, <1>4, <2>1, <2>3, <2>5, <2>7 DEF BInv, Tiling
  <2>9. BeamPointsWhereAsked' /\ WeightsFollow' /\ SelectedInRange'
    BY <2>1, OutKept
  <2> QED  BY <1>5, <2>1, <2>6, <2>8, <2>9 DEF BInv
<1>7. CASE ~(boss.master /\ c >= asked.count)
  <2>1. pass' = pass /\ made' = [made EXCEPT !.missed = Passed(beam)]
    BY <1>1, <1>7
  <2>2. made \in [out : Outs, renewed : BOOLEAN, first : Nat \cup {NoBeam}, missed : BOOLEAN]
    BY <1>2 DEF BeamVarsOK
  <2>3. Passed(beam) \in BOOLEAN
    BY <2>2 DEF Passed
  <2>4. /\ made'.out = made.out /\ made'.renewed = made.renewed /\ made'.first = made.first
        /\ made'.missed = Passed(beam)
        /\ made' \in [out : Outs, renewed : BOOLEAN, first : Nat \cup {NoBeam}, missed : BOOLEAN]
    BY <2>1, <2>2, <2>3
  <2>5. BeamVarsOK'
    BY <1>2, <1>4, <2>1, <2>4 DEF BeamVarsOK
  <2>6. Tiling'
    BY <1>2, <2>1, <2>4 DEF BInv, Tiling, Passed, UpTo
  <2>7. BeamPointsWhereAsked' /\ WeightsFollow' /\ SelectedInRange'
    BY <2>4, OutKept
  <2> QED  BY <1>5, <2>4, <2>5, <2>6, <2>7 DEF BInv
<1> QED  BY <1>6, <1>7

\* The place in the pass moves on, the block stays.
LEMMA PlaceMoves ==
    ASSUME BeamVarsOK, pass.pc # "idle", NEW pc \in {"topo", "radius", "freq", "process"},
           pass' = At(pc)
    PROVE  /\ pass' \in [pc : {"idle", "angle", "topo", "radius", "freq", "process"},
                         channels : Nat, samples : Seq(Nat)]
           /\ pass'.pc = pc /\ pass'.samples = pass.samples
           /\ Len(pass'.samples) > 0
<1>1. pass \in [pc : {"idle", "angle", "topo", "radius", "freq", "process"},
                channels : Nat, samples : Seq(Nat)] /\ Len(pass.samples) > 0
  BY DEF BeamVarsOK
<1>2. pass' = [pass EXCEPT !.pc = pc]
  BY DEF At
<1>3. /\ pass' \in [pc : {"idle", "angle", "topo", "radius", "freq", "process"},
                    channels : Nat, samples : Seq(Nat)]
      /\ pass'.pc = pc /\ pass'.samples = pass.samples
  BY <1>1, <1>2
<1> QED  BY <1>1, <1>3

LEMMA PassAngleKeeps == BInv /\ PassAngle => BInv'
<1> SUFFICES ASSUME BInv, PassAngle
             PROVE  BInv'
  OBVIOUS
<1>1. /\ BeamVarsOK /\ Whole(beam) /\ pass.pc = "angle" /\ beam' = WithAngle(beam, Pointed)
      /\ pass' = At("topo") /\ asked' = asked /\ boss' = boss /\ made' = made /\ turns' = turns
  BY DEF BInv, PassAngle
<1>2. Pointed \in Angles
  BY <1>1 DEF BeamVarsOK, Beams, Pointed
<1>3. /\ Whole(beam') /\ (Exact(beam) => Exact(beam')) /\ beam'.tail = beam.tail
      /\ \A k \in DOMAIN Fresh : beam'[k] = beam[k]
  BY <1>1, <1>2, AngleKeeps
<1>4. /\ pass' \in [pc : {"idle", "angle", "topo", "radius", "freq", "process"},
                    channels : Nat, samples : Seq(Nat)]
      /\ pass'.pc = "topo" /\ pass'.samples = pass.samples /\ Len(pass'.samples) > 0
  BY <1>1, PlaceMoves
<1>5. BeamVarsOK'
  BY <1>1, <1>3, <1>4 DEF BeamVarsOK, Whole
<1>6. Tiling'
  BY <1>1, <1>3, <1>4, TilingKept
<1>7. Uniformly' /\ BeamPointsWhereAsked' /\ WeightsFollow' /\ SelectedInRange'
  BY <1>1, <1>3, UniformKept, OutKept
<1> QED  BY <1>1, <1>3, <1>5, <1>6, <1>7 DEF BInv

LEMMA PassGeometryKeeps ==
    ASSUME BInv, NEW pc \in {"topo", "radius", "freq"}, NEW next \in {"radius", "freq", "process"},
           NEW b \in {WithTopo(beam, asked.topo), WithSize(beam, asked.radius),
                      WithTuned(beam, asked.freq)},
           PassGeometry(pc, b, next)
    PROVE  BInv'
<1>1. /\ BeamVarsOK /\ Whole(beam) /\ pass.pc = pc /\ beam' = b
      /\ pass' = At(next) /\ asked' = asked /\ boss' = boss /\ turns' = turns
      /\ made' = IF b = beam THEN made ELSE [made EXCEPT !.renewed = FALSE]
  BY DEF BInv, PassGeometry
<1>2. asked.topo \in Topologies /\ asked.radius \in Radii /\ asked.freq \in Tuned
  BY <1>1 DEF BeamVarsOK
<1>3. Whole(beam') /\ beam'.tail = beam.tail /\ \A k \in DOMAIN Fresh : beam'[k] = beam[k]
  BY <1>1, <1>2, GeometryKeeps
<1>4. /\ pass' \in [pc : {"idle", "angle", "topo", "radius", "freq", "process"},
                    channels : Nat, samples : Seq(Nat)]
      /\ pass'.pc = next /\ pass'.samples = pass.samples /\ Len(pass'.samples) > 0
  BY <1>1, PlaceMoves
<1>5. made \in [out : Outs, renewed : BOOLEAN, first : Nat \cup {NoBeam}, missed : BOOLEAN]
  BY <1>1 DEF BeamVarsOK
<1>6. /\ made' \in [out : Outs, renewed : BOOLEAN, first : Nat \cup {NoBeam}, missed : BOOLEAN]
      /\ made'.out = made.out /\ made'.first = made.first /\ made'.missed = made.missed
      /\ made'.renewed => made.renewed /\ beam' = beam
  BY <1>1, <1>5
<1>7. BeamVarsOK'
  BY <1>1, <1>3, <1>4, <1>6 DEF BeamVarsOK, Whole
<1>8. Tiling'
  BY <1>1, <1>3, <1>4, <1>6, TilingKept
<1>9. Uniformly' /\ BeamPointsWhereAsked' /\ WeightsFollow' /\ SelectedInRange'
  BY <1>1, <1>3, <1>6, UniformKept, OutKept
<1>10. made'.renewed => Exact(beam')
  BY <1>6 DEF BInv
<1> QED  BY <1>3, <1>7, <1>8, <1>9, <1>10 DEF BInv

-----------------------------------------------------------------------------
(* The block itself. *)

\* After a block of the frequency domain beam the frames go on half a frame
\* after the last one, and what is left ends with the block.
LEMMA FramesGoOn ==
    ASSUME NEW b, Whole(b), NEW block, block.samples \in Seq(Nat), NEW e \in Int,
           UpTo(b.tail, e - Len(block.samples)), UpTo(block.samples, e),
           NEW first \in Nat \cup {NoBeam},
           first # NoBeam => b.tail # <<>> /\ Head(b.tail) = first + Hop,
           NEW f, FrameSound(b, block, f), f.out.mode = "freq",
           NEW first2,
           first2 = IF f.out.frames = <<>> THEN first ELSE Head(Last(f.out.frames))
    PROVE  /\ UpTo(f.beam.tail, e) /\ first2 \in Nat \cup {NoBeam}
           /\ \A k \in DOMAIN f.out.frames : ContinuousFrom(f.out.frames[k])
           /\ first2 # NoBeam => f.beam.tail # <<>> /\ Head(f.beam.tail) = first2 + Hop
<1> DEFINE all == All(b, block)  m == FramesIn(Len(all))  fr == f.out.frames  t == f.beam.tail
<1>1. b.tail \in Seq(Nat)
  BY DEF Whole, Beams
<1>2. all \in Seq(Nat) /\ Len(all) = Len(b.tail) + Len(block.samples) /\ UpTo(all, e)
  BY <1>1, UpToConcat DEF All
<1>3. /\ t = TailOf(all) /\ fr \in Seq(Seq(Nat)) /\ Len(fr) = m
      /\ \A k \in 1 .. m : fr[k] = FrameOf(all, k)
  BY DEF FrameSound
<1>4. Len(all) \in Nat /\ DOMAIN all = 1 .. Len(all)
  BY <1>2, LenProperties
<1>5. /\ m \in Nat /\ m * Hop \in Nat
      /\ m > 0 => m * Hop + Hop <= Len(all)
  BY <1>4, FramesCounted
<1>6. /\ UpTo(t, e) /\ (m = 0 => t = all)
      /\ m > 0 => t # <<>> /\ Head(t) = all[(m * Hop) + 1]
  BY <1>2, <1>3, TailKept
<1>7. \A k \in 1 .. m : Head(fr[k]) = all[((k - 1) * Hop) + 1] /\ ContinuousFrom(fr[k])
  BY <1>2, <1>3, FrameWhole
<1>8. DOMAIN fr = 1 .. m
  BY <1>3, LenProperties
<1> HIDE DEF m, fr, t
<1>9. CASE m = 0
  <2>1. fr = <<>>
    BY <1>3, <1>9
  <2>2. first2 = first /\ t = all
    BY <1>6, <1>9, <2>1 DEF fr
  <2>3. b.tail # <<>> => all # <<>> /\ Head(all) = Head(b.tail)
    <3> SUFFICES ASSUME b.tail # <<>>
                 PROVE  all # <<>> /\ Head(all) = Head(b.tail)
      OBVIOUS
    <3>1. Len(b.tail) \in Nat /\ Len(b.tail) > 0 /\ Len(block.samples) \in Nat
      BY <1>1, EmptySeq, LenProperties
    <3>2. \A i \in 1 .. Len(b.tail) + Len(block.samples) :
             all[i] = IF i <= Len(b.tail) THEN b.tail[i] ELSE block.samples[i - Len(b.tail)]
      BY <1>1, ConcatProperties DEF All
    <3> HIDE DEF all
    <3> DEFINE x == Len(b.tail)  y == Len(block.samples)
    <3>5. x \in Nat /\ x > 0 /\ y \in Nat /\ Len(all) = x + y
      BY <1>2, <3>1
    <3> HIDE DEF x, y
    <3>7. 1 \in 1 .. x + y /\ 1 <= x /\ Len(all) > 0
      BY <3>5
    <3>3. 1 \in 1 .. Len(b.tail) + Len(block.samples) /\ 1 <= Len(b.tail)
      BY <3>7 DEF x, y
    <3>4. all[1] = b.tail[1]
      BY <3>2, <3>3
    <3>6. all # <<>>
      BY <3>7
    <3> QED  BY <3>4, <3>6
  <2> QED  BY <1>6, <1>7, <1>8, <2>2, <2>3 DEF t, fr
<1>10. CASE m > 0
  <2>1. fr # <<>> /\ Last(fr) = fr[m] /\ m \in 1 .. m
    BY <1>3, <1>5, <1>10, EmptySeq DEF Last
  <2>2. first2 = all[((m - 1) * Hop) + 1]
    BY <1>7, <2>1 DEF fr
  <2> DEFINE p == (m - 1) * Hop  q == m * Hop
  <2>3. Hop \in Nat /\ Hop > 0
    BY HalfFrame
  <2>4. p \in Nat /\ q = p + Hop
    BY <1>5, <1>10, <2>3
  <2>5. q + Hop <= Len(all)
    BY <1>5, <1>10
  <2>6. first2 = all[p + 1] /\ Head(t) = all[q + 1] /\ t # <<>>
    BY <1>6, <1>10, <2>2
  <2> HIDE DEF p, q, all
  <2>7. p + 1 \in 1 .. Len(all) /\ q + 1 \in 1 .. Len(all)
    BY <1>4, <2>3, <2>4, <2>5
  <2>8. /\ all[p + 1] = e - Len(all) + (p + 1) /\ all[q + 1] = e - Len(all) + (q + 1)
        /\ all[p + 1] \in Nat
    BY <1>2, <1>4, <2>7, ElementOfSeq DEF UpTo
  <2>9. all[q + 1] = all[p + 1] + Hop
    BY <1>4, <2>3, <2>4, <2>8
  <2> QED  BY <1>6, <1>7, <1>8, <2>6, <2>8, <2>9 DEF t, fr
<1> QED  BY <1>5, <1>9, <1>10

LEMMA ProcessKeeps == BInv /\ PassProcess => BInv'
<1> SUFFICES ASSUME BInv, PassProcess
             PROVE  BInv'
  OBVIOUS
<1>1. /\ BeamVarsOK /\ Whole(beam) /\ pass.pc = "process" /\ pass' = NoBlock
      /\ asked' = asked /\ boss' = boss /\ turns' = turns
  BY DEF BInv, PassProcess
<1> DEFINE MadeType == [out : Outs, renewed : BOOLEAN, first : Nat \cup {NoBeam}, missed : BOOLEAN]
           PassType == [pc : {"idle", "angle", "topo", "radius", "freq", "process"},
                        channels : Nat, samples : Seq(Nat)]
<1>2. made \in MadeType /\ pass \in PassType /\ Len(pass.samples) > 0 /\ turns.taken \in Nat
  BY <1>1 DEF BeamVarsOK
<1>3. pass'.pc = "idle" /\ pass' \in PassType
  <2>1. <<>> \in Seq(Nat)
    OBVIOUS
  <2> QED  BY <1>1, <2>1 DEF NoBlock
<1>4. BeforeBlock' = turns.taken /\ BeforeBlock = turns.taken - Len(pass.samples)
  <2>1. turns'.taken - 0 = turns.taken
    BY <1>1, <1>2
  <2> QED  BY <1>1, <1>3, <2>1 DEF BeforeBlock
<1>5. Passed(beam) \in BOOLEAN
  BY <1>2 DEF Passed
<1>6. CASE ~beam.on
  <2>1. beam' = beam /\ made' = [made EXCEPT !.out = Nothing, !.missed = Passed(beam)]
    BY <1>6 DEF PassProcess
  <2>2. /\ made' \in MadeType /\ made'.out = Nothing /\ made'.missed = Passed(beam)
        /\ made'.first = made.first /\ made'.renewed = made.renewed
    BY <1>2, <1>5, <2>1, NothingSound
  <2>3. BeamVarsOK'
    BY <1>1, <1>3, <2>1, <2>2 DEF BeamVarsOK
  <2>4. Tiling'
    <3>1. Nothing.frames = <<>>
      BY NothingSound
    <3>2. ~Passed(beam) => beam.tail = <<>> /\ made.first = NoBeam
      BY DEF Passed
    <3>3. \A e : UpTo(<<>>, e)
      BY DEF UpTo
    <3>4. DOMAIN <<>> = {}
      OBVIOUS
    <3> QED  BY <1>3, <2>1, <2>2, <3>1, <3>2, <3>3, <3>4 DEF Tiling
  <2>5. Uniformly'
    BY <1>1, <2>1, UniformKept
  <2>6. BeamPointsWhereAsked' /\ WeightsFollow' /\ SelectedInRange'
    <3>1. PointsOf(made'.out) /\ FollowsOf(made'.out, made'.renewed) /\ PickOf(made'.out)
      BY <2>2, NothingSound
    <3> QED  BY <3>1 DEF BeamPointsWhereAsked, WeightsFollow, SelectedInRange,
                         PointsOf, FollowsOf, PickOf
  <2> QED  BY <1>1, <2>1, <2>2, <2>3, <2>4, <2>5, <2>6 DEF BInv
<1>7. CASE beam.on
  <2>1. PICK best \in 0 .. asked.count - 1, clearly \in BOOLEAN :
          LET b == BeamSynced(beam, asked.count)
              f == Formed(b, pass, asked.manual = 0, best, clearly)
              fed == b.mode = "freq" /\ f.out.mode = "freq"
              first == IF b.n = beam.n THEN made.first ELSE NoBeam
          IN  /\ beam' = f.beam
              /\ made' = [out |-> f.out,
                          renewed |-> \/ made.renewed
                                      \/ b.mode = "mvdr" /\ f.beam.sum = NoSum
                                         /\ pass.channels >= b.n,
                          first |-> IF f.out.frames = <<>> THEN first
                                    ELSE Head(Last(f.out.frames)),
                          missed |-> /\ b.n = beam.n
                                     /\ IF fed THEN made.missed ELSE Passed(b)]
    BY <1>7 DEF PassProcess
  <2> DEFINE b == BeamSynced(beam, asked.count)
             f == Formed(b, pass, asked.manual = 0, best, clearly)
             fed == b.mode = "freq" /\ f.out.mode = "freq"
             first == IF b.n = beam.n THEN made.first ELSE NoBeam
             renewed == \/ made.renewed
                        \/ b.mode = "mvdr" /\ f.beam.sum = NoSum /\ pass.channels >= b.n
             first2 == IF f.out.frames = <<>> THEN first ELSE Head(Last(f.out.frames))
             missed == b.n = beam.n /\ IF fed THEN made.missed ELSE Passed(b)
  <2>2. beam' = f.beam /\ made' = [out |-> f.out, renewed |-> renewed, first |-> first2, missed |-> missed]
    BY <2>1
  <2>3. asked.count \in Counts
    BY <1>1 DEF BeamVarsOK
  <2>4. /\ Whole(b) /\ b.n = asked.count /\ (Exact(beam) => Exact(b))
        /\ beam.n = asked.count => b = beam
        /\ beam.n # asked.count => b.tail = <<>>
        /\ \A k \in DOMAIN Fresh : b[k] = beam[k]
    BY <1>1, <2>3, SyncedKeeps
  <2> HIDE DEF b
  <2>5. /\ BlockSound(b, pass, f) /\ FrameSound(b, pass, f)
        /\ f.out.mode \in {b.mode, "none"}
    BY <1>2, <2>4, FormedSound
  <2> HIDE DEF f
  <2>6. /\ Whole(f.beam) /\ SameBut(b, f.beam) /\ f.out \in Outs
        /\ PointsOf(f.out) /\ PickOf(f.out) /\ FollowsOf(f.out, Exact(f.beam))
    BY <2>5 DEF BlockSound
  <2>7. fed <=> f.out.mode = "freq"
    BY <2>5
  <2>8. ~fed => f.out.frames = <<>> /\ f.beam.tail = b.tail
    BY <2>5, <2>7 DEF BlockSound
  <2> HIDE DEF fed
  <2>9. renewed => Exact(f.beam)
    BY <2>4, <2>5 DEF BInv, BlockSound
  <2>10. renewed \in BOOLEAN /\ missed \in BOOLEAN
    BY <1>2 DEF Passed
  <2>11. first \in Nat \cup {NoBeam}
    BY <1>2
  <2>12. first2 \in Nat \cup {NoBeam}
    <3>1. CASE f.out.frames = <<>>
      BY <2>11, <3>1
    <3>2. CASE f.out.frames # <<>>
      <4> DEFINE all == All(b, pass)  m == FramesIn(Len(all))
      <4>1. f.out.mode = "freq"
        BY <2>7, <2>8, <3>2
      <4>2. /\ f.out.frames \in Seq(Seq(Nat)) /\ Len(f.out.frames) = m
            /\ \A k \in 1 .. m : f.out.frames[k] = FrameOf(all, k)
        BY <2>5, <4>1 DEF FrameSound
      <4>3. m \in Nat \ {0}
        BY <3>2, <4>2, EmptySeq
      <4>4. all \in Seq(Nat)
        BY <1>2, <2>4, ConcatProperties DEF Whole, Beams, All
      <4>5. Len(all) \in Nat /\ Hop \in Nat /\ Hop > 0
        BY <4>4, LenProperties, HalfFrame
      <4>6. m * Hop + Hop <= Len(all) /\ m * Hop \in Nat
        BY <4>3, <4>5, FramesCounted
      <4> HIDE DEF m, all
      <4>7. m \in 1 .. m /\ Last(f.out.frames) = FrameOf(all, m)
        BY <4>2, <4>3 DEF Last
      <4>8. Head(FrameOf(all, m)) = all[((m - 1) * Hop) + 1]
        BY <4>4, <4>7, FrameWhole DEF m
      <4> DEFINE p == (m - 1) * Hop  q == m * Hop
      <4>9. p \in Nat /\ q = p + Hop /\ q + Hop <= Len(all)
        BY <4>3, <4>5, <4>6
      <4> HIDE DEF p, q
      <4>10. p + 1 \in 1 .. Len(all)
        BY <4>5, <4>9
      <4>11. all[p + 1] \in Nat
        BY <4>4, <4>10, ElementOfSeq
      <4> QED  BY <3>2, <4>7, <4>8, <4>11 DEF p
    <3> QED  BY <3>1, <3>2
  <2>13. Tiling'
    <3>1. pass'.pc = "idle" /\ made'.missed = missed /\ made'.first = first2
          /\ made'.out = f.out /\ beam' = f.beam /\ BeforeBlock' = turns.taken
      BY <1>3, <1>4, <2>2
    <3> SUFFICES ASSUME ~missed
                 PROVE  /\ UpTo(f.beam.tail, turns.taken)
                        /\ \A k \in DOMAIN f.out.frames : ContinuousFrom(f.out.frames[k])
                        /\ first2 # NoBeam =>
                              f.beam.tail # <<>> /\ Head(f.beam.tail) = first2 + Hop
      <4> HIDE DEF missed, first2
      <4> QED  BY <3>1 DEF Tiling
    <3>2. \A e : UpTo(<<>>, e)
      BY DEF UpTo
    <3>3. CASE ~fed
      <4>1. b.tail = <<>> /\ first = NoBeam
        <5>1. CASE b.n = beam.n
          BY <2>4, <3>3, <5>1 DEF Passed
        <5>2. CASE b.n # beam.n
          BY <2>4, <5>2
        <5> QED  BY <5>1, <5>2
      <4>2. f.out.frames = <<>> /\ f.beam.tail = <<>>
        BY <2>8, <3>3, <4>1
      <4>3. first2 = NoBeam /\ DOMAIN f.out.frames = {}
        BY <4>1, <4>2
      <4> QED  BY <3>2, <4>2, <4>3
    <3>4. CASE fed
      <4>1. UpTo(pass.samples, turns.taken)
        BY <1>1 DEF BInv, Tiling
      <4>2. UpTo(b.tail, turns.taken - Len(pass.samples))
        <5>1. CASE b.n = beam.n
          BY <1>4, <2>4, <3>4, <5>1 DEF BInv, Tiling
        <5>2. CASE b.n # beam.n
          BY <2>4, <3>2, <5>2
        <5> QED  BY <5>1, <5>2
      <4>3. first # NoBeam => b.tail # <<>> /\ Head(b.tail) = first + Hop
        BY <2>4, <3>4 DEF BInv, Tiling
      <4>4. f.out.mode = "freq" /\ turns.taken \in Int /\ pass.samples \in Seq(Nat)
        BY <1>2, <2>7, <3>4
      <4>5. first2 = IF f.out.frames = <<>> THEN first ELSE Head(Last(f.out.frames))
        OBVIOUS
      <4> HIDE DEF first, first2, missed
      <4>6. /\ UpTo(f.beam.tail, turns.taken)
            /\ \A k \in DOMAIN f.out.frames : ContinuousFrom(f.out.frames[k])
            /\ first2 # NoBeam => f.beam.tail # <<>> /\ Head(f.beam.tail) = first2 + Hop
        BY <2>4, <2>5, <2>11, <4>1, <4>2, <4>3, <4>4, <4>5, FramesGoOn, SMTT(30)
      <4> QED  BY <4>6
    <3> QED  BY <3>3, <3>4
  <2> HIDE DEF renewed, missed, first2
  <2>14. /\ made' \in MadeType /\ made'.out = f.out /\ made'.renewed = renewed
    BY <2>2, <2>6, <2>10, <2>12
  <2>15. BeamVarsOK'
    BY <1>1, <1>3, <2>2, <2>6, <2>14 DEF BeamVarsOK, Whole
  <2>16. \A k \in DOMAIN Fresh : beam'[k] = beam[k]
    BY <2>2, <2>4, <2>6 DEF SameBut
  <2>17. Uniformly'
    BY <1>1, <2>16, UniformKept
  <2>18. BeamPointsWhereAsked' /\ WeightsFollow' /\ SelectedInRange'
    <3>1. PointsOf(made'.out) /\ PickOf(made'.out)
      BY <2>6, <2>14
    <3>2. FollowsOf(made'.out, made'.renewed)
      BY <2>6, <2>9, <2>14 DEF FollowsOf
    <3> QED  BY <3>1, <3>2 DEF BeamPointsWhereAsked, WeightsFollow, SelectedInRange,
                               PointsOf, FollowsOf, PickOf
  <2> QED  BY <2>2, <2>6, <2>9, <2>13, <2>14, <2>15, <2>17, <2>18 DEF BInv
<1> QED  BY <1>6, <1>7

-----------------------------------------------------------------------------
(* Commands, and what MUSIC and the packet header say. *)

\* A step that moves nothing but the commands' threads.
LEMMA BossMoves ==
    ASSUME BInv, asked' = asked, beam' = beam, pass' = pass, made' = made,
           turns' \in [blocks : Nat, events : Nat, taken : Nat], turns'.taken = turns.taken,
           boss' \in [cfg : Shared, master : BOOLEAN, others : [{} -> Shared] \cup [{1} -> Shared],
                      pc : {"idle", "list", "apply"}, key : {"mode", "on", "snap"},
                      todo : SUBSET {0, 1}, adding : {"no", "copied"}, new : Shared],
           Uniformly'
    PROVE  BInv'
<1>1. BeamVarsOK'
  BY DEF BInv, BeamVarsOK
<1>2. Tiling'
  BY TilingKept
<1>3. BeamPointsWhereAsked' /\ WeightsFollow' /\ SelectedInRange'
  BY OutKept
<1> QED  BY <1>1, <1>2, <1>3 DEF BInv

LEMMA TurnTaken ==
    ASSUME BeamVarsOK, turns.events > 0, Turn
    PROVE  turns' \in [blocks : Nat, events : Nat, taken : Nat] /\ turns'.taken = turns.taken
<1> DEFINE e == turns.events - 1
<1>1. turns \in [blocks : Nat, events : Nat, taken : Nat] /\ turns' = [turns EXCEPT !.events = e]
  BY DEF BeamVarsOK, Turn
<1>2. e \in Nat
  BY <1>1
<1> HIDE DEF e
<1> QED  BY <1>1, <1>2

BossType == [cfg : Shared, master : BOOLEAN, others : [{} -> Shared] \cup [{1} -> Shared],
             pc : {"idle", "list", "apply"}, key : {"mode", "on", "snap"},
             todo : SUBSET {0, 1}, adding : {"no", "copied"}, new : Shared]

LEMMA KeyNames == DOMAIN Fresh = {"mode", "on", "snap"}
BY DEF Fresh

LEMMA CommandStoreKeeps == BInv /\ CommandStore => BInv'
<1> SUFFICES ASSUME BInv, CommandStore
             PROVE  BInv'
  OBVIOUS
<1>1. PICK key \in DOMAIN Fresh :
      \E v \in CASE key = "mode" -> Modes [] key = "on" -> {~boss.master} [] key = "snap" -> Snaps :
          boss' = [boss EXCEPT !.pc = "list", !.key = key, !.cfg[key] = v,
                               !.master = IF key = "on" THEN v ELSE @]
  BY DEF CommandStore
<1>2. PICK v \in CASE key = "mode" -> Modes [] key = "on" -> {~boss.master} [] key = "snap" -> Snaps :
          boss' = [boss EXCEPT !.pc = "list", !.key = key, !.cfg[key] = v,
                               !.master = IF key = "on" THEN v ELSE @]
  BY <1>1
<1>3. /\ BeamVarsOK /\ boss \in BossType /\ boss.pc = "idle" /\ turns.events > 0 /\ Turn
      /\ asked' = asked /\ beam' = beam /\ pass' = pass /\ made' = made
  BY DEF BInv, BeamVarsOK, BossType, CommandStore
<1> DEFINE cfg == [boss.cfg EXCEPT ![key] = v]  master == IF key = "on" THEN v ELSE boss.master
<1>4. cfg \in Shared /\ master \in BOOLEAN /\ \A k \in DOMAIN Fresh \ {key} : cfg[k] = boss.cfg[k]
  <2>1. boss.cfg \in Shared /\ boss.master \in BOOLEAN /\ key \in {"mode", "on", "snap"}
    BY <1>3, KeyNames DEF BossType
  <2>2. CASE key = "mode"
    <3>1. v \in Modes
      BY <2>2
    <3> QED  BY <2>1, <2>2, <3>1, KeyNames DEF Shared
  <2>3. CASE key = "on"
    <3>1. v \in BOOLEAN
      BY <2>1, <2>3
    <3> QED  BY <2>1, <2>3, <3>1, KeyNames DEF Shared
  <2>4. CASE key = "snap"
    <3>1. v \in Snaps
      BY <2>4
    <3> QED  BY <2>1, <2>4, <3>1, KeyNames DEF Shared
  <2> QED  BY <2>1, <2>2, <2>3, <2>4
<1>5. boss' = [boss EXCEPT !.pc = "list", !.key = key, !.cfg = cfg, !.master = master]
  BY <1>2, <1>3 DEF BossType
<1> HIDE DEF cfg, master
<1>6. /\ boss' \in BossType /\ boss'.pc = "list" /\ boss'.key = key /\ boss'.cfg = cfg
      /\ boss'.others = boss.others /\ boss'.adding = boss.adding /\ boss'.new = boss.new
      /\ boss'.todo = boss.todo
  BY <1>3, <1>4, <1>5, KeyNames DEF BossType
<1>7. Uniformly'
  <2>1. /\ Same(beam, DOMAIN Fresh) /\ boss.todo = {}
        /\ \A id \in DOMAIN boss.others : Same(boss.others[id], DOMAIN Fresh)
        /\ boss.adding = "copied" => DOMAIN boss.others = {} /\ Same(boss.new, DOMAIN Fresh)
    BY <1>3 DEF BInv, Uniformly, Done
  <2>2. \A x : Same(x, DOMAIN Fresh) => \A k \in DOMAIN Fresh \ {key} : x[k] = boss'.cfg[k]
    BY <1>4, <1>6 DEF Same
  <2>3. Others' = DOMAIN Fresh \ {key}
    BY <1>6 DEF Others, Fresh
  <2>5. ~Done(0)' /\ ~Done(1)'
    BY <1>6 DEF Done
  <2> QED  BY <1>3, <1>6, <2>1, <2>2, <2>3 DEF Uniformly, Same, Done
<1>8. turns' \in [blocks : Nat, events : Nat, taken : Nat] /\ turns'.taken = turns.taken
  BY <1>3, TurnTaken
<1> QED  BY <1>3, <1>6, <1>7, <1>8, BossMoves DEF BossType

LEMMA ListKeeps == BInv /\ CommandList => BInv'
<1> SUFFICES ASSUME BInv, CommandList
             PROVE  BInv'
  OBVIOUS
<1>1. /\ BeamVarsOK /\ boss \in BossType /\ turns \in [blocks : Nat, events : Nat, taken : Nat]
      /\ boss.pc = "list" /\ boss.adding = "no"
      /\ boss' = [boss EXCEPT !.pc = "apply", !.todo = {0} \cup DOMAIN boss.others]
      /\ asked' = asked /\ beam' = beam /\ pass' = pass /\ made' = made /\ turns' = turns
  BY DEF BInv, BeamVarsOK, BossType, CommandList
<1>2. DOMAIN boss.others \subseteq {1}
  BY <1>1 DEF BossType
<1>3. /\ boss' \in BossType /\ boss'.pc = "apply" /\ boss'.key = boss.key /\ boss'.cfg = boss.cfg
      /\ boss'.others = boss.others /\ boss'.adding = "no" /\ boss'.todo = {0} \cup DOMAIN boss.others
  BY <1>1, <1>2 DEF BossType
<1>4. Uniformly'
  BY <1>1, <1>3 DEF BInv, Uniformly, Same, Others, Done
<1> QED  BY <1>1, <1>3, <1>4, BossMoves DEF BossType

LEMMA ApplyKeeps == BInv /\ CommandApply => BInv'
<1> SUFFICES ASSUME BInv, CommandApply
             PROVE  BInv'
  OBVIOUS
<1> DEFINE id == CHOOSE i \in boss.todo : \A j \in boss.todo : i <= j
           v == boss.cfg[boss.key]
           rest == boss.todo \ {id}
           pc == IF rest = {} THEN "idle" ELSE "apply"
<1>1. /\ BeamVarsOK /\ boss \in BossType /\ turns \in [blocks : Nat, events : Nat, taken : Nat]
      /\ boss.pc = "apply" /\ boss.todo # {} /\ boss.todo \subseteq {0} \cup DOMAIN boss.others
      /\ asked' = asked /\ pass' = pass /\ made' = made /\ turns' = turns
  BY DEF BInv, BeamVarsOK, BossType, CommandApply, Uniformly
<1>2. IF id = 0
      THEN /\ beam' = Configured(beam, boss.key, v)
           /\ boss' = [boss EXCEPT !.todo = rest, !.pc = pc]
      ELSE /\ boss' = [boss EXCEPT !.todo = rest, !.pc = pc, !.others[id][boss.key] = v]
           /\ beam' = beam
  BY DEF CommandApply
<1>3. id \in boss.todo /\ id \in {0, 1} /\ \A j \in boss.todo : id <= j
  <2>1. boss.todo \in {{0}, {1}, {0, 1}}
    BY <1>1 DEF BossType
  <2>2. \E i \in boss.todo : \A j \in boss.todo : i <= j
    BY <2>1
  <2> QED  BY <1>1, <2>2 DEF BossType
<1> HIDE DEF id
<1>4. /\ boss.key \in DOMAIN Fresh /\ boss.cfg \in Shared
      /\ rest \in SUBSET {0, 1} /\ pc \in {"idle", "apply"}
  BY <1>1, KeyNames DEF BossType
<1> DEFINE cfg == boss.cfg  key == boss.key
<1>5. [Fresh EXCEPT ![key] = v] \in Shared /\ \A c \in Shared : [c EXCEPT ![key] = v] \in Shared
  <2>1. Fresh \in Shared
    BY Chosen DEF Fresh, Shared, Modes
  <2>2. CASE key = "mode"
    BY <1>4, <2>1, <2>2 DEF Shared
  <2>3. CASE key = "on"
    BY <1>4, <2>1, <2>3 DEF Shared
  <2>4. CASE key = "snap"
    BY <1>4, <2>1, <2>4 DEF Shared
  <2> QED  BY <1>4, <2>2, <2>3, <2>4, KeyNames
<1> HIDE DEF rest, pc, v, cfg, key
<1>6. rest = boss.todo \ {id} /\ (pc = "idle" <=> rest = {}) /\ (pc = "apply" <=> rest # {})
  BY DEF rest, pc
<1>7. v = boss.cfg[boss.key] /\ key = boss.key
  BY DEF v, key
<1>8. CASE id = 0
  <2>1. beam' = Configured(beam, key, v) /\ boss' = [boss EXCEPT !.todo = rest, !.pc = pc]
    BY <1>2, <1>7, <1>8
  <2>2. /\ boss' \in BossType /\ boss'.pc = pc /\ boss'.key = boss.key /\ boss'.cfg = boss.cfg
        /\ boss'.others = boss.others /\ boss'.adding = boss.adding /\ boss'.new = boss.new
        /\ boss'.todo = rest
    BY <1>1, <1>4, <2>1 DEF BossType
  <2>3. /\ Whole(beam') /\ (Exact(beam) => Exact(beam')) /\ beam'.tail = beam.tail
        /\ beam'[key] = v /\ \A k \in DOMAIN Fresh \ {key} : beam'[k] = beam[k]
    <3>1. Whole(beam) /\ key \in DOMAIN Fresh /\ [Fresh EXCEPT ![key] = v] \in Shared
      BY <1>4, <1>5, <1>7 DEF BInv
    <3> QED  BY <2>1, <3>1, ConfiguredKeeps
  <2>4. Uniformly'
    <3>1. Same(beam, Others) /\ Others = DOMAIN Fresh \ {key}
      BY <1>7 DEF BInv, Uniformly, Others
    <3>2. \A k \in DOMAIN Fresh : beam'[k] = boss'.cfg[k]
      BY <1>7, <2>2, <2>3, <3>1 DEF Same
    <3>3. \A i \in DOMAIN boss.others : Done(i)' => Done(i)
      <4> SUFFICES ASSUME NEW i \in DOMAIN boss.others, Done(i)'
                   PROVE  Done(i)
        OBVIOUS
      <4>1. i # 0
        BY <1>1 DEF BossType
      <4>2. i \notin rest
        BY <1>6, <2>2 DEF Done
      <4> QED  BY <1>1, <1>6, <1>8, <4>1, <4>2 DEF Done
    <3>4. rest \subseteq {0} \cup DOMAIN boss.others
      BY <1>1, <1>6
    <3> QED  BY <1>1, <1>4, <1>6, <2>2, <3>2, <3>3, <3>4 DEF BInv, Uniformly, Same, Others, Fresh
  <2>5. BeamVarsOK'
    BY <1>1, <2>2, <2>3 DEF BeamVarsOK, Whole, BossType
  <2>6. Tiling'
    BY <1>1, <2>3, TilingKept
  <2>7. BeamPointsWhereAsked' /\ WeightsFollow' /\ SelectedInRange'
    BY <1>1, OutKept
  <2> QED  BY <1>1, <2>3, <2>4, <2>5, <2>6, <2>7 DEF BInv
<1>9. CASE id # 0
  <2>1. id = 1 /\ 1 \in DOMAIN boss.others /\ 0 \notin boss.todo
    BY <1>1, <1>3, <1>9
  <2>2. boss.others \in [{1} -> Shared]
    BY <1>1, <2>1 DEF BossType
  <2> DEFINE c == boss.others[1]  d == [c EXCEPT ![key] = v]  o == [boss.others EXCEPT ![1] = d]
  <2>3. d \in Shared /\ c \in Shared
    BY <1>5, <2>2
  <2>4. d[key] = v /\ \A k \in DOMAIN Fresh \ {key} : d[k] = c[k]
    BY <1>4, <1>7, <2>3, KeyNames DEF Shared
  <2>5. beam' = beam /\ boss' = [boss EXCEPT !.todo = rest, !.pc = pc, !.others = o]
    BY <1>1, <1>2, <1>7, <1>9, <2>1, <2>2 DEF BossType
  <2> HIDE DEF d
  <2>6. o \in [{1} -> Shared] /\ o[1] = d /\ DOMAIN o = {1}
    BY <2>2, <2>3
  <2> HIDE DEF o
  <2>7. /\ boss' \in BossType /\ boss'.pc = pc /\ boss'.key = boss.key /\ boss'.cfg = boss.cfg
        /\ boss'.others = o /\ boss'.adding = boss.adding /\ boss'.new = boss.new
        /\ boss'.todo = rest
    BY <1>1, <1>4, <2>5, <2>6 DEF BossType
  <2>8. Uniformly'
    <3>1. Same(c, Others) /\ Others = DOMAIN Fresh \ {key}
      BY <1>7, <2>1 DEF BInv, Uniformly, Others
    <3>2. \A k \in DOMAIN Fresh : d[k] = boss'.cfg[k]
      BY <1>7, <2>4, <2>7, <3>1 DEF Same
    <3>3. \A k \in DOMAIN Fresh : beam[k] = boss'.cfg[k]
      BY <1>1, <2>1, <2>7 DEF BInv, Uniformly, Done, Same
    <3>4. boss.adding = "no"
      BY <1>1, <2>1 DEF BInv, Uniformly, BossType
    <3>5. rest = {}
      BY <1>1, <1>6, <2>1 DEF BossType
    <3> QED  BY <1>6, <2>5, <2>6, <2>7, <3>2, <3>3, <3>4, <3>5 DEF Uniformly, Same, Others
  <2> QED  BY <1>1, <2>5, <2>7, <2>8, BossMoves DEF BossType
<1> QED  BY <1>8, <1>9


LEMMA AddStartKeeps == BInv /\ AddStart => BInv'
<1> SUFFICES ASSUME BInv, AddStart
             PROVE  BInv'
  OBVIOUS
<1>1. /\ BeamVarsOK /\ boss \in BossType /\ boss.adding = "no" /\ turns.events > 0 /\ Turn
      /\ Cardinality(DOMAIN boss.others) < 1
      /\ boss' = [boss EXCEPT !.adding = "copied", !.new = boss.cfg]
      /\ asked' = asked /\ beam' = beam /\ pass' = pass /\ made' = made
  BY DEF BInv, BeamVarsOK, BossType, AddStart, Inherited
<1>2. DOMAIN boss.others = {}
  <2>1. DOMAIN boss.others \in {{}, {1}}
    BY <1>1 DEF BossType
  <2>2. Cardinality({1}) = 1
    BY FS_Singleton
  <2> QED  BY <1>1, <2>1, <2>2
<1>3. /\ boss' \in BossType /\ boss'.pc = boss.pc /\ boss'.key = boss.key /\ boss'.cfg = boss.cfg
      /\ boss'.others = boss.others /\ boss'.adding = "copied" /\ boss'.new = boss.cfg
      /\ boss'.todo = boss.todo
  BY <1>1 DEF BossType
<1>4. Uniformly'
  <2>1. \A k \in DOMAIN Fresh : boss'.new[k] = boss'.cfg[k]
    BY <1>3
  <2> QED  BY <1>1, <1>2, <1>3, <2>1 DEF BInv, Uniformly, Same, Others, Done
<1>5. turns' \in [blocks : Nat, events : Nat, taken : Nat] /\ turns'.taken = turns.taken
  BY <1>1, TurnTaken
<1> QED  BY <1>1, <1>3, <1>4, <1>5, BossMoves DEF BossType

LEMMA AddPushKeeps == BInv /\ AddPush => BInv'
<1> SUFFICES ASSUME BInv, AddPush
             PROVE  BInv'
  OBVIOUS
<1> DEFINE o == [i \in {1} |-> boss.new]
<1>1. /\ BeamVarsOK /\ boss \in BossType /\ turns \in [blocks : Nat, events : Nat, taken : Nat]
      /\ boss.adding = "copied" /\ boss' = [boss EXCEPT !.adding = "no", !.others = o]
      /\ asked' = asked /\ beam' = beam /\ pass' = pass /\ made' = made /\ turns' = turns
  BY DEF BInv, BeamVarsOK, BossType, AddPush
<1>2. o \in [{1} -> Shared] /\ o[1] = boss.new /\ DOMAIN o = {1}
  BY <1>1 DEF BossType
<1> HIDE DEF o
<1>3. /\ boss' \in BossType /\ boss'.pc = boss.pc /\ boss'.key = boss.key /\ boss'.cfg = boss.cfg
      /\ boss'.others = o /\ boss'.adding = "no" /\ boss'.todo = boss.todo
  BY <1>1, <1>2 DEF BossType
<1>4. /\ Same(boss.new, Others) /\ (boss.pc # "list" => Same(boss.new, DOMAIN Fresh))
      /\ boss.todo \subseteq {0} /\ (boss.pc = "apply" <=> boss.todo # {})
      /\ Same(beam, Others) /\ (Done(0) => Same(beam, DOMAIN Fresh))
  BY <1>1 DEF BInv, Uniformly
<1>5. Uniformly'
  <2>1. \A c, keys : Same(c, keys) => \A k \in keys : c[k] = boss'.cfg[k]
    BY <1>3 DEF Same
  <2>2. (Done(0)' <=> Done(0)) /\ Others' = Others
    BY <1>3 DEF Done, Others
  <2>3. Done(1)' => boss.pc # "list"
    BY <1>3 DEF Done
  <2>4. Same(beam, Others)' /\ (Done(0)' => Same(beam, DOMAIN Fresh)')
    BY <1>1, <1>4, <2>1, <2>2 DEF Same
  <2>5. /\ \A k \in Others' : o[1][k] = boss'.cfg[k]
        /\ Done(1)' => \A k \in DOMAIN Fresh : o[1][k] = boss'.cfg[k]
    BY <1>2, <1>4, <2>1, <2>2, <2>3
  <2>6. boss'.todo \subseteq {0} \cup DOMAIN boss'.others /\ DOMAIN boss'.others = {1}
    BY <1>2, <1>3, <1>4
  <2> QED  BY <1>2, <1>3, <1>4, <2>4, <2>5, <2>6 DEF Uniformly, Same
<1> QED  BY <1>1, <1>3, <1>5, BossMoves DEF BossType

LEMMA AskKeeps == BInv /\ AskAnew => BInv'
<1> SUFFICES ASSUME BInv, AskAnew
             PROVE  BInv'
  OBVIOUS
<1> DEFINE AskedType == [angle : Angles \cup {NoBeam}, manual : Angles \cup {NoBeam},
                         topo : Topologies, radius : Radii, freq : Tuned, count : Counts]
<1>1. /\ BeamVarsOK /\ asked \in AskedType /\ turns.events > 0 /\ Turn
      /\ beam' = beam /\ pass' = pass /\ made' = made /\ boss' = boss
  BY DEF BInv, BeamVarsOK, AskAnew
<1>2. asked' \in AskedType
  BY <1>1 DEF AskAnew
<1>3. turns' \in [blocks : Nat, events : Nat, taken : Nat] /\ turns'.taken = turns.taken
  BY <1>1, TurnTaken
<1>4. BeamVarsOK'
  BY <1>1, <1>2, <1>3 DEF BeamVarsOK
<1>5. Tiling'
  BY <1>1, <1>3, TilingKept
<1>6. Uniformly' /\ BeamPointsWhereAsked' /\ WeightsFollow' /\ SelectedInRange'
  BY <1>1, UniformKept, OutKept
<1> QED  BY <1>1, <1>4, <1>5, <1>6 DEF BInv

LEMMA NothingKeeps == BInv /\ UNCHANGED beamVars => BInv'
BY DEF BInv, beamVars, BeamVarsOK, Whole, Steady, Weights, Phases, Covariance, Exact,
       BeamPointsWhereAsked, WeightsFollow, SelectedInRange, Tiling, BeforeBlock, UpTo,
       Uniformly, Same, Others, Done, Aim

-----------------------------------------------------------------------------
(* The theorems. *)

LEMMA Inductive == BInv /\ [BeamNext]_beamVars => BInv'
<1> SUFFICES ASSUME BInv, [BeamNext]_beamVars
             PROVE  BInv'
  OBVIOUS
<1>1. ASSUME PassTopo \/ PassRadius \/ PassFreq
      PROVE  BInv'
  BY <1>1, PassGeometryKeeps DEF PassTopo, PassRadius, PassFreq
<1> QED  BY <1>1, BeginKeeps, PassAngleKeeps, ProcessKeeps, CommandStoreKeeps, ListKeeps, ApplyKeeps,
            AddStartKeeps, AddPushKeeps, AskKeeps, NothingKeeps DEF BeamNext

\* What a beamformer keeps belongs to its present settings, its samples have no
\* gap, and every beamformer has the manager's configuration but for the
\* setting that is on its way.
THEOREM BeamInvariant == BeamSpec => []BInv
<1>1. BeamInit => BInv
  BY NewInit
<1>2. BInv /\ [BeamNext]_beamVars => BInv'
  BY Inductive
<1> QED  BY <1>1, <1>2, PTL DEF BeamSpec

\* No beam is formed with a steering vector, phases or weights of an angle or
\* element count of before, nor copies a channel the array does not have, and
\* when no command is under way all beamformers are configured alike
\* (beamformer.cpp, decimator_manager.cpp).
THEOREM BeamCorrect == BeamSpec => []BeamSound
<1>1. BInv => BeamSound
  <2> SUFFICES ASSUME BInv
               PROVE  BeamSound
    OBVIOUS
  <2>1. BeamVarsOK /\ Whole(beam) /\ beam \in Beams
    BY DEF BInv, Whole
  <2>2. BeamTypeOK
    <3>1. /\ beam.mode \in Modes /\ beam.snap \in Snaps /\ beam.n \in Counts
          /\ beam.sum.count \in Nat /\ {beam.on, beam.valid, beam.wvalid} \subseteq BOOLEAN
      BY <2>1 DEF Beams
    <3>2. beam.sum.count < beam.snap /\ Len(beam.tail) < FftSize
      BY <2>1 DEF Whole, Covariance
    <3>3. beam.snap \in Nat
      BY <3>1, Given
    <3>4. beam.sum.count \in 0 .. beam.snap - 1
      BY <3>1, <3>2, <3>3
    <3>5. /\ pass.pc \in {"idle", "angle", "topo", "radius", "freq", "process"}
          /\ boss.cfg \in Shared /\ boss.todo \subseteq {0, 1}
      BY <2>1 DEF BeamVarsOK
    <3> QED  BY <3>1, <3>2, <3>4, <3>5 DEF BeamTypeOK
  <2>3. CovarianceOfOneCount
    BY <2>1 DEF Whole, Covariance, CovarianceOfOneCount
  <2>4. AllSteerAlike
    <3> SUFFICES ASSUME boss.pc = "idle"
                 PROVE  /\ beam.mode = boss.cfg.mode /\ beam.on = boss.cfg.on
                        /\ beam.snap = boss.cfg.snap
                        /\ \A id \in DOMAIN boss.others : boss.others[id] = boss.cfg
      BY DEF AllSteerAlike
    <3>1. Same(beam, DOMAIN Fresh)
      BY DEF BInv, Uniformly, Done
    <3>2. ASSUME NEW id \in DOMAIN boss.others
          PROVE  boss.others[id] = boss.cfg
      <4>1. Same(boss.others[id], {"mode", "on", "snap"})
        BY KeyNames DEF BInv, Uniformly, Done
      <4>2. boss.others[id] \in Shared /\ boss.cfg \in Shared
        BY <2>1 DEF BeamVarsOK
      <4> HIDE DEF Shared
      <4>3. \A x, y \in Shared : x.mode = y.mode /\ x.on = y.on /\ x.snap = y.snap => x = y
        BY DEF Shared
      <4> QED  BY <4>1, <4>2, <4>3 DEF Same
    <3> QED  BY <3>1, <3>2, KeyNames DEF Same
  <2> QED  BY <2>2, <2>3, <2>4 DEF BInv, BeamSound
<1> QED  BY <1>1, BeamInvariant, PTL

\* The frames of the frequency domain beam overlap by half and leave no sample
\* out as long as every block goes through them (freqDomainDAS).
THEOREM FramesCorrect == BeamSpec => []FramesTile
<1>1. BInv => FramesTile
  <2> SUFFICES ASSUME BInv
               PROVE  FramesTile
    OBVIOUS
  <2>1. BeamVarsOK /\ beam.tail \in Seq(Nat)
    BY DEF BInv, BeamVarsOK, Beams
  <2>2. BeforeBlock \in Int
    <3>1. turns.taken \in Nat /\ Len(pass.samples) \in Nat
      BY <2>1, LenProperties DEF BeamVarsOK
    <3> QED  BY <3>1 DEF BeforeBlock
  <2>3. UpTo(beam.tail, BeforeBlock) => ContinuousFrom(beam.tail)
    BY <2>1, <2>2, UpToContinuous
  <2> QED  BY <2>3 DEF BInv, Tiling, FramesTile
<1> QED  BY <1>1, BeamInvariant, PTL

-----------------------------------------------------------------------------
(***************************************************************************)
(* The audio between its two threads, for a ring, queue and blocks of any  *)
(* size, and any decimators and rates.                                     *)
(*                                                                         *)
(* The samples that the ring holds are those between its two positions.    *)
(* Between the copy and the store of a write they lie beyond the write     *)
(* position, where Space leaves room for them; between the copy and the    *)
(* store of a read they are still held.  A clear moves both positions, and *)
(* heard.raced says whether it did so between a copy and its store.        *)
(***************************************************************************)
Cells     == 0 .. RingSize - 1
SomeRates == Rates \cup {Absent}
AudioItems == [n : Nat, rate : SomeRates, age : 0 .. 2]
FmPlaces  == {"top", "wait", "reset", "age", "rate", "ratio", "need", "filters", "recreate",
              "demod", "add", "store", "fill", "complete"} \cup Clearing
WebPlaces == {"idle", "reset", "playStore", "rate", "ratio", "need"} \cup Clearing

AudioTypes ==
    /\ decs \in [Ids -> SomeRates] /\ Existing # {} /\ source \in Ids /\ on \in BOOLEAN
    /\ dec \in [pc : {"idle", "enqueue"}, n : Nat, rate : SomeRates]
    /\ fmQueue \in Seq(AudioItems) /\ Len(fmQueue) <= FmQueueCap
    /\ fm \in [pc : FmPlaces, item : AudioItems, timeouts : Nat, last : SomeRates,
               pos : Cells, count : 0 .. Block]
    /\ demod \in [enabled : BOOLEAN, rate : SomeRates, ratio : SomeRates, need : BOOLEAN,
                  filters : [rate : SomeRates, ratio : SomeRates],
                  lock : {"free", "fm", "web"}]
    /\ ring \in [write : Cells, read : Cells, cells : [Cells -> Int], fill : BOOLEAN]
    /\ page \in [pc : WebPlaces, rate : SomeRates, pos : Cells, count : Nat]
    /\ heard \in [pending : Seq(Int), enough : BOOLEAN, raced : BOOLEAN, slipped : BOOLEAN]

\* process_mutex is held by the thread that clears.
LockHeld ==
    /\ demod.lock = "fm" <=> fm.pc \in Clearing
    /\ demod.lock = "web" <=> page.pc \in Clearing

HeldNow == Used(ring.write, ring.read)

\* Between the copy and the store of a write.
Storing ==
    /\ demod.lock = "free"
    /\ fm.count <= Space(ring.write, ring.read)
    /\ fm.pos = (ring.write + fm.count) % RingSize
    /\ \A i \in 1 .. fm.count :
          ring.cells[(ring.write + i - 1) % RingSize] = Samples(fm.item.n)[i]

\* Between the copy and the store of a read.
Playing ==
    /\ demod.lock = "free"
    /\ page.pos = ring.read /\ page.count <= HeldNow

\* How far a clear has come.
ClearedSoFar ==
    /\ "clearRead" \in {fm.pc, page.pc} => ring.write = 0
    /\ "clearFill" \in {fm.pc, page.pc} => ring.write = 0 /\ ring.read = 0

RingGood ==
    ~heard.raced =>
        /\ fm.pc = "store" => Storing
        /\ page.pc = "playStore" => Playing
        /\ ClearedSoFar

EnoughKnown == Len(heard.pending) >= FillTarget => heard.enough

\* Between the look at the ring and the flag, a clear can come.
FillKnown ==
    fm.pc = "complete" /\ ~heard.raced
        => heard.enough \/ heard.slipped \/ page.pc \in Clearing

\* The inductive invariant.
AInv ==
    /\ AudioTypes /\ LockHeld /\ RingGood /\ EnoughKnown /\ FillKnown
    /\ RingIsQueue /\ FillIsReal /\ FilterIsCurrent

-----------------------------------------------------------------------------
(* Positions modulo the size of the ring. *)

LEMMA AudioGiven ==
    /\ Ids \subseteq Nat /\ IsFiniteSet(Ids) /\ 0 \in Ids /\ Rates # {} /\ Absent \notin Rates
    /\ FmQueueCap \in Nat \ {0} /\ RingSize \in Nat \ {0} /\ FillTarget \in Nat \ {0}
    /\ Block \in Nat \ {0} /\ PacketSize \in Nat \ {0} /\ GapTimeouts \in Nat \ {0}
    /\ FillTarget < RingSize
    /\ Default \in Rates
BY AudioAssumption DEF Absent, Default

LEMMA UsedIs ==
    ASSUME NEW w \in Cells, NEW r \in Cells
    PROVE  /\ Used(w, r) = (IF r <= w THEN w - r ELSE w - r + RingSize)
           /\ Used(w, r) \in 0 .. RingSize - 1
           /\ Space(w, r) = RingSize - 1 - Used(w, r)
           /\ Space(w, r) \in 0 .. RingSize - 1
<1>1. w - r \in Int /\ -RingSize <= w - r /\ w - r < RingSize
  BY AudioGiven DEF Cells
<1>2. RingSize \in Nat \ {0}
  BY AudioGiven
<1>3. CASE r <= w
  BY <1>1, <1>2, <1>3 DEF Used, Space, Cells
<1>4. CASE ~(r <= w)
  BY <1>1, <1>2, <1>4 DEF Used, Space, Cells
<1> QED  BY <1>3, <1>4 DEF Cells

\* Position p, k places on.
LEMMA OnIs ==
    ASSUME NEW p \in Cells, NEW k \in 0 .. RingSize
    PROVE  /\ (p + k) % RingSize = (IF p + k < RingSize THEN p + k ELSE p + k - RingSize)
           /\ (p + k) % RingSize \in Cells
<1>1. /\ p + k \in Int /\ 0 <= p + k /\ p + k < 2 * RingSize
      /\ RingSize \in Nat \ {0} /\ p \in Int /\ k \in Int
  BY AudioGiven DEF Cells
<1>2. CASE p + k < RingSize
  BY <1>1, <1>2 DEF Cells
<1>3. CASE ~(p + k < RingSize)
  BY <1>1, <1>3 DEF Cells
<1> QED  BY <1>2, <1>3

\* The write position moves on over free cells.
LEMMA AfterWrite ==
    ASSUME NEW w \in Cells, NEW r \in Cells, NEW c \in Nat, c <= Space(w, r)
    PROVE  /\ (w + c) % RingSize \in Cells
           /\ Used((w + c) % RingSize, r) = Used(w, r) + c
<1>1. RingSize \in Nat \ {0} /\ c \in 0 .. RingSize /\ w \in Int /\ r \in Int
  BY AudioGiven, UsedIs DEF Cells
<1>2. PICK v \in Cells : /\ v = (w + c) % RingSize
                         /\ v = (IF w + c < RingSize THEN w + c ELSE w + c - RingSize)
  BY <1>1, OnIs
<1>3. Used(v, r) = (IF r <= v THEN v - r ELSE v - r + RingSize)
  BY UsedIs
<1>4. PICK u \in Int : u = Used(w, r) /\ u = (IF r <= w THEN w - r ELSE w - r + RingSize)
                       /\ c <= RingSize - 1 - u
  BY <1>1, UsedIs
<1>5. (IF r <= v THEN v - r ELSE v - r + RingSize) = u + c
  BY <1>1, <1>2, <1>4 DEF Cells
<1> QED  BY <1>2, <1>3, <1>4, <1>5

\* The read position moves on over used ones.
LEMMA AfterRead ==
    ASSUME NEW w \in Cells, NEW r \in Cells, NEW c \in Nat, c <= Used(w, r)
    PROVE  /\ (r + c) % RingSize \in Cells
           /\ Used(w, (r + c) % RingSize) = Used(w, r) - c
<1>1. RingSize \in Nat \ {0} /\ c \in 0 .. RingSize /\ w \in Int /\ r \in Int
  BY AudioGiven, UsedIs DEF Cells
<1>2. PICK v \in Cells : /\ v = (r + c) % RingSize
                         /\ v = (IF r + c < RingSize THEN r + c ELSE r + c - RingSize)
  BY <1>1, OnIs
<1>3. Used(w, v) = (IF v <= w THEN w - v ELSE w - v + RingSize)
  BY UsedIs
<1>4. PICK u \in Int : u = Used(w, r) /\ u = (IF r <= w THEN w - r ELSE w - r + RingSize)
                       /\ c <= u
  BY <1>1, UsedIs
<1>5. (IF v <= w THEN w - v ELSE w - v + RingSize) = u - c
  BY <1>1, <1>2, <1>4 DEF Cells
<1> QED  BY <1>2, <1>3, <1>4, <1>5

\* A held sample is not where a write puts its samples, and what it puts there
\* is where the samples behind the held ones are read.
LEMMA CellsOfWrite ==
    ASSUME NEW w \in Cells, NEW r \in Cells
    PROVE  /\ \A k \in 1 .. Used(w, r) :
                 /\ (r + k - 1) % RingSize \in Cells
                 /\ (((r + k - 1) % RingSize) - w) % RingSize > Space(w, r)
           /\ \A i \in 1 .. Space(w, r) :
                 /\ (w + i - 1) % RingSize \in Cells
                 /\ (((w + i - 1) % RingSize) - w) % RingSize = i - 1
                 /\ (r + (Used(w, r) + i) - 1) % RingSize = (w + i - 1) % RingSize
<1>1. RingSize \in Nat \ {0} /\ w \in Int /\ r \in Int
  BY AudioGiven DEF Cells
<1>2. PICK u \in 0 .. RingSize - 1 :
          u = Used(w, r) /\ u = (IF r <= w THEN w - r ELSE w - r + RingSize)
          /\ Space(w, r) = RingSize - 1 - u
  BY <1>1, UsedIs
<1>3. ASSUME NEW k \in 1 .. u
      PROVE  /\ (r + k - 1) % RingSize \in Cells
             /\ (((r + k - 1) % RingSize) - w) % RingSize > RingSize - 1 - u
  <2>1. k - 1 \in 0 .. RingSize /\ r + k - 1 = r + (k - 1)
    BY <1>1, <1>2, <1>3
  <2>2. PICK j \in Cells : /\ j = (r + k - 1) % RingSize
                           /\ j = (IF r + (k - 1) < RingSize THEN r + (k - 1) ELSE r + (k - 1) - RingSize)
    BY <2>1, OnIs
  <2>3. (j - w) % RingSize = (IF w <= j THEN j - w ELSE j - w + RingSize)
    BY <2>2, UsedIs DEF Used
  <2>4. (IF w <= j THEN j - w ELSE j - w + RingSize) > RingSize - 1 - u
    BY <1>1, <1>2, <2>2 DEF Cells
  <2> QED  BY <2>2, <2>3, <2>4
<1>4. ASSUME NEW i \in 1 .. RingSize - 1 - u
      PROVE  /\ (w + i - 1) % RingSize \in Cells
             /\ (((w + i - 1) % RingSize) - w) % RingSize = i - 1
             /\ (r + (u + i) - 1) % RingSize = (w + i - 1) % RingSize
  <2>1. /\ i - 1 \in 0 .. RingSize /\ w + i - 1 = w + (i - 1)
        /\ u + i - 1 \in 0 .. RingSize /\ r + (u + i) - 1 = r + (u + i - 1)
    BY <1>1, <1>2, <1>4
  <2>2. PICK j \in Cells : /\ j = (w + i - 1) % RingSize
                           /\ j = (IF w + (i - 1) < RingSize THEN w + (i - 1) ELSE w + (i - 1) - RingSize)
    BY <2>1, OnIs
  <2>3. (j - w) % RingSize = (IF w <= j THEN j - w ELSE j - w + RingSize)
    BY <2>2, UsedIs DEF Used
  <2>4. (IF w <= j THEN j - w ELSE j - w + RingSize) = i - 1
    BY <1>1, <1>2, <2>2 DEF Cells
  <2>5. (r + (u + i) - 1) % RingSize
            = (IF r + (u + i - 1) < RingSize THEN r + (u + i - 1) ELSE r + (u + i - 1) - RingSize)
    BY <2>1, OnIs
  <2>6. (IF r + (u + i - 1) < RingSize THEN r + (u + i - 1) ELSE r + (u + i - 1) - RingSize) = j
    BY <1>1, <1>2, <2>2 DEF Cells
  <2> QED  BY <2>2, <2>3, <2>4, <2>5, <2>6
<1> QED  BY <1>2, <1>3, <1>4

-----------------------------------------------------------------------------
(* Types. *)

LEMMA ZeroIsCell == 0 \in Cells
BY AudioGiven DEF Cells

LEMMA SamplesAre ==
    ASSUME NEW n \in Nat
    PROVE  Samples(n) \in Seq(Int) /\ Len(Samples(n)) = Block /\ DOMAIN Samples(n) = 1 .. Block
<1>1. \A i \in 1 .. Block : (n - 1) * Block + i \in Int
  BY AudioGiven
<1>2. Samples(n) \in [1 .. Block -> Int]
  BY <1>1 DEF Samples
<1> QED  BY <1>2, AudioGiven DEF Samples

\* The part of a sequence behind its first c elements.
LEMMA Rest ==
    ASSUME NEW S, NEW s \in Seq(S), NEW c \in Nat
    PROVE  /\ SubSeq(s, c + 1, Len(s)) \in Seq(S)
           /\ Len(SubSeq(s, c + 1, Len(s))) = (IF c <= Len(s) THEN Len(s) - c ELSE 0)
           /\ \A i \in 1 .. (Len(s) - c) : SubSeq(s, c + 1, Len(s))[i] = s[i + c]
<1>1. CASE c <= Len(s)
  <2>1. c + 1 \in 1 .. Len(s) + 1 /\ Len(s) \in (c + 1) - 1 .. Len(s)
    BY <1>1, LenProperties
  <2> QED  BY <2>1, <1>1, SubSeqProperties, LenProperties
<1>2. CASE ~(c <= Len(s))
  <2>1. SubSeq(s, c + 1, Len(s)) = << >>
    BY <1>2, LenProperties, SubSeqEmpty
  <2> QED  BY <2>1, <1>2, LenProperties
<1> QED  BY <1>1, <1>2

LEMMA PlaceIs ==
    ASSUME NEW i \in Cells, NEW w \in Cells
    PROVE  (i - w) % RingSize \in 0 .. RingSize - 1
BY UsedIs DEF Used

LEMMA FilledCells ==
    ASSUME NEW cells \in [Cells -> Int], NEW w \in Cells, NEW n \in Nat, NEW c \in 0 .. Block
    PROVE  Filled(cells, w, Samples(n), c) \in [Cells -> Int]
<1>1. \A i \in Cells : (i - w) % RingSize < c => Samples(n)[((i - w) % RingSize) + 1] \in Int
  <2> TAKE i \in Cells
  <2>1. (i - w) % RingSize \in Nat
    BY PlaceIs, AudioGiven
  <2> HAVE (i - w) % RingSize < c
  <2>2. ((i - w) % RingSize) + 1 \in 1 .. Block
    BY <2>1, AudioGiven
  <2> QED  BY <2>2, SamplesAre, ElementOfSeq
<1> QED  BY <1>1 DEF Filled

LEMMA UsedIsNat ==
    ASSUME NEW w \in Cells, NEW r \in Cells
    PROVE  Used(w, r) \in Nat /\ Space(w, r) \in Nat
<1>1. PICK u \in 0 .. RingSize - 1, s \in 0 .. RingSize - 1 : u = Used(w, r) /\ s = Space(w, r)
  BY UsedIs
<1> QED  BY <1>1, AudioGiven

LEMMA WriteCount ==
    ASSUME NEW w \in Cells, NEW r \in Cells
    PROVE  /\ Lower(Block, Space(w, r)) \in 0 .. Block
           /\ Lower(Block, Space(w, r)) <= Space(w, r)
<1>1. PICK s \in 0 .. RingSize - 1 : s = Space(w, r)
  BY UsedIs
<1> QED  BY <1>1, AudioGiven DEF Lower

LEMMA ReadCount ==
    ASSUME NEW w \in Cells, NEW r \in Cells
    PROVE  /\ Lower(PacketSize, Used(w, r)) \in Nat
           /\ Lower(PacketSize, Used(w, r)) <= Used(w, r)
<1>1. PICK u \in 0 .. RingSize - 1 : u = Used(w, r)
  BY UsedIs
<1> QED  BY <1>1, AudioGiven DEF Lower

LEMMA FrontPart ==
    ASSUME NEW S, NEW s \in Seq(S), NEW c \in 0 .. Len(s)
    PROVE  /\ SubSeq(s, 1, c) \in Seq(S) /\ Len(SubSeq(s, 1, c)) = c
           /\ \A i \in 1 .. c : SubSeq(s, 1, c)[i] = s[i]
<1>1. 1 \in 1 .. Len(s) + 1 /\ c \in 1 - 1 .. Len(s) /\ c \in Nat
  BY LenProperties
<1> QED  BY <1>1, SubSeqProperties

LEMMA NoneIsSeq == << >> \in Seq(Int) /\ Len(<< >>) = 0
OBVIOUS

LEMMA SmallestOf ==
    ASSUME NEW T \in SUBSET Nat, T # {}
    PROVE  \E i \in T : \A j \in T : i <= j
<1>1. PICK i \in T : \A j \in T : ~(<<j, i>> \in OpToRel(<, Nat))
  BY NatLessThanWellFounded, WFMin, Zenon
<1>2. \A j \in T : ~(j < i)
  BY <1>1 DEF OpToRel
<1> QED  BY <1>2

LEMMA YoungIsThere ==
    ASSUME NEW q \in Seq(AudioItems), q # << >>
    PROVE  FirstYoung(q) \in 1 .. Len(q) /\ 1 \in 1 .. Len(q)
<1> DEFINE young == {i \in DOMAIN q : q[i].age = 0}
<1>1. Len(q) \in Nat \ {0} /\ DOMAIN q = 1 .. Len(q)
  BY LenProperties, EmptySeq
<1>2. CASE young = {}
  BY <1>1, <1>2 DEF FirstYoung
<1>3. CASE young # {}
  <2>1. young \subseteq Nat
    BY <1>1
  <2>2. \E i \in young : \A j \in young : i <= j
    BY <1>3, <2>1, SmallestOf
  <2>3. FirstYoung(q) = CHOOSE i \in young : \A j \in young : i <= j
    BY <1>3 DEF FirstYoung
  <2> HIDE DEF young
  <2>4. FirstYoung(q) \in young
    BY <2>2, <2>3
  <2> QED  BY <1>1, <2>4 DEF young
<1> QED  BY <1>2, <1>3

LEMMA ClearedTypes ==
    ASSUME AudioTypes, NEW pc \in Clearing
    PROVE  Cleared(pc) \in [write : Cells, read : Cells, cells : [Cells -> Int], fill : BOOLEAN]
BY ZeroIsCell DEF AudioTypes, Cleared, Clearing

LEMMA FmTypes ==
    ASSUME AudioTypes, FmStep
    PROVE  AudioTypes'
<1> USE DEF AudioTypes
<1>0. GapTimeouts \in Nat /\ 0 \in Nat /\ 0 \in Cells /\ 0 \in 0 .. Block
  BY AudioGiven, ZeroIsCell
<1>1. CASE FmTop
  <2>1. fm' = [fm EXCEPT !.pc = "wait"] \/ fm' = [fm EXCEPT !.timeouts = 0]
    BY <1>1 DEF FmTop
  <2>2. fm' \in [pc : FmPlaces, item : AudioItems, timeouts : Nat, last : SomeRates,
                 pos : Cells, count : 0 .. Block]
    BY <1>0, <2>1 DEF FmPlaces
  <2> QED  BY <1>1, <2>2 DEF FmTop, Existing
<1>2. CASE FmTimeout
  <2>1. Lower(fm.timeouts + 1, GapTimeouts) \in Nat
    BY <1>0 DEF Lower
  <2>2. fm' \in [pc : FmPlaces, item : AudioItems, timeouts : Nat, last : SomeRates,
                 pos : Cells, count : 0 .. Block]
    BY <1>2, <2>1 DEF FmPlaces, FmTimeout
  <2> QED  BY <1>2, <2>2 DEF FmTimeout, Existing
<1>3. CASE FmTake
  <2>1. PICK i \in 1 .. Len(fmQueue), pc \in {"reset", "age"} :
           /\ fm' = [fm EXCEPT !.pc = pc, !.item = fmQueue[i], !.timeouts = 0]
           /\ fmQueue' = SubSeq(fmQueue, i + 1, Len(fmQueue))
    <3>1. FirstYoung(fmQueue) \in 1 .. Len(fmQueue) /\ 1 \in 1 .. Len(fmQueue)
      BY <1>3, YoungIsThere DEF FmTake
    <3>2. CASE fm.timeouts >= GapTimeouts
      BY <1>3, <3>1, <3>2 DEF FmTake
    <3>3. CASE ~(fm.timeouts >= GapTimeouts)
      BY <1>3, <3>1, <3>3 DEF FmTake
    <3> QED  BY <3>2, <3>3
  <2>2. fmQueue[i] \in AudioItems /\ Len(fmQueue) \in Nat /\ i \in Nat
    BY ElementOfSeq, LenProperties
  <2>3. fmQueue' \in Seq(AudioItems) /\ Len(fmQueue') <= FmQueueCap
    <3>1. SubSeq(fmQueue, i + 1, Len(fmQueue)) \in Seq(AudioItems)
      BY <2>2, Rest
    <3>2. Len(SubSeq(fmQueue, i + 1, Len(fmQueue))) = Len(fmQueue) - i
      BY <2>2, Rest
    <3>3. Len(fmQueue) - i <= FmQueueCap
      BY <2>2, AudioGiven
    <3> QED  BY <2>1, <3>1, <3>2, <3>3
  <2>4. fm' \in [pc : FmPlaces, item : AudioItems, timeouts : Nat, last : SomeRates,
                 pos : Cells, count : 0 .. Block]
    BY <1>0, <2>1, <2>2 DEF FmPlaces
  <2> QED  BY <1>3, <2>3, <2>4 DEF FmTake, Existing
<1>4. CASE FmReset
  BY <1>4 DEF FmReset, FmPlaces, Existing, Clearing
<1>5. CASE FmAge
  BY <1>5 DEF FmAge, FmPlaces, Existing
<1>6. CASE FmRate
  <2>1. fm.item.rate \in SomeRates
    BY DEF AudioItems
  <2>2. fm' \in [pc : FmPlaces, item : AudioItems, timeouts : Nat, last : SomeRates,
                 pos : Cells, count : 0 .. Block]
    <3>1. \E pc \in {"ratio", "filters"} : fm' = [fm EXCEPT !.pc = pc, !.last = fm.item.rate]
      BY <1>6 DEF FmRate
    <3> QED  BY <2>1, <3>1 DEF FmPlaces
  <2>3. demod' = demod \/ demod' = [demod EXCEPT !.rate = fm.item.rate]
    BY <1>6 DEF FmRate, Asks
  <2>4. UNCHANGED <<decs, source, on, dec, fmQueue, ring, page, heard>>
    BY <1>6 DEF FmRate
  <2> QED  BY <2>1, <2>2, <2>3, <2>4 DEF Existing
<1>7. CASE FmRatio
  BY <1>7 DEF FmRatio, FmPlaces, Existing, AudioItems
<1>8. CASE FmNeed
  BY <1>8 DEF FmNeed, FmPlaces, Existing
<1>9. CASE FmFilters
  <2>1. fm' \in [pc : FmPlaces, item : AudioItems, timeouts : Nat, last : SomeRates,
                 pos : Cells, count : 0 .. Block]
    BY <1>9 DEF FmFilters, FmPlaces
  <2>2. demod' = demod \/ demod' = [demod EXCEPT !.need = FALSE]
    BY <1>9 DEF FmFilters
  <2> QED  BY <1>9, <2>1, <2>2 DEF FmFilters, Existing
<1>10. CASE FmRecreate
  BY <1>10 DEF FmRecreate, FmPlaces, Existing, Designed
<1>11. CASE FmDemod
  BY <1>11 DEF FmDemod, FmPlaces, Existing
<1>12. CASE FmAdd
  <2> DEFINE count == Lower(Block, Space(ring.write, ring.read))
  <2>0. ring.write \in Cells /\ ring.read \in Cells /\ fm.item.n \in Nat /\ ring.cells \in [Cells -> Int]
    BY DEF AudioItems
  <2>1. count \in 0 .. Block /\ count \in Nat /\ count <= Space(ring.write, ring.read)
    BY <2>0, WriteCount, AudioGiven
  <2>2. (ring.write + count) % RingSize \in Cells
    BY <2>0, <2>1, AfterWrite
  <2>3. Filled(ring.cells, ring.write, Samples(fm.item.n), count) \in [Cells -> Int]
    BY <2>0, <2>1, FilledCells
  <2> HIDE DEF count
  <2>4. CASE demod.enabled
    <3>1. ring' = [ring EXCEPT !.cells = Filled(@, ring.write, Samples(fm.item.n), count)]
      BY <1>12, <2>4 DEF FmAdd, count
    <3>2. fm' = [fm EXCEPT !.pc = "store", !.pos = (ring.write + count) % RingSize,
                           !.count = count]
      BY <1>12, <2>4 DEF FmAdd, count
    <3>3. heard' = [heard EXCEPT !.raced = @ \/ page.pc \in Clearing]
      BY <1>12, <2>4 DEF FmAdd
    <3>4. /\ heard' \in [pending : Seq(Int), enough : BOOLEAN, raced : BOOLEAN, slipped : BOOLEAN]
          /\ ring' \in [write : Cells, read : Cells, cells : [Cells -> Int], fill : BOOLEAN]
      BY <2>3, <3>1, <3>3
    <3>5. fm' \in [pc : FmPlaces, item : AudioItems, timeouts : Nat, last : SomeRates,
                   pos : Cells, count : 0 .. Block]
      BY <2>1, <2>2, <3>2 DEF FmPlaces
    <3> QED  BY <1>12, <3>4, <3>5 DEF FmAdd, Existing
  <2>5. CASE ~demod.enabled
    BY <1>12, <2>5 DEF FmAdd, FmPlaces, Existing
  <2> QED  BY <2>4, <2>5
<1>13. CASE FmStore
  <2>1. /\ Samples(fm.item.n) \in Seq(Int) /\ Len(Samples(fm.item.n)) = Block
        /\ fm.count \in 0 .. Block
    BY SamplesAre DEF AudioItems
  <2>2. SubSeq(Samples(fm.item.n), 1, fm.count) \in Seq(Int)
    BY <2>1, FrontPart, AudioGiven
  <2>3. heard.pending \o SubSeq(Samples(fm.item.n), 1, fm.count) \in Seq(Int)
    BY <2>2, ConcatProperties
  <2>4. heard' \in [pending : Seq(Int), enough : BOOLEAN, raced : BOOLEAN, slipped : BOOLEAN]
    BY <1>13, <2>3 DEF FmStore
  <2> QED  BY <1>0, <1>13, <2>4 DEF FmStore, FmPlaces, Existing
<1>14. CASE FmFill \/ FmComplete
  BY <1>14 DEF FmFill, FmComplete, FmPlaces, Existing
<1>15. CASE FmClear
  <2>1. ring' \in [write : Cells, read : Cells, cells : [Cells -> Int], fill : BOOLEAN]
    BY <1>0, <1>15, ClearedTypes DEF FmClear
  <2>2. heard' \in [pending : Seq(Int), enough : BOOLEAN, raced : BOOLEAN, slipped : BOOLEAN]
    BY <1>15, NoneIsSeq DEF FmClear, Emptied
  <2>3. fm' \in [pc : FmPlaces, item : AudioItems, timeouts : Nat, last : SomeRates,
                 pos : Cells, count : 0 .. Block]
    <3>1. fm' = [fm EXCEPT !.pc = "age"] \/ fm' = [fm EXCEPT !.pc = NextClear[fm.pc]]
      BY <1>15 DEF FmClear
    <3>2. fm.pc \in {"clear", "clearRead"} \/ fm' = [fm EXCEPT !.pc = "age"]
      BY <1>15 DEF FmClear, Clearing
    <3>3. fm.pc \in {"clear", "clearRead"} => NextClear[fm.pc] \in Clearing
      BY DEF NextClear, Clearing
    <3> QED  BY <3>1, <3>2, <3>3 DEF FmPlaces
  <2>4. demod' = demod \/ demod' = [demod EXCEPT !.lock = "free"]
    BY <1>15 DEF FmClear, Unlocked
  <2> QED  BY <1>15, <2>1, <2>2, <2>3, <2>4 DEF FmClear, Existing
<1> QED  BY <1>1, <1>2, <1>3, <1>4, <1>5, <1>6, <1>7, <1>8, <1>9, <1>10, <1>11, <1>12, <1>13,
            <1>14, <1>15 DEF FmStep

LEMMA OneRemains ==
    ASSUME NEW S, IsFiniteSet(S), Cardinality(S) > 1, NEW x \in S
    PROVE  S \ {x} # {}
<1>1. IsFiniteSet(S \ {x}) /\ Cardinality(S \ {x}) = Cardinality(S) - 1 /\ Cardinality(S) \in Nat
  BY FS_RemoveElement, FS_CardinalityType
<1>2. Cardinality({}) = 0
  BY FS_EmptySet
<1> QED  BY <1>1, <1>2

LEMMA WebTypes ==
    ASSUME AudioTypes, WebStep \/ Play
    PROVE  AudioTypes'
<1> USE DEF AudioTypes
<1>0. 0 \in Nat /\ 0 \in Cells /\ Absent \in SomeRates
  BY ZeroIsCell DEF SomeRates
<1>1. CASE WebReset
  BY <1>1 DEF WebReset, WebPlaces, Existing, Clearing
<1>2. CASE WebClear
  <2>1. ring' \in [write : Cells, read : Cells, cells : [Cells -> Int], fill : BOOLEAN]
    BY <1>0, <1>2, ClearedTypes DEF WebClear
  <2>2. heard' \in [pending : Seq(Int), enough : BOOLEAN, raced : BOOLEAN, slipped : BOOLEAN]
    BY <1>2, NoneIsSeq DEF WebClear, Emptied
  <2>3. page' \in [pc : WebPlaces, rate : SomeRates, pos : Cells, count : Nat]
    <3>1. page' = [page EXCEPT !.pc = "idle"] \/ page' = [page EXCEPT !.pc = NextClear[page.pc]]
      BY <1>2 DEF WebClear
    <3>2. page.pc \in {"clear", "clearRead"} \/ page' = [page EXCEPT !.pc = "idle"]
      BY <1>2 DEF WebClear, Clearing
    <3>3. page.pc \in {"clear", "clearRead"} => NextClear[page.pc] \in Clearing
      BY DEF NextClear, Clearing
    <3> QED  BY <3>1, <3>2, <3>3 DEF WebPlaces
  <2>4. demod' = demod \/ demod' = [demod EXCEPT !.lock = "free"]
    BY <1>2 DEF WebClear, Unlocked
  <2> QED  BY <1>2, <2>1, <2>2, <2>3, <2>4 DEF WebClear, Existing
<1>3. CASE PlayStore
  <2>1. ring' \in [write : Cells, read : Cells, cells : [Cells -> Int], fill : BOOLEAN]
    <3>1. (page.pos + page.count) % RingSize \in Cells
      <4>1. page.pos + page.count \in Int /\ RingSize \in Nat \ {0}
        BY AudioGiven DEF Cells
      <4> HIDE DEF AudioTypes
      <4> QED  BY <4>1 DEF Cells
    <3> QED  BY <1>3, <3>1 DEF PlayStore
  <2>2. heard' \in [pending : Seq(Int), enough : BOOLEAN, raced : BOOLEAN, slipped : BOOLEAN]
    <3>1. heard.pending \in Seq(Int) /\ page.count \in Nat
      OBVIOUS
    <3>2. SubSeq(heard.pending, page.count + 1, Len(heard.pending)) \in Seq(Int)
      BY <3>1, Rest
    <3> QED  BY <1>3, <3>2 DEF PlayStore
  <2>3. page' \in [pc : WebPlaces, rate : SomeRates, pos : Cells, count : Nat]
    BY <1>0, <1>3 DEF PlayStore, WebPlaces
  <2> QED  BY <1>3, <2>1, <2>2, <2>3 DEF PlayStore, Existing
<1>4. CASE WebRate
  <2>1. \E pc \in {"ratio", "idle"} : page' = [page EXCEPT !.pc = pc]
    BY <1>4 DEF WebRate
  <2>2. demod' = demod \/ demod' = [demod EXCEPT !.rate = page.rate]
    BY <1>4 DEF WebRate
  <2>3. UNCHANGED <<decs, source, on, dec, fmQueue, fm, ring, heard>>
    BY <1>4 DEF WebRate
  <2>4. page' \in [pc : WebPlaces, rate : SomeRates, pos : Cells, count : Nat]
    BY <2>1 DEF WebPlaces
  <2> QED  BY <2>2, <2>3, <2>4 DEF Existing
<1>5. CASE WebRatio
  BY <1>5 DEF WebRatio, WebPlaces, Existing
<1>6. CASE WebNeed
  BY <1>0, <1>6 DEF WebNeed, WebPlaces, Existing
<1>7. CASE Play
  <2> DEFINE count == Lower(PacketSize, Used(ring.write, ring.read))
  <2>1. count \in Nat
    BY ReadCount
  <2> HIDE DEF count
  <2>2. /\ page' = [page EXCEPT !.pc = "playStore", !.pos = ring.read, !.count = count]
        /\ heard' = [heard EXCEPT !.raced = @ \/ fm.pc \in Clearing]
        /\ UNCHANGED <<decs, source, on, dec, fmQueue, fm, demod, ring>>
    BY <1>7 DEF Play, count
  <2>3. page' \in [pc : WebPlaces, rate : SomeRates, pos : Cells, count : Nat]
    BY <2>1, <2>2 DEF WebPlaces
  <2> QED  BY <2>2, <2>3 DEF Existing
<1> QED  BY <1>1, <1>2, <1>3, <1>4, <1>5, <1>6, <1>7 DEF WebStep

\* What a command leaves alone.
LEMMA CommandsAside ==
    ASSUME WebCommand
    PROVE  page.pc = "idle" /\ UNCHANGED <<dec, fmQueue, fm, ring, heard>>
BY DEF WebCommand, Order, FmOn, FmSwitchOff, ResetAudio, SetSource, SetAllRates, SetMode, SetRate,
       AddDecimator, RemoveDecimator

\* There is always a decimator, and none is of no rate.
LEMMA CommandsKeepOne ==
    ASSUME AudioTypes, WebCommand
    PROVE  decs' \in [Ids -> SomeRates] /\ Existing' # {} /\ source' \in Ids
<1> USE DEF AudioTypes, Existing, SomeRates
<1>0. Absent \notin Rates
  BY AudioGiven
<1>1. CASE UNCHANGED <<decs, source>>
  BY <1>1
<1>2. CASE SetSource
  BY <1>2 DEF SetSource
<1>3. CASE SetAllRates
  <2>1. PICK r \in Rates : decs' = [i \in Ids |-> IF decs[i] = Absent THEN Absent ELSE r]
    BY <1>3 DEF SetAllRates
  <2> QED  BY <1>0, <1>3, <2>1 DEF SetAllRates
<1>4. CASE SetMode
  <2>1. PICK r \in Rates : decs' = decs \/ decs' = [decs EXCEPT ![source] = r]
    BY <1>4 DEF SetMode
  <2>2. source' = source
    BY <1>4 DEF SetMode
  <2>3. CASE decs' = decs
    BY <2>2, <2>3
  <2>4. CASE decs' = [decs EXCEPT ![source] = r]
    <3>1. r # Absent /\ decs'[source] = r /\ decs' \in [Ids -> SomeRates]
      BY <1>0, <2>4
    <3> QED  BY <2>2, <3>1
  <2> QED  BY <2>1, <2>3, <2>4
<1>5. CASE SetRate
  <2>1. PICK i \in Ids, r \in Rates : decs' = [decs EXCEPT ![i] = r]
    BY <1>5 DEF SetRate
  <2> QED  BY <1>0, <1>5, <2>1 DEF SetRate
<1>6. CASE AddDecimator
  <2>1. PICK first \in Ids : decs[first] # Absent /\ decs' = [decs EXCEPT ![FreeId] = decs[first]]
    BY <1>6 DEF AddDecimator
  <2>2. FreeId \in Ids
    <3>1. Ids \ Existing \in SUBSET Nat /\ Ids \ Existing # {}
      BY <1>6, AudioGiven DEF AddDecimator
    <3>2. \E i \in Ids \ Existing : \A j \in Ids \ Existing : i <= j
      BY <3>1, SmallestOf
    <3> QED  BY <3>2 DEF FreeId
  <2>3. decs' \in [Ids -> SomeRates] /\ decs'[FreeId] # Absent
    BY <2>1, <2>2
  <2> QED  BY <1>6, <2>2, <2>3 DEF AddDecimator
<1>7. CASE RemoveDecimator
  <2>1. PICK id \in Existing : /\ source' \in SourceWithout(id, source)
                               /\ decs' = [decs EXCEPT ![id] = Absent]
    BY <1>7 DEF RemoveDecimator
  <2>2. PICK other \in Existing : other # id
    <3>1. IsFiniteSet(Existing)
      BY AudioGiven, FS_Subset
    <3>2. Existing \ {id} # {}
      BY <1>7, <3>1, OneRemains DEF RemoveDecimator
    <3> QED  BY <3>2
  <2>3. source' \in Ids
    BY <2>1 DEF SourceWithout
  <2> QED  BY <2>1, <2>2, <2>3
<1> QED  BY <1>1, <1>2, <1>3, <1>4, <1>5, <1>6, <1>7
         DEF WebCommand, FmOn, FmSwitchOff, ResetAudio

LEMMA CommandTypes ==
    ASSUME AudioTypes, WebCommand
    PROVE  AudioTypes'
<1> USE DEF AudioTypes
<1>1. decs' \in [Ids -> SomeRates] /\ Existing' # {} /\ source' \in Ids
  BY CommandsKeepOne
<1>2. UNCHANGED <<dec, fmQueue, fm, ring, heard>>
  BY CommandsAside
<1>3. on' \in BOOLEAN
  BY DEF WebCommand, FmOn, FmSwitchOff, ResetAudio, SetSource, SetAllRates, SetMode, SetRate,
         AddDecimator, RemoveDecimator
<1>4. \/ demod' = demod
      \/ \E b \in BOOLEAN : demod' = [demod EXCEPT !.enabled = b] \/ demod' = [demod EXCEPT !.need = b]
  BY DEF WebCommand, FmOn, FmSwitchOff, ResetAudio, SetSource, SetAllRates, SetMode, SetRate,
         AddDecimator, RemoveDecimator
<1>5. \/ page' = page \/ page' = [page EXCEPT !.pc = "reset"]
      \/ \E r \in Rates : page' = [page EXCEPT !.pc = "rate", !.rate = r]
  BY DEF WebCommand, FmOn, FmSwitchOff, ResetAudio, SetSource, SetAllRates, SetMode, SetRate,
         AddDecimator, RemoveDecimator
<1>6. page' \in [pc : WebPlaces, rate : SomeRates, pos : Cells, count : Nat]
  BY <1>5 DEF WebPlaces, SomeRates
<1>7. demod' \in [enabled : BOOLEAN, rate : SomeRates, ratio : SomeRates, need : BOOLEAN,
                  filters : [rate : SomeRates, ratio : SomeRates],
                  lock : {"free", "fm", "web"}]
  BY <1>4
<1> QED  BY <1>1, <1>2, <1>3, <1>6, <1>7

LEMMA SourceTypes ==
    ASSUME AudioTypes, Launch \/ Enqueue \/ Age
    PROVE  AudioTypes'
<1> USE DEF AudioTypes
<1>1. CASE Launch
  BY <1>1 DEF Launch, Existing
<1>2. CASE Enqueue
  <2>1. [n |-> dec.n, rate |-> dec.rate, age |-> 0] \in AudioItems
    BY DEF AudioItems
  <2>2. fmQueue' \in Seq(AudioItems) /\ Len(fmQueue') <= FmQueueCap
    BY <1>2, <2>1, AppendProperties, LenProperties, AudioGiven DEF Enqueue
  <2> QED  BY <1>2, <2>2 DEF Enqueue, Existing
<1>3. CASE Age
  <2>1. /\ DOMAIN fmQueue = 1 .. Len(fmQueue) /\ Len(fmQueue) \in Nat
        /\ \A i \in DOMAIN fmQueue : fmQueue[i] \in AudioItems
    BY LenProperties, ElementOfSeq
  <2>2. \A i \in DOMAIN fmQueue : [fmQueue[i] EXCEPT !.age = Lower(@ + 1, 2)] \in AudioItems
    <3> TAKE i \in DOMAIN fmQueue
    <3>1. fmQueue[i].age \in 0 .. 2 /\ Lower(fmQueue[i].age + 1, 2) \in 0 .. 2
      BY <2>1 DEF AudioItems, Lower
    <3> QED  BY <2>1, <3>1 DEF AudioItems
  <2>3. fmQueue' = [i \in 1 .. Len(fmQueue) |-> [fmQueue[i] EXCEPT !.age = Lower(@ + 1, 2)]]
    BY <1>3, <2>1 DEF Age
  <2>4. fmQueue' \in [1 .. Len(fmQueue) -> AudioItems]
    BY <2>1, <2>2, <2>3
  <2>5. fmQueue' \in Seq(AudioItems) /\ Len(fmQueue') = Len(fmQueue)
    BY <2>1, <2>3, <2>4, LenProperties
  <2> QED  BY <1>3, <2>5 DEF Age, Existing
<1> QED  BY <1>1, <1>2, <1>3

LEMMA InitTypes ==
    ASSUME AudioInit
    PROVE  AudioTypes
<1>0. /\ 0 \in Nat /\ 0 \in Cells /\ Absent \in SomeRates /\ Default \in SomeRates /\ 0 \in 0 .. Block
      /\ 0 \in 0 .. 2
  BY ZeroIsCell, AudioGiven DEF SomeRates
<1>1. decs \in [Ids -> SomeRates] /\ Existing # {} /\ source \in Ids /\ on \in BOOLEAN
  <2>1. PICK n \in Ids : decs = [i \in Ids |-> IF i <= n THEN Default ELSE Absent]
    BY DEF AudioInit
  <2>2. n \in Ids /\ n <= n /\ Default # Absent
    BY AudioGiven
  <2>3. decs \in [Ids -> SomeRates] /\ decs[n] # Absent
    BY <1>0, <2>1, <2>2
  <2> QED  BY <2>2, <2>3, AudioGiven DEF AudioInit, Existing
<1>2. dec \in [pc : {"idle", "enqueue"}, n : Nat, rate : SomeRates]
  BY <1>0 DEF AudioInit
<1>3. fmQueue \in Seq(AudioItems) /\ Len(fmQueue) <= FmQueueCap
  BY AudioGiven DEF AudioInit
<1>4. fm \in [pc : FmPlaces, item : AudioItems, timeouts : Nat, last : SomeRates,
              pos : Cells, count : 0 .. Block]
  BY <1>0 DEF AudioInit, FmPlaces, AudioItems
<1>5. demod \in [enabled : BOOLEAN, rate : SomeRates, ratio : SomeRates, need : BOOLEAN,
                 filters : [rate : SomeRates, ratio : SomeRates],
                 lock : {"free", "fm", "web"}]
  BY <1>0 DEF AudioInit
<1>6. ring \in [write : Cells, read : Cells, cells : [Cells -> Int], fill : BOOLEAN]
  BY <1>0 DEF AudioInit, Cells
<1>7. page \in [pc : WebPlaces, rate : SomeRates, pos : Cells, count : Nat]
  BY <1>0 DEF AudioInit, WebPlaces
<1>8. heard \in [pending : Seq(Int), enough : BOOLEAN, raced : BOOLEAN, slipped : BOOLEAN]
  BY NoneIsSeq DEF AudioInit
<1> QED  BY <1>1, <1>2, <1>3, <1>4, <1>5, <1>6, <1>7, <1>8 DEF AudioTypes

-----------------------------------------------------------------------------
(* The lock. *)

LEMMA LockKept ==
    ASSUME AudioTypes, LockHeld, AudioNext
    PROVE  LockHeld'
<1> USE DEF LockHeld, AudioTypes, Clearing
<1>1. CASE UNCHANGED <<fm, page, demod>>
  BY <1>1
<1>2. CASE FmStep
  <2>1. page' = page
    BY <1>2 DEF FmStep, FmTop, FmTimeout, FmTake, FmReset, FmAge, FmRate, FmRatio, FmNeed, FmFilters,
                FmRecreate, FmDemod, FmAdd, FmStore, FmFill, FmComplete, FmClear
  <2>2. CASE FmReset
    BY <2>1, <2>2 DEF FmReset
  <2>3. CASE FmClear
    BY <2>1, <2>3 DEF FmClear, NextClear, Unlocked
  <2>4. CASE FmStep /\ ~FmReset /\ ~FmClear
    <3>1. demod'.lock = demod.lock
      BY <2>4 DEF FmStep, FmTop, FmTimeout, FmTake, FmAge, FmRate, FmRatio, FmNeed, FmFilters,
                  FmRecreate, FmDemod, FmAdd, FmStore, FmFill, FmComplete, Designed
    <3>2. fm.pc \notin Clearing /\ fm'.pc \notin Clearing
      <4>1. CASE FmTop \/ FmTimeout \/ FmTake \/ FmAge
        BY <4>1 DEF FmTop, FmTimeout, FmTake, FmAge
      <4>3. CASE FmRate \/ FmRatio \/ FmNeed \/ FmFilters
        BY <4>3 DEF FmRate, FmRatio, FmNeed, FmFilters
      <4>2. CASE FmRecreate \/ FmDemod \/ FmAdd \/ FmStore \/ FmFill \/ FmComplete
        BY <4>2 DEF FmRecreate, FmDemod, FmAdd, FmStore, FmFill, FmComplete
      <4> QED  BY <2>4, <4>1, <4>2, <4>3 DEF FmStep
    <3> QED  BY <2>1, <3>1, <3>2
  <2> QED  BY <1>2, <2>2, <2>3, <2>4
<1>3. CASE WebStep
  <2>1. fm' = fm
    BY <1>3 DEF WebStep, WebReset, WebClear, PlayStore, WebRate, WebRatio, WebNeed
  <2>2. CASE WebReset
    BY <2>1, <2>2 DEF WebReset
  <2>3. CASE WebClear
    BY <2>1, <2>3 DEF WebClear, NextClear, Unlocked
  <2>4. CASE WebStep /\ ~WebReset /\ ~WebClear
    BY <2>1, <2>4 DEF WebStep, PlayStore, WebRate, WebRatio, WebNeed
  <2> QED  BY <1>3, <2>2, <2>3, <2>4
<1>4. CASE Play
  BY <1>4 DEF Play
<1>5. CASE WebCommand
  <2>1. page.pc = "idle" /\ fm' = fm
    BY <1>5, CommandsAside
  <2>2. demod'.lock = demod.lock /\ page'.pc \in {"idle", "reset", "rate"}
    <3> HIDE DEF LockHeld, Clearing
    <3>1. CASE FmOn \/ FmSwitchOff \/ ResetAudio \/ SetSource \/ SetRate
      BY <2>1, <3>1 DEF FmOn, FmSwitchOff, ResetAudio, SetSource, SetRate
    <3>2. CASE SetAllRates \/ SetMode \/ AddDecimator \/ RemoveDecimator
      BY <2>1, <3>2 DEF SetAllRates, SetMode, AddDecimator, RemoveDecimator
    <3> QED  BY <1>5, <3>1, <3>2 DEF WebCommand
  <2> QED  BY <2>1, <2>2
<1> QED  BY <1>1, <1>2, <1>3, <1>4, <1>5 DEF AudioNext, Launch, Enqueue, Age

-----------------------------------------------------------------------------
(* Steps that leave the ring, its history and the lock alone, and do not enter *)
(* or leave a clear, the middle of a write or the middle of a read.            *)

Aside ==
    /\ UNCHANGED <<ring, heard>> /\ demod'.lock = demod.lock
    /\ fm' = fm \/ {fm.pc, fm'.pc} \cap (Clearing \cup {"store"}) = {}
    /\ page' = page \/ {page.pc, page'.pc} \cap (Clearing \cup {"playStore"}) = {}

LEMMA AsideKeeps ==
    ASSUME AInv, Aside
    PROVE  RingGood' /\ EnoughKnown' /\ RingIsQueue' /\ FillIsReal'
<1>1. EnoughKnown' /\ RingIsQueue' /\ FillIsReal'
  BY DEF AInv, Aside, EnoughKnown, RingIsQueue, FillIsReal
<1>2. ASSUME ~heard.raced, fm'.pc = "store"  PROVE Storing'
  BY <1>2 DEF AInv, Aside, RingGood, Storing
<1>3. ASSUME ~heard.raced, page'.pc = "playStore"  PROVE Playing'
  BY <1>3 DEF AInv, Aside, RingGood, Playing, HeldNow
<1>4. ASSUME ~heard.raced  PROVE ClearedSoFar'
  BY <1>4 DEF AInv, Aside, RingGood, ClearedSoFar, Clearing
<1> QED  BY <1>1, <1>2, <1>3, <1>4 DEF RingGood, Aside

LEMMA StepsAside ==
    ASSUME AudioTypes,
           \/ Launch \/ Enqueue \/ Age \/ WebCommand
           \/ FmTop \/ FmTimeout \/ FmTake \/ FmAge \/ FmRate \/ FmRatio \/ FmNeed \/ FmFilters
           \/ FmRecreate \/ FmDemod \/ (FmAdd /\ ~demod.enabled)
           \/ WebRate \/ WebRatio \/ WebNeed
    PROVE  Aside
<1> USE DEF AudioTypes, Aside, Clearing
<1>1. CASE Launch \/ Enqueue \/ Age
  BY <1>1 DEF Launch, Enqueue, Age
<1>2. CASE WebCommand
  <2>1. page.pc = "idle" /\ UNCHANGED <<fm, ring, heard>>
    BY <1>2, CommandsAside
  <2>2. demod'.lock = demod.lock /\ page'.pc \in {"idle", "reset", "rate"}
    BY <1>2, <2>1 DEF WebCommand, FmOn, FmSwitchOff, ResetAudio, SetSource, SetAllRates, SetMode,
           SetRate, AddDecimator, RemoveDecimator
  <2> QED  BY <2>1, <2>2
<1>3. CASE \/ FmTop \/ FmTimeout \/ FmTake \/ FmAge \/ FmRate \/ FmRatio \/ FmNeed \/ FmFilters
           \/ FmRecreate \/ FmDemod \/ (FmAdd /\ ~demod.enabled)
  <2>1. UNCHANGED <<ring, heard, page>>
    BY <1>3 DEF FmTop, FmTimeout, FmTake, FmAge, FmRate, FmRatio, FmNeed, FmFilters, FmRecreate,
                FmDemod, FmAdd
  <2>2. demod'.lock = demod.lock
    BY <1>3 DEF FmTop, FmTimeout, FmTake, FmAge, FmRate, FmRatio, FmNeed, FmFilters, FmRecreate,
                FmDemod, FmAdd, Designed
  <2>3. fm.pc \notin Clearing \cup {"store"} /\ fm'.pc \notin Clearing \cup {"store"}
    BY <1>3 DEF FmTop, FmTimeout, FmTake, FmAge, FmRate, FmRatio, FmNeed, FmFilters, FmRecreate,
                FmDemod, FmAdd
  <2> QED  BY <2>1, <2>2, <2>3
<1>4. CASE WebRate \/ WebRatio \/ WebNeed
  BY <1>4 DEF WebRate, WebRatio, WebNeed
<1> QED  BY <1>1, <1>2, <1>3, <1>4

-----------------------------------------------------------------------------
(* Clears. *)

LEMMA ResetsKeep ==
    ASSUME AInv, FmReset \/ WebReset
    PROVE  RingGood' /\ EnoughKnown' /\ RingIsQueue' /\ FillIsReal'
<1> USE DEF AInv, AudioTypes
<1>1. /\ demod.lock = "free" /\ demod'.lock # "free"
      /\ UNCHANGED ring /\ heard'.pending = heard.pending /\ heard'.enough = heard.enough
      /\ heard'.slipped = heard.slipped
  BY DEF FmReset, WebReset
<1>2. fm.pc \notin Clearing /\ page.pc \notin Clearing
  BY <1>1 DEF LockHeld
<1>3. EnoughKnown' /\ RingIsQueue' /\ FillIsReal'
  BY <1>1 DEF EnoughKnown, RingIsQueue, FillIsReal
<1>4. CASE FmReset
  <2>1. /\ fm'.pc = "clear" /\ page' = page
        /\ ~heard'.raced => page.pc # "playStore"
    BY <1>4 DEF FmReset
  <2>2. ClearedSoFar'
    BY <1>2, <2>1 DEF ClearedSoFar, Clearing
  <2>3. fm'.pc # "store"  /\ (~heard'.raced => page'.pc # "playStore")
    BY <2>1, <1>4
  <2> HIDE DEF AInv, AudioTypes
  <2> QED  BY <1>3, <2>2, <2>3 DEF RingGood
<1>5. CASE WebReset
  <2>1. /\ page'.pc = "clear" /\ fm' = fm
        /\ ~heard'.raced => fm.pc # "store"
    BY <1>5 DEF WebReset
  <2>2. ClearedSoFar'
    BY <1>2, <2>1 DEF ClearedSoFar, Clearing
  <2>3. page'.pc # "playStore"  /\ (~heard'.raced => fm'.pc # "store")
    BY <2>1
  <2> HIDE DEF AInv, AudioTypes
  <2> QED  BY <1>3, <2>2, <2>3 DEF RingGood
<1> QED  BY <1>3, <1>4, <1>5

\* A ring without samples.
LEMMA NothingTaken ==
    ASSUME NEW cells
    PROVE  Taken(cells, 0, Used(0, 0)) = << >>
<1>1. Used(0, 0) = 0
  BY ZeroIsCell, UsedIs
<1> QED  BY <1>1 DEF Taken

LEMMA ClearsKeep ==
    ASSUME AInv, FmClear \/ WebClear
    PROVE  RingGood' /\ EnoughKnown' /\ RingIsQueue' /\ FillIsReal'
<1> USE DEF AInv, AudioTypes
<1>1. PICK pc \in Clearing :
        /\ ring' = Cleared(pc) /\ pc \in {fm.pc, page.pc}
        /\ pc # "clearFill" => demod' = demod
        /\ heard'.pending = << >> /\ heard'.enough = FALSE /\ heard'.raced = heard.raced
  BY DEF FmClear, WebClear, Emptied
<1>2. demod.lock # "free"
  BY <1>1 DEF LockHeld
<1>3. EnoughKnown'
  BY <1>1, NoneIsSeq, AudioGiven DEF EnoughKnown
<1>4. ~heard.raced => ClearedSoFar /\ fm.pc # "store" /\ page.pc # "playStore"
  BY <1>2 DEF RingGood, Storing, Playing
<1>5. ASSUME ~heard.raced, demod'.lock = "free"
      PROVE  ring'.write = 0 /\ ring'.read = 0 /\ ~ring'.fill
  BY <1>1, <1>2, <1>4, <1>5 DEF Cleared, ClearedSoFar, Clearing
<1>6. RingIsQueue' /\ FillIsReal'
  BY <1>1, <1>5, NothingTaken DEF RingIsQueue, FillIsReal
<1>7. ASSUME ~heard.raced
      PROVE  ClearedSoFar' /\ fm'.pc # "store" /\ page'.pc # "playStore"
  <2>1. CASE FmClear
    <3>1. page.pc \notin Clearing /\ page' = page
      BY <2>1 DEF FmClear, LockHeld
    <3>2. CASE fm.pc = "clear"
      BY <1>4, <1>7, <2>1, <3>1, <3>2 DEF FmClear, NextClear, Cleared, ClearedSoFar, Clearing
    <3>3. CASE fm.pc = "clearRead"
      <4>1. ring.write = 0
        BY <1>4, <1>7, <3>3 DEF ClearedSoFar
      <4>2. ring' = [ring EXCEPT !.read = 0] /\ fm' = [fm EXCEPT !.pc = "clearFill"]
        BY <2>1, <3>3 DEF FmClear, NextClear, Cleared
      <4>3. ring'.write = 0 /\ ring'.read = 0 /\ fm'.pc = "clearFill"
        BY <4>1, <4>2
      <4> HIDE DEF AInv, AudioTypes
      <4> QED  BY <1>4, <1>7, <3>1, <4>3 DEF ClearedSoFar, Clearing
    <3>4. CASE fm.pc = "clearFill"
      BY <1>4, <1>7, <2>1, <3>1, <3>4 DEF FmClear, ClearedSoFar, Clearing
    <3> QED  BY <2>1, <3>2, <3>3, <3>4 DEF FmClear, Clearing
  <2>2. CASE WebClear
    <3>1. fm.pc \notin Clearing /\ fm' = fm
      BY <2>2 DEF WebClear, LockHeld
    <3>2. CASE page.pc = "clear"
      BY <1>4, <1>7, <2>2, <3>1, <3>2 DEF WebClear, NextClear, Cleared, ClearedSoFar, Clearing
    <3>3. CASE page.pc = "clearRead"
      <4>1. ring.write = 0
        BY <1>4, <1>7, <3>3 DEF ClearedSoFar
      <4>2. ring' = [ring EXCEPT !.read = 0] /\ page' = [page EXCEPT !.pc = "clearFill"]
        BY <2>2, <3>3 DEF WebClear, NextClear, Cleared
      <4>3. ring'.write = 0 /\ ring'.read = 0 /\ page'.pc = "clearFill"
        BY <4>1, <4>2
      <4> HIDE DEF AInv, AudioTypes
      <4> QED  BY <1>4, <1>7, <3>1, <4>3 DEF ClearedSoFar, Clearing
    <3>4. CASE page.pc = "clearFill"
      BY <1>4, <1>7, <2>2, <3>1, <3>4 DEF WebClear, ClearedSoFar, Clearing
    <3> QED  BY <2>2, <3>2, <3>3, <3>4 DEF WebClear, Clearing
  <2> QED  BY <2>1, <2>2
<1> QED  BY <1>1, <1>3, <1>6, <1>7 DEF RingGood

-----------------------------------------------------------------------------
(* Writes. *)

\* Without a clear in its way, what a step does is done to a ring in order.
LEMMA AddKeeps ==
    ASSUME AInv, FmAdd, demod.enabled
    PROVE  RingGood' /\ EnoughKnown' /\ RingIsQueue' /\ FillIsReal'
<1> DEFINE w == ring.write
           r == ring.read
           count == Lower(Block, Space(w, r))
<1>0. /\ w \in Cells /\ r \in Cells /\ ring.cells \in [Cells -> Int]
      /\ count \in Nat /\ count <= Space(w, r) /\ Space(w, r) \in Nat
  BY WriteCount, UsedIs, AudioGiven DEF AInv, AudioTypes
<1>1. /\ ring' = [ring EXCEPT !.cells = Filled(ring.cells, w, Samples(fm.item.n), count)]
      /\ fm' = [fm EXCEPT !.pc = "store", !.pos = (w + count) % RingSize, !.count = count]
      /\ heard' = [heard EXCEPT !.raced = @ \/ page.pc \in Clearing]
      /\ fm.pc = "add" /\ page' = page /\ demod' = demod
  BY DEF FmAdd
<1> HIDE DEF count
<1>2. /\ ring'.write = w /\ ring'.read = r /\ ring'.fill = ring.fill
      /\ ring'.cells = Filled(ring.cells, w, Samples(fm.item.n), count)
      /\ heard'.pending = heard.pending /\ heard'.enough = heard.enough
      /\ heard'.slipped = heard.slipped
      /\ heard'.raced = (heard.raced \/ page.pc \in Clearing)
      /\ fm'.pc = "store" /\ fm'.pos = (w + count) % RingSize /\ fm'.count = count
      /\ fm'.item = fm.item
  BY <1>1 DEF AInv, AudioTypes
<1>3. EnoughKnown' /\ (~heard'.raced => ~heard.raced /\ page.pc \notin Clearing)
  BY <1>2 DEF AInv, EnoughKnown
<1>4. ASSUME ~heard'.raced  PROVE demod.lock = "free"
  BY <1>1, <1>3, <1>4 DEF AInv, LockHeld, AudioTypes, Clearing
<1>5. \A k \in 1 .. Used(w, r) : ring'.cells[(r + k - 1) % RingSize] = ring.cells[(r + k - 1) % RingSize]
  <2> TAKE k \in 1 .. Used(w, r)
  <2>1. /\ (r + k - 1) % RingSize \in DOMAIN ring.cells
        /\ (((r + k - 1) % RingSize) - w) % RingSize > Space(w, r)
    BY <1>0, CellsOfWrite
  <2>2. Space(w, r) >= count
    BY <1>0
  <2>3. ~((((r + k - 1) % RingSize) - w) % RingSize < count)
    <3>1. PICK j \in Cells : j = (r + k - 1) % RingSize
      BY <1>0, CellsOfWrite
    <3>2. (j - w) % RingSize \in Nat
      BY <1>0, PlaceIs, AudioGiven
    <3> QED  BY <1>0, <2>1, <3>1, <3>2
  <2> QED  BY <1>2, <2>1, <2>3 DEF Filled
<1>6. \A i \in 1 .. count : ring'.cells[(w + i - 1) % RingSize] = Samples(fm.item.n)[i]
  <2> TAKE i \in 1 .. count
  <2>1. i \in 1 .. Space(w, r)
    BY <1>0
  <2>2. /\ (w + i - 1) % RingSize \in DOMAIN ring.cells
        /\ (((w + i - 1) % RingSize) - w) % RingSize = i - 1
    BY <1>0, <2>1, CellsOfWrite
  <2>3. i - 1 < count /\ (i - 1) + 1 = i
    BY <1>0
  <2> QED  BY <1>2, <2>2, <2>3 DEF Filled
<1>7. ASSUME ~heard'.raced  PROVE RingGood'
  <2>1. Storing'
    BY <1>0, <1>1, <1>2, <1>4, <1>6, <1>7 DEF Storing
  <2>2. page.pc = "playStore" => Playing'
    BY <1>1, <1>2, <1>3, <1>7 DEF AInv, RingGood, Playing, HeldNow
  <2>3. ClearedSoFar'
    BY <1>1, <1>2, <1>3, <1>7 DEF ClearedSoFar, Clearing
  <2> QED  BY <1>1, <2>1, <2>2, <2>3 DEF RingGood
<1>8. Taken(ring'.cells, r, Used(w, r)) = Taken(ring.cells, r, Used(w, r))
  BY <1>5 DEF Taken
<1>9. RingIsQueue'
  BY <1>1, <1>2, <1>3, <1>8 DEF AInv, RingIsQueue
<1>10. FillIsReal'
  BY <1>1, <1>2, <1>3 DEF AInv, FillIsReal
<1>11. heard'.raced => RingGood'
  BY DEF RingGood
<1> QED  BY <1>3, <1>7, <1>9, <1>10, <1>11

\* Two sequences are the same if they agree everywhere.
LEMMA SameSeq ==
    ASSUME NEW S, NEW s \in Seq(S), NEW n \in Nat, NEW f, f = [i \in 1 .. n |-> f[i]],
           Len(s) = n, \A i \in 1 .. n : f[i] = s[i]
    PROVE  f = s
<1>1. s = [i \in 1 .. n |-> s[i]]
  BY LenProperties
<1> QED  BY <1>1

LEMMA StoreKeeps ==
    ASSUME AInv, FmStore
    PROVE  RingGood' /\ EnoughKnown' /\ RingIsQueue' /\ FillIsReal'
<1> DEFINE w == ring.write
           r == ring.read
           c == fm.count
           u == Used(w, r)
           smp == Samples(fm.item.n)
           old == heard.pending
           new == old \o SubSeq(smp, 1, c)
<1>0. /\ w \in Cells /\ r \in Cells /\ ring.cells \in [Cells -> Int] /\ fm.pc = "store"
      /\ c \in 0 .. Block /\ c \in Nat /\ fm.item.n \in Nat /\ old \in Seq(Int) /\ u \in Nat
      /\ FillTarget \in Nat /\ fm.pos \in Cells /\ heard.enough \in BOOLEAN
  <2>1. /\ w \in Cells /\ r \in Cells /\ ring.cells \in [Cells -> Int] /\ fm.pc = "store"
        /\ c \in 0 .. Block /\ old \in Seq(Int) /\ fm.pos \in Cells /\ heard.enough \in BOOLEAN
        /\ fm.item \in AudioItems
    BY DEF AInv, AudioTypes, FmStore
  <2>2. u \in Nat
    BY <2>1, UsedIsNat
  <2>3. fm.item.n \in Nat /\ FillTarget \in Nat /\ c \in Nat
    BY <2>1, AudioGiven DEF AudioItems
  <2> QED  BY <2>1, <2>2, <2>3
<1>1. /\ smp \in Seq(Int) /\ Len(smp) = Block /\ SubSeq(smp, 1, c) \in Seq(Int)
      /\ Len(SubSeq(smp, 1, c)) = c /\ \A i \in 1 .. c : SubSeq(smp, 1, c)[i] = smp[i]
  <2>1. smp \in Seq(Int) /\ Len(smp) = Block
    BY <1>0, SamplesAre
  <2> HIDE DEF smp
  <2>2. c \in 0 .. Len(smp)
    BY <1>0, <2>1
  <2> QED  BY <2>1, <2>2, FrontPart
<1>2. /\ new \in Seq(Int) /\ Len(new) = Len(old) + c
      /\ \A i \in 1 .. Len(old) : new[i] = old[i]
      /\ \A i \in 1 .. c : new[Len(old) + i] = smp[i]
  <2>1. /\ Len(old) \in Nat /\ new \in Seq(Int) /\ Len(new) = Len(old) + c
        /\ \A i \in 1 .. Len(new) : new[i] = IF i <= Len(old) THEN old[i] ELSE SubSeq(smp, 1, c)[i - Len(old)]
    <3> HIDE DEF smp
    <3>1. PICK part \in Seq(Int) : part = SubSeq(smp, 1, c)
      BY <1>1
    <3> QED  BY <1>0, <1>1, <3>1, ConcatProperties, LenProperties
  <2>2. ASSUME NEW i \in 1 .. c  PROVE new[Len(old) + i] = smp[i]
    <3>1. Len(old) + i \in 1 .. Len(new) /\ ~(Len(old) + i <= Len(old)) /\ (Len(old) + i) - Len(old) = i
      BY <1>0, <2>1
    <3> QED  BY <1>1, <2>1, <3>1
  <2>3. ASSUME NEW i \in 1 .. Len(old)  PROVE new[i] = old[i]
    <3>1. i \in 1 .. Len(new) /\ i <= Len(old)
      BY <1>0, <2>1
    <3> QED  BY <2>1, <3>1
  <2> QED  BY <2>1, <2>2, <2>3
<1>3. /\ ring'.write = fm.pos /\ ring'.read = r /\ ring'.fill = ring.fill /\ ring'.cells = ring.cells
      /\ fm'.pc = "fill" /\ page' = page /\ demod' = demod
      /\ heard'.pending = new /\ heard'.raced = heard.raced
      /\ heard'.slipped = heard.slipped
      /\ heard'.enough = (heard.enough \/ Len(old) + c >= FillTarget)
  BY DEF FmStore, AInv, AudioTypes
<1> HIDE DEF new
<1>4. EnoughKnown'
  BY <1>0, <1>2, <1>3 DEF EnoughKnown
<1>5. ASSUME ~heard.raced  PROVE RingGood' /\ RingIsQueue' /\ FillIsReal'
  <2>1. /\ Storing /\ ClearedSoFar /\ demod.lock = "free" /\ Taken(ring.cells, r, u) = old
        /\ ring.fill /\ ~heard.slipped => heard.enough
    BY <1>0, <1>5 DEF AInv, RingGood, RingIsQueue, FillIsReal, Storing
  <2>2. /\ c <= Space(w, r) /\ fm.pos = (w + c) % RingSize
        /\ \A i \in 1 .. c : ring.cells[(w + i - 1) % RingSize] = smp[i]
    BY <2>1 DEF Storing
  <2>3. Used(fm.pos, r) = u + c
    BY <1>0, <2>2, AfterWrite
  <2>4. Len(old) = u /\ \A i \in 1 .. u : old[i] = ring.cells[(r + i - 1) % RingSize]
    BY <1>0, <2>1 DEF Taken
  <2>5. ASSUME NEW i \in 1 .. u + c  PROVE ring.cells[(r + i - 1) % RingSize] = new[i]
    <3>1. CASE i <= u
      BY <1>2, <2>4, <3>1, <1>0
    <3>2. CASE ~(i <= u)
      <4>1. PICK k \in 1 .. c : i = u + k
        <5>1. i - u \in 1 .. c /\ i = u + (i - u)
          BY <1>0, <3>2
        <5> QED  BY <5>1
      <4>2. PICK s \in Nat : s = Space(w, r) /\ k \in 1 .. s
        <5>1. Space(w, r) \in Nat
          BY <1>0, UsedIsNat
        <5> QED  BY <1>0, <2>2, <4>1, <5>1
      <4>3. (r + i - 1) % RingSize = (w + k - 1) % RingSize
        BY <1>0, <4>1, <4>2, CellsOfWrite
      <4> QED  BY <1>2, <2>2, <2>4, <4>1, <4>3
    <3> QED  BY <3>1, <3>2
  <2>6. Taken(ring.cells, r, u + c) = new
    <3>1. u + c \in Nat /\ Len(new) = u + c
      BY <1>0, <1>2, <2>4
    <3>2. \A i \in 1 .. u + c : Taken(ring.cells, r, u + c)[i] = new[i]
      BY <2>5 DEF Taken
    <3>3. Taken(ring.cells, r, u + c) = [i \in 1 .. u + c |-> Taken(ring.cells, r, u + c)[i]]
      BY DEF Taken
    <3> QED  BY <1>2, <3>1, <3>2, <3>3, SameSeq
  <2>7. RingIsQueue'
    BY <1>3, <2>3, <2>6 DEF RingIsQueue
  <2>8. FillIsReal'
    BY <1>3, <2>1 DEF FillIsReal
  <2>9. page.pc = "playStore" => Playing'
    <3>1. page.pc = "playStore" => page.pos = r /\ page.count <= u /\ page.count \in Nat
      BY <1>5 DEF AInv, AudioTypes, RingGood, Playing, HeldNow
    <3> QED  BY <1>0, <1>3, <2>1, <2>3, <3>1 DEF Playing, HeldNow
  <2>10. ClearedSoFar'
    BY <1>3, <2>1 DEF AInv, LockHeld, ClearedSoFar, Clearing
  <2> QED  BY <1>3, <2>7, <2>8, <2>9, <2>10 DEF RingGood
<1>6. heard.raced => RingGood' /\ RingIsQueue' /\ FillIsReal'
  BY <1>3 DEF RingGood, RingIsQueue, FillIsReal
<1> QED  BY <1>4, <1>5, <1>6

LEMMA FillKeeps ==
    ASSUME AInv, FmFill \/ FmComplete
    PROVE  RingGood' /\ EnoughKnown' /\ RingIsQueue' /\ FillIsReal'
<1>1. /\ ring'.write = ring.write /\ ring'.read = ring.read /\ ring'.cells = ring.cells
      /\ ring' = ring \/ fm.pc = "complete"
      /\ fm.pc \in {"fill", "complete"} /\ fm'.pc \in {"top", "complete"}
      /\ UNCHANGED <<page, demod, heard>>
  BY DEF FmFill, FmComplete, AInv, AudioTypes
<1>2. EnoughKnown' /\ RingIsQueue'
  BY <1>1 DEF AInv, EnoughKnown, RingIsQueue
<1>3. FillIsReal'
  <2>1. demod.lock = "free" => page.pc \notin Clearing
    BY DEF AInv, LockHeld
  <2> QED  BY <1>1, <2>1 DEF AInv, FillIsReal, FillKnown
<1>4. RingGood'
  BY <1>1 DEF AInv, RingGood, Playing, HeldNow, ClearedSoFar
<1> QED  BY <1>2, <1>3, <1>4

\* What the look at the ring is worth by the time the flag is set.
LEMMA LookKept ==
    ASSUME AInv, AudioNext
    PROVE  FillKnown'
<1> SUFFICES ASSUME fm'.pc = "complete", ~heard'.raced
             PROVE  heard'.enough \/ heard'.slipped \/ page'.pc \in Clearing
  BY DEF FillKnown
<1> USE DEF AInv
<1>1. CASE FmStep
  <2>1. FmFill
    <3>0. DOMAIN fm = DOMAIN [fm EXCEPT !.pc = "top"] /\ "pc" \in DOMAIN fm
      BY DEF AudioTypes
    <3>1. CASE FmTop \/ FmTimeout \/ FmTake \/ FmReset \/ FmAge \/ FmRate \/ FmRatio \/ FmNeed
      BY <3>0, <3>1 DEF FmTop, FmTimeout, FmTake, FmReset, FmAge, FmRate, FmRatio, FmNeed
    <3>2. CASE FmFilters \/ FmRecreate \/ FmDemod \/ FmAdd \/ FmStore \/ FmComplete
      BY <3>0, <3>2 DEF FmFilters, FmRecreate, FmDemod, FmAdd, FmStore, FmComplete
    <3>3. CASE FmClear
      BY <3>0, <3>3 DEF FmClear, NextClear, Clearing
    <3> QED  BY <1>1, <3>1, <3>2, <3>3 DEF FmStep
  <2>4. fm.pc = "fill" /\ HeldNow >= FillTarget /\ heard' = heard /\ page' = page
    BY <2>1 DEF FmFill, HeldNow, AudioTypes
  <2>2. CASE demod.lock = "free"
    <3>1. HeldNow \in Nat /\ heard.pending \in Seq(Int)
      BY UsedIs, AudioGiven DEF AudioTypes, HeldNow
    <3>2. Len(heard.pending) = HeldNow
      BY <2>2, <2>4, <3>1 DEF RingIsQueue, Taken, HeldNow
    <3> QED  BY <2>4, <3>2 DEF EnoughKnown
  <2>3. CASE demod.lock # "free"
    BY <2>3, <2>4 DEF AudioTypes, LockHeld, Clearing
  <2> QED  BY <2>2, <2>3
<1>2. CASE WebClear
  <2>1. CASE page.pc = "clearFill"
    BY <1>2, <2>1 DEF AudioTypes, WebClear, Emptied
  <2>2. CASE page.pc # "clearFill"
    BY <1>2, <2>2 DEF AudioTypes, WebClear, NextClear, Clearing
  <2> QED  BY <2>1, <2>2
<1>3. CASE \/ Launch \/ Enqueue \/ Age \/ Play \/ WebCommand \/ WebReset \/ PlayStore
           \/ WebRate \/ WebRatio \/ WebNeed
  <2>1. /\ fm' = fm /\ heard'.enough = heard.enough /\ heard'.slipped = heard.slipped
        /\ ~heard.raced
    BY <1>3, CommandsAside DEF AudioTypes, Launch, Enqueue, Age, Play, WebReset, PlayStore, WebRate,
                               WebRatio, WebNeed
  <2>2. page' = page \/ page.pc \notin Clearing
    BY <1>3, CommandsAside DEF Launch, Enqueue, Age, Play, WebReset, PlayStore, WebRate, WebRatio,
                               WebNeed, Clearing
  <2> QED  BY <2>1, <2>2 DEF FillKnown
<1> QED  BY <1>1, <1>2, <1>3 DEF AudioNext, WebStep

-----------------------------------------------------------------------------
(* Reads. *)

LEMMA PlayKeeps ==
    ASSUME AInv, Play
    PROVE  RingGood' /\ EnoughKnown' /\ RingIsQueue' /\ FillIsReal'
<1> DEFINE count == Lower(PacketSize, Used(ring.write, ring.read))
<1>0. count <= HeldNow
  BY ReadCount DEF AInv, AudioTypes, HeldNow
<1>1. /\ page' = [page EXCEPT !.pc = "playStore", !.pos = ring.read, !.count = count]
      /\ heard' = [heard EXCEPT !.raced = @ \/ fm.pc \in Clearing]
      /\ page.pc = "idle" /\ UNCHANGED <<ring, fm, demod>>
  BY DEF Play
<1> HIDE DEF count
<1>2. /\ page'.pc = "playStore" /\ page'.pos = ring.read /\ page'.count = count
      /\ heard'.pending = heard.pending /\ heard'.enough = heard.enough
      /\ heard'.slipped = heard.slipped
      /\ ~heard'.raced => ~heard.raced /\ fm.pc \notin Clearing
  BY <1>1 DEF AInv, AudioTypes
<1>3. EnoughKnown' /\ RingIsQueue' /\ FillIsReal'
  BY <1>1, <1>2 DEF AInv, EnoughKnown, RingIsQueue, FillIsReal
<1>4. ASSUME ~heard'.raced  PROVE RingGood'
  <2>1. demod.lock = "free"
    BY <1>1, <1>2, <1>4 DEF AInv, LockHeld, AudioTypes, Clearing
  <2>2. fm.pc = "store" => Storing'
    BY <1>1, <1>2, <1>4 DEF AInv, RingGood, Storing
  <2>3. Playing'
    BY <1>0, <1>1, <1>2, <2>1 DEF Playing, HeldNow
  <2>4. ClearedSoFar'
    BY <1>1, <1>2, <1>4 DEF ClearedSoFar, Clearing
  <2> QED  BY <1>1, <2>2, <2>3, <2>4 DEF RingGood
<1>5. heard'.raced => RingGood'
  BY DEF RingGood
<1> QED  BY <1>3, <1>4, <1>5

\* c places on, and then i.
LEMMA OnAndOn ==
    ASSUME NEW r \in Cells, NEW c \in Nat, NEW i \in Nat \ {0}, c + i <= RingSize
    PROVE  (((r + c) % RingSize) + i - 1) % RingSize = (r + (c + i) - 1) % RingSize
<1>1. /\ c \in 0 .. RingSize /\ i - 1 \in 0 .. RingSize /\ c + i - 1 \in 0 .. RingSize
      /\ RingSize \in Nat \ {0} /\ r \in Int
  BY AudioGiven DEF Cells
<1>2. PICK v \in Cells : /\ v = (r + c) % RingSize
                         /\ v = (IF r + c < RingSize THEN r + c ELSE r + c - RingSize)
  BY <1>1, OnIs
<1>3. (v + (i - 1)) % RingSize
         = (IF v + (i - 1) < RingSize THEN v + (i - 1) ELSE v + (i - 1) - RingSize)
  BY <1>1, OnIs
<1>4. (r + (c + i - 1)) % RingSize
         = (IF r + (c + i - 1) < RingSize THEN r + (c + i - 1) ELSE r + (c + i - 1) - RingSize)
  BY <1>1, OnIs
<1>5. (IF v + (i - 1) < RingSize THEN v + (i - 1) ELSE v + (i - 1) - RingSize)
         = (IF r + (c + i - 1) < RingSize THEN r + (c + i - 1) ELSE r + (c + i - 1) - RingSize)
  BY <1>1, <1>2 DEF Cells
<1>6. v + i - 1 = v + (i - 1) /\ r + (c + i) - 1 = r + (c + i - 1)
  BY <1>1, <1>2 DEF Cells
<1> QED  BY <1>2, <1>3, <1>4, <1>5, <1>6

LEMMA PlayStoreKeeps ==
    ASSUME AInv, PlayStore
    PROVE  RingGood' /\ EnoughKnown' /\ RingIsQueue' /\ FillIsReal'
<1> DEFINE w == ring.write
           r == ring.read
           c == page.count
           u == Used(w, r)
           old == heard.pending
           new == SubSeq(old, c + 1, Len(old))
<1>0. /\ w \in Cells /\ r \in Cells /\ ring.cells \in [Cells -> Int] /\ page.pc = "playStore"
      /\ c \in Nat /\ old \in Seq(Int) /\ u \in Nat /\ u < RingSize
      /\ FillTarget \in Nat /\ RingSize \in Nat /\ fm.count \in Nat
  <2>1. /\ w \in Cells /\ r \in Cells /\ ring.cells \in [Cells -> Int] /\ page.pc = "playStore"
        /\ c \in Nat /\ old \in Seq(Int) /\ fm.count \in 0 .. Block
    BY DEF AInv, AudioTypes, PlayStore
  <2>2. u \in Nat
    BY <2>1, UsedIsNat
  <2>3. PICK x \in 0 .. RingSize - 1 : u = x
    BY <2>1, UsedIs
  <2> QED  BY <2>1, <2>2, <2>3, AudioGiven
<1>1. /\ ring'.write = w /\ ring'.read = (page.pos + c) % RingSize /\ ring'.fill = ring.fill
      /\ ring'.cells = ring.cells /\ page'.pc = "idle" /\ fm' = fm /\ demod' = demod
      /\ heard'.pending = new /\ heard'.raced = heard.raced /\ heard'.enough = heard.enough
      /\ heard'.slipped = heard.slipped
  BY DEF PlayStore, AInv, AudioTypes
<1>2. /\ new \in Seq(Int) /\ Len(new) = (IF c <= Len(old) THEN Len(old) - c ELSE 0)
      /\ \A i \in 1 .. (Len(old) - c) : new[i] = old[i + c]
  BY <1>0, Rest
<1> HIDE DEF new
<1>3. EnoughKnown'
  <2>1. Len(old) \in Nat /\ FillTarget \in Nat \ {0}
    BY <1>0, AudioGiven, LenProperties
  <2>2. Len(new) >= FillTarget => Len(old) >= FillTarget
    BY <1>0, <1>2, <2>1
  <2> QED  BY <1>1, <2>2 DEF AInv, EnoughKnown
<1>4. ASSUME ~heard.raced  PROVE RingGood' /\ RingIsQueue' /\ FillIsReal'
  <2>1. /\ Playing /\ ClearedSoFar /\ demod.lock = "free" /\ Taken(ring.cells, r, u) = old
        /\ ring.fill /\ ~heard.slipped => heard.enough
    BY <1>0, <1>4 DEF AInv, RingGood, RingIsQueue, FillIsReal, Playing
  <2>2. page.pos = r /\ c <= u
    BY <2>1 DEF Playing, HeldNow
  <2> DEFINE v == (r + c) % RingSize
  <2>3. v \in Cells /\ Used(w, v) = u - c
    BY <1>0, <2>2, AfterRead
  <2>4. Len(old) = u /\ \A i \in 1 .. u : old[i] = ring.cells[(r + i - 1) % RingSize]
    BY <1>0, <2>1 DEF Taken
  <2>5. ASSUME NEW i \in 1 .. u - c
        PROVE  ring.cells[(v + i - 1) % RingSize] = new[i]
    <3>1. c + i \in 1 .. u /\ c + i <= RingSize /\ i \in Nat \ {0} /\ i + c = c + i
      BY <1>0
    <3>2. (v + i - 1) % RingSize = (r + (c + i) - 1) % RingSize
      BY <1>0, <3>1, OnAndOn
    <3>3. new[i] = old[c + i]
      BY <1>2, <2>4, <3>1
    <3> QED  BY <2>4, <3>1, <3>2, <3>3
  <2>6. Taken(ring.cells, v, u - c) = new
    <3>1. u - c \in Nat /\ Len(new) = u - c
      BY <1>0, <1>2, <2>2, <2>4
    <3>2. \A i \in 1 .. u - c : Taken(ring.cells, v, u - c)[i] = new[i]
      BY <2>5 DEF Taken
    <3>3. Taken(ring.cells, v, u - c) = [i \in 1 .. u - c |-> Taken(ring.cells, v, u - c)[i]]
      BY DEF Taken
    <3> HIDE DEF v
    <3> QED  BY <1>2, <3>1, <3>2, <3>3, SameSeq
  <2>7. RingIsQueue'
    BY <1>1, <2>2, <2>3, <2>6 DEF RingIsQueue
  <2>8. FillIsReal'
    BY <1>1, <2>1 DEF FillIsReal
  <2>9. fm.pc = "store" => Storing'
    <3>1. PICK s1 \in Nat, s2 \in Nat : /\ s1 = Space(w, r) /\ s1 = RingSize - 1 - u
                                        /\ s2 = Space(w, v) /\ s2 = RingSize - 1 - (u - c)
      <4> HIDE DEF v
      <4>1. Space(w, r) \in Nat /\ Space(w, v) \in Nat
        BY <1>0, <2>3, UsedIsNat
      <4>2. Space(w, r) = RingSize - 1 - u /\ Space(w, v) = RingSize - 1 - Used(w, v)
        BY <1>0, <2>3, UsedIs
      <4> QED  BY <2>3, <4>1, <4>2
    <3>2. s1 <= s2
      BY <1>0, <3>1
    <3>3. fm.pc = "store" => Storing /\ fm.count <= s2
      BY <1>0, <1>4, <3>1, <3>2 DEF AInv, RingGood, Storing
    <3> QED  BY <1>1, <2>2, <3>1, <3>3 DEF Storing
  <2>10. ClearedSoFar'
    BY <1>1, <2>1 DEF AInv, LockHeld, ClearedSoFar, Clearing
  <2> QED  BY <1>1, <2>7, <2>8, <2>9, <2>10 DEF RingGood
<1>5. heard.raced => RingGood' /\ RingIsQueue' /\ FillIsReal'
  BY <1>1 DEF RingGood, RingIsQueue, FillIsReal
<1> QED  BY <1>3, <1>4, <1>5

-----------------------------------------------------------------------------
(* The filters. *)

LEMMA FiltersKept ==
    ASSUME AudioTypes, FilterIsCurrent, AudioNext
    PROVE  FilterIsCurrent'
<1> USE DEF AudioTypes, FilterIsCurrent
<1>1. CASE demod' = demod /\ fm'.pc = fm.pc /\ page'.pc = page.pc
  BY <1>1
<1>2. CASE FmStep
  <2>1. page' = page
    BY <1>2 DEF FmStep, FmTop, FmTimeout, FmTake, FmReset, FmAge, FmRate, FmRatio, FmNeed, FmFilters,
                FmRecreate, FmDemod, FmAdd, FmStore, FmFill, FmComplete, FmClear
  <2>2. CASE FmRate
    BY <2>1, <2>2 DEF FmRate
  <2>3. CASE FmRatio \/ FmNeed
    BY <2>1, <2>3 DEF FmRatio, FmNeed
  <2>4. CASE FmFilters
    BY <2>1, <2>4 DEF FmFilters
  <2>5. CASE FmRecreate
    BY <2>1, <2>5 DEF FmRecreate, Designed
  <2>6. CASE FmStep /\ ~(FmRate \/ FmRatio \/ FmNeed \/ FmFilters \/ FmRecreate)
    <3>1. /\ demod'.need = demod.need /\ demod'.rate = demod.rate /\ demod'.ratio = demod.ratio
          /\ demod'.filters = demod.filters
      BY <2>6 DEF FmStep, FmTop, FmTimeout, FmTake, FmReset, FmAge, FmDemod, FmAdd, FmStore, FmFill,
                  FmComplete, FmClear, Unlocked
    <3>2. fm.pc \notin {"ratio", "need", "recreate"}
      BY <2>6 DEF FmStep, FmTop, FmTimeout, FmTake, FmReset, FmAge, FmDemod, FmAdd, FmStore, FmFill,
                  FmComplete, FmClear, Clearing
    <3> QED  BY <2>1, <3>1, <3>2
  <2> QED  BY <1>2, <2>2, <2>3, <2>4, <2>5, <2>6
<1>3. CASE WebStep
  <2>1. CASE WebReset \/ WebClear
    <3>1. /\ demod'.need = demod.need /\ demod'.rate = demod.rate /\ demod'.ratio = demod.ratio
          /\ demod'.filters = demod.filters /\ fm' = fm
      BY <2>1 DEF WebReset, WebClear, Unlocked
    <3>2. page.pc \notin {"ratio", "need"}
      BY <2>1 DEF WebReset, WebClear, Clearing
    <3> QED  BY <3>1, <3>2
  <2>2. CASE PlayStore
    BY <2>2 DEF PlayStore
  <2>3. CASE WebRate
    BY <2>3 DEF WebRate
  <2>4. CASE WebRatio \/ WebNeed
    BY <2>4 DEF WebRatio, WebNeed
  <2> QED  BY <1>3, <2>1, <2>2, <2>3, <2>4 DEF WebStep
<1>4. CASE Play
  BY <1>4 DEF Play
<1>5. CASE WebCommand
  <2>1. page.pc = "idle" /\ fm' = fm
    BY <1>5, CommandsAside
  <2>2. /\ demod'.need = demod.need \/ demod'.need
        /\ demod'.rate = demod.rate /\ demod'.ratio = demod.ratio /\ demod'.filters = demod.filters
    BY <1>5 DEF WebCommand, FmOn, FmSwitchOff, ResetAudio, SetSource, SetAllRates, SetMode,
           SetRate, AddDecimator, RemoveDecimator
  <2> QED  BY <2>1, <2>2
<1> QED  BY <1>1, <1>2, <1>3, <1>4, <1>5 DEF AudioNext, Launch, Enqueue, Age

-----------------------------------------------------------------------------
(* The invariant. *)

LEMMA AInvInit ==
    ASSUME AudioInit
    PROVE  AInv
<1>1. AudioTypes
  BY InitTypes
<1>2. LockHeld /\ RingGood /\ FillIsReal /\ FilterIsCurrent
  BY DEF AudioInit, LockHeld, RingGood, ClearedSoFar, FillIsReal, FilterIsCurrent, Clearing
<1>5. FillKnown
  BY DEF AudioInit, FillKnown
<1>3. EnoughKnown
  BY NoneIsSeq, AudioGiven DEF AudioInit, EnoughKnown
<1>4. RingIsQueue
  BY NothingTaken DEF AudioInit, RingIsQueue
<1> QED  BY <1>1, <1>2, <1>3, <1>4, <1>5 DEF AInv

LEMMA AInvNext ==
    ASSUME AInv, [AudioNext]_audioVars
    PROVE  AInv'
<1>1. CASE UNCHANGED audioVars
  BY <1>1 DEF audioVars, AInv, AudioTypes, Existing, LockHeld, RingGood, Storing, Playing, HeldNow,
              ClearedSoFar, EnoughKnown, FillKnown, RingIsQueue, FillIsReal, FilterIsCurrent
<1>2. CASE AudioNext
  <2>1. AudioTypes'
    BY <1>2, FmTypes, WebTypes, CommandTypes, SourceTypes DEF AInv, AudioNext
  <2>2. LockHeld' /\ FilterIsCurrent' /\ FillKnown'
    BY <1>2, LockKept, FiltersKept, LookKept DEF AInv
  <2>3. RingGood' /\ EnoughKnown' /\ RingIsQueue' /\ FillIsReal'
    <3>1. CASE Aside
      BY <3>1, AsideKeeps
    <3>2. CASE FmReset \/ WebReset
      BY <3>2, ResetsKeep
    <3>3. CASE FmClear \/ WebClear
      BY <3>3, ClearsKeep
    <3>4. CASE FmAdd /\ demod.enabled
      BY <3>4, AddKeeps
    <3>5. CASE FmStore
      BY <3>5, StoreKeeps
    <3>6. CASE FmFill \/ FmComplete
      BY <3>6, FillKeeps
    <3>7. CASE Play
      BY <3>7, PlayKeeps
    <3>8. CASE PlayStore
      BY <3>8, PlayStoreKeeps
    <3>9. AudioTypes
      BY DEF AInv
    <3>10. CASE FmStep
      <4>1. CASE \/ FmTop \/ FmTimeout \/ FmTake \/ FmAge \/ FmRate \/ FmRatio \/ FmNeed
                 \/ FmFilters \/ FmRecreate \/ FmDemod
        <5>1. Aside
          BY <3>9, <4>1, StepsAside
        <5> QED  BY <3>1, <5>1
      <4>2. CASE FmAdd
        <5>1. demod.enabled \/ Aside
          BY <3>9, <4>2, StepsAside
        <5> QED  BY <3>1, <3>4, <4>2, <5>1
      <4>3. CASE FmReset \/ FmClear \/ FmStore \/ FmFill \/ FmComplete
        BY <3>2, <3>3, <3>5, <3>6, <4>3
      <4> QED  BY <3>10, <4>1, <4>2, <4>3 DEF FmStep
    <3>11. CASE WebStep
      <4>1. CASE WebRate \/ WebRatio \/ WebNeed
        <5>1. Aside
          BY <3>9, <4>1, StepsAside
        <5> QED  BY <3>1, <5>1
      <4> QED  BY <3>2, <3>3, <3>8, <3>11, <4>1 DEF WebStep
    <3>12. CASE Launch \/ Enqueue \/ Age \/ WebCommand
      <4>1. Aside
        BY <3>9, <3>12, StepsAside
      <4> QED  BY <3>1, <4>1
    <3> QED  BY <1>2, <3>7, <3>10, <3>11, <3>12 DEF AudioNext
  <2> QED  BY <2>1, <2>2, <2>3 DEF AInv
<1> QED  BY <1>1, <1>2

\* The inductive invariant holds.
THEOREM AudioInvariant == AudioSpec => []AInv
BY AInvInit, AInvNext, PTL DEF AudioSpec

\* The lock is held by the thread that clears, the ring is a queue unless a
\* clear has overlapped a read or a write; unless one has, or the last one came
\* between the look at the ring and the flag, the fill is real; and the filters
\* are of the rate set or due.
THEOREM AudioCorrect == AudioSpec => []AudioSound
<1>1. AInv => AudioSound
  BY DEF AInv, AudioSound, AudioTypes, AudioTypeOK, LockHeld, SomeRates, Cells
<1> QED  BY <1>1, AudioInvariant, PTL

\* Whoever takes a decimator away leaves the audio a source that is there.
THEOREM SourceKept == AudioSpec => SourceOutlives
<1>1. ASSUME AInv, [AudioNext]_audioVars
      PROVE  [decs[source] # Absent /\ (\E i \in Ids : decs[i] # Absent /\ decs'[i] = Absent)
                 => decs'[source'] # Absent]_audioVars
  <2> SUFFICES ASSUME decs[source] # Absent, NEW i \in Ids, decs[i] # Absent, decs'[i] = Absent
               PROVE  decs'[source'] # Absent
    OBVIOUS
  <2> USE DEF AInv, AudioTypes
  <2>0. Absent \notin Rates
    BY AudioGiven
  <2>1. decs' # decs
    OBVIOUS
  <2>2. WebCommand
    BY <1>1, <2>1 DEF audioVars, AudioNext, Launch, Enqueue, Age, Play, WebStep, WebReset, WebClear,
        PlayStore, WebRate, WebRatio, WebNeed, FmStep, FmTop, FmTimeout, FmTake, FmReset, FmAge,
        FmRate, FmRatio, FmNeed, FmFilters, FmRecreate, FmDemod, FmAdd, FmStore, FmFill, FmComplete, FmClear
  <2>3. CASE RemoveDecimator
    <3>1. PICK id \in Existing : /\ source' \in SourceWithout(id, source)
                                 /\ decs' = [decs EXCEPT ![id] = Absent]
      BY <2>3 DEF RemoveDecimator
    <3>2. source' \in Existing \ {id}
      <4>1. CASE source = id
        BY <3>1, <4>1 DEF SourceWithout
      <4>2. CASE source # id
        <5>1. source' = source
          BY <3>1, <4>2 DEF SourceWithout
        <5>2. source \in Existing
          BY <1>1 DEF Existing
        <5> HIDE DEF AInv, AudioTypes
        <5> QED  BY <4>2, <5>1, <5>2
      <4> QED  BY <4>1, <4>2
    <3> QED  BY <3>1, <3>2 DEF Existing
  <2>4. CASE AddDecimator
    BY <2>4 DEF AddDecimator, Existing
  <2>5. CASE SetAllRates
    BY <2>0, <2>5 DEF SetAllRates
  <2>6. CASE SetMode
    <3>1. PICK r \in Rates : decs' = decs \/ decs' = [decs EXCEPT ![source] = r]
      BY <2>6 DEF SetMode
    <3>2. r # Absent /\ (decs'[i] = decs[i] \/ decs'[i] = r)
      <4>1. i \in Ids /\ decs \in [Ids -> SomeRates] /\ r # Absent
        BY <1>1, <2>0
      <4> HIDE DEF AInv, AudioTypes
      <4> QED  BY <3>1, <4>1
    <3> QED  BY <2>0, <3>2
  <2>7. CASE SetRate
    BY <2>0, <2>7 DEF SetRate
  <2> QED  BY <2>1, <2>2, <2>3, <2>4, <2>5, <2>6, <2>7
           DEF WebCommand, FmOn, FmSwitchOff, ResetAudio, SetSource
<1>2. AudioSpec => [][AudioNext]_audioVars
  BY PTL DEF AudioSpec
<1> QED  BY <1>1, <1>2, AudioInvariant, PTL DEF SourceOutlives

=============================================================================
