--------------------------- MODULE SettingsProofs ----------------------------
(***************************************************************************)
(* The settings for any commands of the browsers, any number of VFOs and   *)
(* any number of faults and restarts.                                      *)
(*                                                                         *)
(* The first argument is about who knows that the file is behind the       *)
(* store: the flag, a thread between the store and the flag, a reset       *)
(* between the store and its write, the saver, or the writer, whose        *)
(* version is then the one in the store.                                   *)
(*                                                                         *)
(* The second is about how far a command and a replay have come: the       *)
(* settings in force, the store, the browsers and heimdall differ by what  *)
(* the one thread in a command has yet to do.                              *)
(***************************************************************************)
EXTENDS Settings, SequenceTheorems, FiniteSetTheorems, NaturalsInduction,
        WellFoundedInduction, TLAPS

-----------------------------------------------------------------------------
(* The parts of the inductive invariant SaverInv.                            *)

\* The VFOs, of which no two have one identifier.
VfoSet == [id : 0..(MaxVfos - 1), offset : Nat]

Distinct(v) == \A i, j \in 1..Len(v) : v[i].id = v[j].id => i = j

AllKeys == Keys \cup VfoCommands \cup {"wideband", "malformed", "reset", "none"}

CommandSet == UNION {[key : {k}, val : Values(k)] : k \in AllKeys}

\* The commands heimdall is sent.
TunerSet == [key : {"frequency"}, val : Frequencies] \cup [key : {"mixer_side"}, val : DOMAIN Reach]

\* What the store and a version of the file hold.
StoreSet == {s \in [Keys -> UNION {Values(k) : k \in Keys}] : \A k \in Keys : s[k] \in Values(k)}

\* A file holds some of the settings.
IsFile(f) == DOMAIN f \subseteq Keys /\ \A k \in DOMAIN f : f[k] \in Values(k)

LiveSet ==
    [fm : BOOLEAN, doa : BOOLEAN, beamforming : BOOLEAN,
     frequency : Frequencies, mixer_side : DOMAIN Reach, ring : Frequencies,
     topology : Values("topology"), wbTopology : BOOLEAN, radius : Nat, custom : Nat,
     edge_clip : 0..1, ui : Nat, vfos : Seq(VfoSet), fmId : Nat,
     wideband : BOOLEAN, doaBefore : BOOLEAN]

LiveTypes(l) ==
    /\ l \in LiveSet
    /\ Len(l.vfos) \in 1..MaxVfos /\ Distinct(l.vfos)

Stages == {"idle", "impl", "send", "side", "record", "mark", "end",
           "reset", "clean", "write", "written"}

ThreadSet == [pc : Stages, role : {"user", "replay"}, todo : Seq(CommandSet),
              c : CommandSet, out : Seq(TunerSet)]

\* The command of a thread that sends, and what it is about to send.
InBranch(r) ==
    /\ r.pc = "send" => /\ r.out # << >> /\ (r.out[1].key = "frequency" => r.c.key = "frequency")
                        /\ r.c.key \in {"frequency", "mixer_side"}
    /\ r.pc = "side" => r.c.key = "frequency"

ThreadTypes(h) == h \in [Threads -> ThreadSet] /\ \A t \in Threads : InBranch(h[t])

SeenSet == [crossed : BOOLEAN, pristine : BOOLEAN, failed : BOOLEAN, asked : Frequencies \cup {9},
            short : BOOLEAN]

LeftSet == [offers : SUBSET CommandSet, commands : Nat, faults : Nat, disk : Nat, restarts : Nat,
            events : Nat, late : BOOLEAN]

Types ==
    /\ LiveTypes(live)
    /\ DOMAIN synced \subseteq Replayed
    /\ store \in StoreSet
    /\ dirty \in BOOLEAN /\ replaying \in BOOLEAN
    /\ ThreadTypes(thr)
    /\ saver \in {"sleep", "write", "joined", "final", "ended"}
    /\ writer \in [who : {"nobody", "saver", "web"}, pc : {"free", "fill", "rename"}, snap : StoreSet]
    /\ IsFile(file) /\ IsFile(tmp)
    /\ phase \in {"down", "up", "stopping"}
    /\ pipe \in Seq(TunerSet)
    /\ heim \in [frequency : Frequencies, mixer_side : DOMAIN Reach]
    /\ left \in LeftSet /\ seen \in SeenSet

\* Who writes is in the stage that writes.
OneWriter ==
    /\ writer.who = "nobody" => writer = NoWriter
    /\ writer.who # "nobody" => writer.pc # "free"
    /\ writer.who = "web" => thr["web"].pc = "write"
    /\ writer.who = "saver" => saver \in {"write", "final"}
    /\ phase = "down" => writer = NoWriter /\ saver = "ended" /\ \A t \in Threads : thr[t].pc = "idle"

\* Somebody knows that the file is behind.
Announced ==
    \/ dirty
    \/ \E t \in Threads : thr[t].pc = "mark"
    \/ thr["web"].pc \in {"clean", "write"} /\ writer.who # "web"
    \/ saver \in {"write", "final"} /\ writer.who # "saver"

\* The file, or what is being written, is the store unless somebody knows.
InStep ==
    /\ phase # "down" /\ writer.who = "nobody" => file = store \/ seen.failed \/ Announced
    /\ writer.who # "nobody" => writer.snap = store \/ Announced

-----------------------------------------------------------------------------
(* Numbers, and the settings one by one. *)

LEMMA LeastNat ==
    ASSUME NEW T \in SUBSET Nat, T # {}
    PROVE  \E i \in T : \A j \in T : i <= j
<1>1. PICK i \in T : \A j \in T : ~(<<j, i>> \in OpToRel(<, Nat))
  BY NatLessThanWellFounded, WFMin, Zenon
<1>2. \A j \in T : ~(j < i)
  BY <1>1 DEF OpToRel
<1> QED  BY <1>2

LEMMA KeysAre ==
    Keys = {"fm", "doa", "mixer_side", "frequency", "topology",
            "radius", "custom", "beamforming", "edge_clip", "vfos", "ui"}
<1> DEFINE K == {"fm", "doa", "mixer_side", "frequency", "topology",
                 "radius", "custom", "beamforming", "edge_clip", "vfos", "ui"}
<1>1. DOMAIN Schema = 1..11
  BY DEF Schema
<1>2. \A i \in 1..11 : i = 1 \/ i = 2 \/ i = 3 \/ i = 4 \/ i = 5 \/ i = 6
                       \/ i = 7 \/ i = 8 \/ i = 9 \/ i = 10 \/ i = 11
  OBVIOUS
<1>3. \A i \in 1..11 : Schema[i] \in K
  BY <1>2 DEF Schema
<1>4. \A k \in K : \E i \in 1..11 : Schema[i] = k
  <2>1. /\ Schema[1] = "fm" /\ Schema[2] = "doa" /\ Schema[3] = "mixer_side"
        /\ Schema[4] = "frequency" /\ Schema[5] = "topology" /\ Schema[6] = "radius"
        /\ Schema[7] = "custom" /\ Schema[8] = "beamforming" /\ Schema[9] = "edge_clip"
        /\ Schema[10] = "vfos" /\ Schema[11] = "ui"
    BY DEF Schema
  <2>2. 1 \in 1..11 /\ 2 \in 1..11 /\ 3 \in 1..11 /\ 4 \in 1..11 /\ 5 \in 1..11 /\ 6 \in 1..11
        /\ 7 \in 1..11 /\ 8 \in 1..11 /\ 9 \in 1..11 /\ 10 \in 1..11 /\ 11 \in 1..11
    OBVIOUS
  <2> HIDE DEF K
  <2>3. ASSUME NEW k \in K PROVE \E i \in 1..11 : Schema[i] = k
    BY <2>3, <2>1, <2>2 DEF K
  <2> QED  BY <2>3
<1> QED  BY <1>1, <1>3, <1>4 DEF Keys, Range

LEMMA SchemaIs == Schema \in Seq(Keys) /\ Len(Schema) = 11 /\ \A i \in DOMAIN Schema : Schema[i] \in Keys
<1>1. Len(Schema) = 11 /\ DOMAIN Schema = 1..11
  BY DEF Schema
<1>2. \A i \in DOMAIN Schema : Schema[i] \in Keys
  BY DEF Keys, Range
<1>3. Schema = [i \in 1..11 |-> Schema[i]]
  BY DEF Schema
<1> QED  BY <1>1, <1>2, <1>3

LEMMA ValuesAre ==
    /\ \A k \in {"fm", "doa", "beamforming", "wideband"} : Values(k) = BOOLEAN
    /\ Values("frequency") = Frequencies /\ Values("mixer_side") = DOMAIN Reach
    /\ Values("topology") = {"UCA", "ULA", "CUSTOM", "WIDEBAND"}
    /\ Values("edge_clip") = {0, 1, 9}
    /\ Values("offset") = Nat \X Nat
    /\ Values("vfos") = {v \in [fm : 1..MaxVfos, offsets : Seq(Nat)] : Len(v.offsets) \in v.fm..MaxVfos}
    /\ \A k \in {"radius", "custom", "ui", "add", "remove", "set_fm", "malformed", "reset", "none"} :
            Values(k) = Nat
BY DEF Values

LEMMA SidesAre == DOMAIN Reach = {"high", "low", "below"} /\ Frequencies = {0, 1, 2}
BY DEF Reach, Frequencies

LEMMA DefaultsAre == Defaults \in StoreSet
<1>1. \A k \in Keys : Defaults[k] \in Values(k)
  <2>1. ASSUME NEW k \in Keys PROVE Defaults[k] \in Values(k)
    <3>1. CASE k \in {"fm", "doa"}
      BY <3>1, ValuesAre DEF Defaults
    <3>2. CASE k = "beamforming"
      BY <3>2, ValuesAre DEF Defaults
    <3>3. CASE k = "mixer_side"
      BY <3>3, ValuesAre, SidesAre DEF Defaults
    <3>4. CASE k = "topology"
      BY <3>4, ValuesAre DEF Defaults
    <3>5. CASE k = "vfos"
      <4>1. << 0 >> \in Seq(Nat) /\ Len(<< 0 >>) = 1
        OBVIOUS
      <4>2. Defaults[k] = [fm |-> 1, offsets |-> << 0 >>]
        BY <3>5 DEF Defaults
      <4>3. Len(<< 0 >>) \in 1..MaxVfos /\ 1 \in 1..MaxVfos
        BY <4>1, SizesAssumption
      <4>4. Defaults[k] \in [fm : 1..MaxVfos, offsets : Seq(Nat)]
        BY <4>1, <4>2, <4>3
      <4>5. Len(Defaults[k].offsets) \in Defaults[k].fm..MaxVfos
        BY <4>2, <4>3
      <4> QED  BY <3>5, <4>4, <4>5, ValuesAre
    <3>6. CASE k \in {"frequency", "radius", "custom", "edge_clip", "ui"}
      <4>1. Defaults[k] = 0
        BY <3>6 DEF Defaults
      <4> QED  BY <3>6, <4>1, ValuesAre, SidesAre
    <3> QED  BY <3>1, <3>2, <3>3, <3>4, <3>5, <3>6, KeysAre
  <2> QED  BY <2>1
<1>2. Defaults = [k \in Keys |-> Defaults[k]]
  BY DEF Defaults
<1> QED  BY <1>1, <1>2 DEF StoreSet

LEMMA StoresAre ==
    ASSUME NEW s \in StoreSet
    PROVE  DOMAIN s = Keys /\ \A k \in Keys : s[k] \in Values(k)
BY DEF StoreSet

LEMMA Stored ==
    ASSUME NEW s \in StoreSet, NEW k \in Keys, NEW v \in Values(k)
    PROVE  [s EXCEPT ![k] = v] \in StoreSet
<1> DEFINE n == [s EXCEPT ![k] = v]
<1>1. n = [x \in Keys |-> n[x]] /\ \A x \in Keys : n[x] \in Values(x)
  BY StoresAre DEF StoreSet
<1> QED  BY <1>1 DEF StoreSet

\* What a short write leaves is a file, and what is made of any file is a store.
LEMMA FilesAre ==
    /\ IsFile(Nothing) /\ \A s \in StoreSet : IsFile(s)
    /\ \A s \in StoreSet : \A f \in ShortOf(s) : IsFile(f)
    /\ \A f : IsFile(f) => Loaded(f) \in StoreSet
<1>1. DOMAIN << >> = {}
  OBVIOUS
<1>2. \A s \in StoreSet, n \in 0..11 :
        DOMAIN First(s, n) \subseteq Keys /\ \A k \in DOMAIN First(s, n) : First(s, n)[k] \in Values(k)
  BY SchemaIs, StoresAre DEF First
<1>3. ASSUME NEW s \in StoreSet, NEW f \in ShortOf(s) PROVE IsFile(f)
  <2>1. CASE f \in {First(s, n) : n \in 0..(Len(Schema) - 1)}
    <3>1. PICK n \in 0..10 : f = First(s, n)
      BY <2>1, SchemaIs
    <3>2. n \in 0..11
      OBVIOUS
    <3> QED  BY <3>1, <3>2, <1>2, Zenon DEF IsFile
  <2>2. ASSUME NEW n \in 1..11, Schema[n] \in {"fm", "doa", "beamforming"},
               f = [First(s, n) EXCEPT ![Schema[n]] = FALSE]
        PROVE  IsFile(f)
    <3> DEFINE g == First(s, n)
    <3>1. DOMAIN g \subseteq Keys /\ (\A k \in DOMAIN g : g[k] \in Values(k)) /\ FALSE \in Values(Schema[n])
      <4>1. n \in 0..11 /\ Values(Schema[n]) = BOOLEAN
        BY <2>2, ValuesAre
      <4> QED  BY <1>2, <4>1
    <3> HIDE DEF g
    <3>2. f = [k \in DOMAIN g |-> IF k = Schema[n] THEN FALSE ELSE g[k]]
      BY <2>2 DEF g, First
    <3> QED  BY <3>1, <3>2 DEF IsFile
  <2> QED  BY <2>1, <2>2, SchemaIs DEF ShortOf
<1>4. ASSUME NEW f, IsFile(f) PROVE Loaded(f) \in StoreSet
  <2>1. \A k \in Keys : Loaded(f)[k] \in Values(k) /\ Loaded(f) = [x \in Keys |-> Loaded(f)[x]]
    BY <1>4, DefaultsAre, StoresAre DEF Loaded, IsFile
  <2> QED  BY <2>1, KeysAre DEF StoreSet
<1>5. \A s \in StoreSet : IsFile(s)
  BY StoresAre DEF IsFile
<1> QED  BY <1>1, <1>3, <1>4, <1>5 DEF IsFile, Nothing

-----------------------------------------------------------------------------
(* The lists of VFOs.                                                        *)

LEMMA LiveIs ==
    ASSUME NEW l \in LiveSet
    PROVE  /\ l.fm \in BOOLEAN /\ l.doa \in BOOLEAN /\ l.beamforming \in BOOLEAN
           /\ l.frequency \in Frequencies /\ l.mixer_side \in DOMAIN Reach /\ l.ring \in Frequencies
           /\ l.edge_clip \in 0..1 /\ l.vfos \in Seq(VfoSet) /\ l.fmId \in Nat
           /\ l.wbTopology \in BOOLEAN /\ l.radius \in Nat
           /\ l.wideband \in BOOLEAN /\ l.doaBefore \in BOOLEAN
           /\ DOMAIN l.vfos = 1..Len(l.vfos) /\ Len(l.vfos) \in Nat
           /\ \A i \in 1..Len(l.vfos) : l.vfos[i] \in VfoSet /\ l.vfos[i].id \in 0..(MaxVfos - 1)
                                        /\ l.vfos[i].offset \in Nat
<1>1. l.vfos \in Seq(VfoSet)
  BY DEF LiveSet
<1>2. \A i \in 1..Len(l.vfos) : l.vfos[i] \in VfoSet
  BY <1>1
<1>3. \A i \in 1..Len(l.vfos) : l.vfos[i].id \in 0..(MaxVfos - 1) /\ l.vfos[i].offset \in Nat
  BY <1>2 DEF VfoSet
<1> QED  BY <1>1, <1>2, <1>3 DEF LiveSet

LEMMA IdsAre ==
    ASSUME NEW l, LiveTypes(l)
    PROVE  /\ Ids(l) \in SUBSET (0..(MaxVfos - 1))
           /\ IsFiniteSet(Ids(l)) /\ Cardinality(Ids(l)) = Len(l.vfos)
<1> DEFINE n == Len(l.vfos)
           f == [i \in 1..n |-> l.vfos[i].id]
<1>1. n \in Nat /\ DOMAIN l.vfos = 1..n /\ \A i \in 1..n : l.vfos[i].id \in 0..(MaxVfos - 1)
  BY LiveIs DEF LiveTypes
<1>2. f \in Bijection(1..n, Ids(l))
  BY <1>1 DEF Ids, LiveTypes, Distinct, Bijection, Injection, IsInjective, Surjection
<1>3. IsFiniteSet(1..n) /\ Cardinality(1..n) = n
  BY <1>1, FS_Interval
<1>4. ExistsBijection(1..n, Ids(l))
  BY <1>2 DEF ExistsBijection
<1>5. Ids(l) \in SUBSET (0..(MaxVfos - 1))
  BY <1>1 DEF Ids
<1> QED  BY <1>3, <1>4, <1>5, FS_Bijection

\* There is a k-th free identifier for every VFO there is room for.
LEMMA FreeIdIs ==
    ASSUME NEW l, LiveTypes(l), NEW k \in 1..(MaxVfos - Len(l.vfos))
    PROVE  /\ FreeId(l, k) \in (0..(MaxVfos - 1)) \ Ids(l)
           /\ Cardinality((0..(FreeId(l, k) - 1)) \ Ids(l)) = k - 1
<1> DEFINE Below(n) == (0..(n - 1)) \ Ids(l)
           T == {n \in 0..MaxVfos : Cardinality(Below(n)) >= k}
<1>1. MaxVfos \in Nat /\ Len(l.vfos) \in Nat /\ k \in Nat /\ k >= 1 /\ k <= MaxVfos - Len(l.vfos)
  BY SizesAssumption DEF LiveTypes
<1>2. \A n \in Nat : IsFiniteSet(Below(n)) /\ Cardinality(Below(n)) \in Nat
  <2>1. ASSUME NEW n \in Nat PROVE IsFiniteSet(Below(n)) /\ Cardinality(Below(n)) \in Nat
    <3>1. IsFiniteSet(0..(n - 1))
      BY FS_Interval
    <3>2. Below(n) \in SUBSET (0..(n - 1))
      OBVIOUS
    <3>3. IsFiniteSet(Below(n))
      BY <3>1, <3>2, FS_Subset
    <3> QED  BY <3>3, FS_CardinalityType
  <2> QED  BY <2>1
<1>3. MaxVfos \in T
  <2>1. IsFiniteSet(0..(MaxVfos - 1)) /\ Cardinality(0..(MaxVfos - 1)) = MaxVfos
    <3>1. 0 \in Int /\ MaxVfos - 1 \in Int /\ ~(0 > MaxVfos - 1) /\ MaxVfos - 1 - 0 + 1 = MaxVfos
      BY <1>1, SizesAssumption
    <3> QED  BY <3>1, FS_Interval
  <2>2. Cardinality(Below(MaxVfos))
            = Cardinality(0..(MaxVfos - 1)) - Cardinality((0..(MaxVfos - 1)) \cap Ids(l))
    BY <2>1, FS_Difference
  <2>3. (0..(MaxVfos - 1)) \cap Ids(l) = Ids(l)
    BY IdsAre
  <2>4. Cardinality(Below(MaxVfos)) = MaxVfos - Len(l.vfos)
    BY <2>1, <2>2, <2>3, IdsAre
  <2> QED  BY <1>1, <2>4
<1> HIDE DEF Below
<1>4. PICK n \in T : \A m \in T : n <= m
  <2>1. T \in SUBSET Nat /\ T # {}
    BY <1>1, <1>3
  <2> QED  BY <2>1, LeastNat
<1>5. n \in 0..MaxVfos /\ Cardinality(Below(n)) >= k
  BY <1>4
<1>6. n # 0
  <2>1. Below(0) = {}
    BY DEF Below
  <2>2. Cardinality(Below(0)) = 0
    BY <2>1, FS_EmptySet
  <2> QED  BY <1>1, <1>5, <2>2
<1>7. n - 1 \in 0..(MaxVfos - 1) /\ n - 1 \in Nat /\ ~(Cardinality(Below(n - 1)) >= k)
  BY <1>1, <1>5, <1>6, <1>4
<1>8. n - 1 \notin Ids(l) /\ Cardinality(Below(n)) = Cardinality(Below(n - 1)) + 1
  <2>1. CASE n - 1 \in Ids(l)
    <3>1. Below(n) = Below(n - 1)
      BY <1>1, <1>5, <1>6, <2>1 DEF Below
    <3> QED  BY <1>5, <1>7, <3>1
  <2>2. CASE n - 1 \notin Ids(l)
    <3>1. Below(n) = Below(n - 1) \cup {n - 1} /\ n - 1 \notin Below(n - 1)
      BY <1>1, <1>5, <1>6, <2>2 DEF Below
    <3>2. IsFiniteSet(Below(n - 1))
      BY <1>2, <1>7
    <3>3. Cardinality(Below(n - 1) \cup {n - 1}) = Cardinality(Below(n - 1)) + 1
      BY <3>1, <3>2, FS_AddElement
    <3> QED  BY <2>2, <3>1, <3>3
  <2> QED  BY <2>1, <2>2
<1>9. Cardinality(Below(n - 1)) = k - 1
  <2>1. Cardinality(Below(n - 1)) \in Nat
    BY <1>2, <1>7
  <2>2. Cardinality(Below(n - 1)) + 1 >= k /\ ~(Cardinality(Below(n - 1)) >= k)
    BY <1>5, <1>7, <1>8
  <2> QED  BY <1>1, <2>1, <2>2
<1>10. \E m \in 0..(MaxVfos - 1) : m \notin Ids(l) /\ Cardinality((0..(m - 1)) \ Ids(l)) = k - 1
  BY <1>7, <1>8, <1>9 DEF Below
<1> DEFINE Q(m) == m \notin Ids(l) /\ Cardinality((0..(m - 1)) \ Ids(l)) = k - 1
<1>11. FreeId(l, k) = CHOOSE m \in 0..(MaxVfos - 1) : Q(m)
  BY DEF FreeId
<1>12. \E m \in 0..(MaxVfos - 1) : Q(m)
  BY <1>10
<1> HIDE DEF Q
<1>13. FreeId(l, k) \in 0..(MaxVfos - 1) /\ Q(FreeId(l, k))
  BY <1>11, <1>12
<1> QED  BY <1>13 DEF Q

LEMMA NewIs ==
    ASSUME NEW l, LiveTypes(l), NEW k \in 1..(MaxVfos - Len(l.vfos))
    PROVE  New(l, k) \in VfoSet /\ New(l, k).id = FreeId(l, k)
BY FreeIdIs DEF New, VfoSet

LEMMA PlaceIs ==
    ASSUME NEW l, LiveTypes(l), NEW id \in Ids(l)
    PROVE  Place(l, id) \in 1..Len(l.vfos) /\ l.vfos[Place(l, id)].id = id
<1>1. \E i \in DOMAIN l.vfos : l.vfos[i].id = id
  BY DEF Ids
<1>2. DOMAIN l.vfos = 1..Len(l.vfos)
  BY LiveIs DEF LiveTypes
<1> QED  BY <1>1, <1>2 DEF Place

\* A change of the list and of the FM source alone.
LEMMA ListChanged ==
    ASSUME NEW l \in LiveSet, NEW v \in Seq(VfoSet), NEW id \in Nat,
           Len(v) \in 1..MaxVfos, Distinct(v)
    PROVE  /\ LiveTypes([l EXCEPT !.vfos = v])
           /\ LiveTypes([l EXCEPT !.vfos = v, !.fmId = id])
<1>1. [l EXCEPT !.vfos = v] \in LiveSet /\ [l EXCEPT !.vfos = v].vfos = v
  BY DEF LiveSet
<1>2. [l EXCEPT !.vfos = v, !.fmId = id] \in LiveSet /\ [l EXCEPT !.vfos = v, !.fmId = id].vfos = v
  BY DEF LiveSet
<1> QED  BY <1>1, <1>2 DEF LiveTypes

LEMMA AddedTypes ==
    ASSUME NEW l, LiveTypes(l)
    PROVE  LiveTypes(Added(l))
<1>1. CASE Len(l.vfos) >= MaxVfos
  BY <1>1 DEF Added
<1>2. CASE ~(Len(l.vfos) >= MaxVfos)
  <2> DEFINE n == Len(l.vfos)
             d == New(l, 1)
             v == Append(l.vfos, d)
  <2>1. l \in LiveSet /\ l.vfos \in Seq(VfoSet) /\ n \in 1..MaxVfos /\ MaxVfos \in Nat
        /\ n < MaxVfos /\ Distinct(l.vfos)
    BY <1>2, LiveIs, SizesAssumption DEF LiveTypes
  <2>2. 1 \in 1..(MaxVfos - n)
    BY <2>1
  <2>3. d \in VfoSet /\ d.id \notin Ids(l)
    BY <2>2, NewIs, FreeIdIs
  <2>4. \A i \in 1..n : l.vfos[i].id # d.id
    BY <2>3, LiveIs DEF Ids, LiveTypes
  <2> HIDE DEF d
  <2>5. v \in Seq(VfoSet) /\ Len(v) = n + 1 /\ Len(v) \in 1..MaxVfos
        /\ v[n + 1] = d /\ \A i \in 1..n : v[i] = l.vfos[i]
    BY <2>1, <2>3
  <2>6. Distinct(v)
    <3>1. SUFFICES ASSUME NEW i \in 1..(n + 1), NEW j \in 1..(n + 1), v[i].id = v[j].id PROVE i = j
      BY <2>5 DEF Distinct
    <3>2. i \in 1..n \/ i = n + 1
      BY <2>1
    <3>3. j \in 1..n \/ j = n + 1
      BY <2>1
    <3>4. CASE i \in 1..n /\ j \in 1..n
      BY <2>1, <2>5, <3>1, <3>4 DEF Distinct
    <3> QED  BY <2>4, <2>5, <3>1, <3>2, <3>3, <3>4
  <2> HIDE DEF v
  <2>7. LiveTypes([l EXCEPT !.vfos = v])
    BY <2>1, <2>5, <2>6, ListChanged, LiveIs
  <2> QED  BY <1>2, <2>7 DEF Added, v, d
<1> QED  BY <1>1, <1>2

LEMMA RemovedTypes ==
    ASSUME NEW l, LiveTypes(l), NEW id
    PROVE  LiveTypes(Removed(l, id))
<1>1. CASE Len(l.vfos) <= 1 \/ id \notin Ids(l)
  BY <1>1 DEF Removed
<1>2. CASE ~(Len(l.vfos) <= 1 \/ id \notin Ids(l))
  <2> DEFINE n == Len(l.vfos)
             p == Place(l, id)
             rest == RemoveAt(l.vfos, p)
  <2>1. l \in LiveSet /\ l.vfos \in Seq(VfoSet) /\ n \in 1..MaxVfos /\ MaxVfos \in Nat
        /\ n > 1 /\ Distinct(l.vfos) /\ l.fmId \in Nat
    BY <1>2, LiveIs, SizesAssumption DEF LiveTypes
  <2>2. p \in 1..n
    BY <1>2, PlaceIs
  <2> HIDE DEF p
  <2>3. /\ SubSeq(l.vfos, 1, p - 1) \in Seq(VfoSet) /\ Len(SubSeq(l.vfos, 1, p - 1)) = p - 1
        /\ \A i \in 1..(p - 1) : SubSeq(l.vfos, 1, p - 1)[i] = l.vfos[i]
    BY <2>1, <2>2
  <2>4. /\ SubSeq(l.vfos, p + 1, n) \in Seq(VfoSet) /\ Len(SubSeq(l.vfos, p + 1, n)) = n - p
        /\ \A i \in 1..(n - p) : SubSeq(l.vfos, p + 1, n)[i] = l.vfos[p + i]
    BY <2>1, <2>2
  <2>5. /\ rest \in Seq(VfoSet) /\ Len(rest) = n - 1
        /\ \A i \in 1..(n - 1) : rest[i] = IF i < p THEN l.vfos[i] ELSE l.vfos[i + 1]
    <3> DEFINE a == SubSeq(l.vfos, 1, p - 1)
               b == SubSeq(l.vfos, p + 1, n)
    <3>1. rest = a \o b
      BY DEF RemoveAt
    <3>2. a \in Seq(VfoSet) /\ Len(a) = p - 1 /\ \A i \in 1..(p - 1) : a[i] = l.vfos[i]
      BY <2>3
    <3>3. b \in Seq(VfoSet) /\ Len(b) = n - p /\ \A i \in 1..(n - p) : b[i] = l.vfos[p + i]
      BY <2>4
    <3> HIDE DEF a, b, rest
    <3>4. rest \in Seq(VfoSet) /\ Len(rest) = n - 1
      BY <2>1, <2>2, <3>1, <3>2, <3>3
    <3>5. ASSUME NEW i \in 1..(n - 1)
          PROVE  rest[i] = IF i < p THEN l.vfos[i] ELSE l.vfos[i + 1]
      <4>1. CASE i < p
        BY <2>1, <2>2, <3>2, <4>1, <3>1, <3>3
      <4>2. CASE ~(i < p)
        <5>1. i - (p - 1) \in 1..(n - p) /\ p + (i - (p - 1)) = i + 1
          BY <2>1, <2>2, <4>2
        <5>2. rest[i] = b[i - (p - 1)]
          BY <2>1, <2>2, <3>1, <3>2, <3>3, <4>2, <5>1
        <5> QED  BY <3>3, <4>2, <5>1, <5>2
      <4> QED  BY <4>1, <4>2
    <3> QED  BY <3>4, <3>5
  <2> HIDE DEF rest
  <2>6. Len(rest) \in 1..MaxVfos
    BY <2>1, <2>5
  <2>7. Distinct(rest)
    <3>1. SUFFICES ASSUME NEW i \in 1..(n - 1), NEW j \in 1..(n - 1), rest[i].id = rest[j].id PROVE i = j
      BY <2>5 DEF Distinct
    <3> DEFINE at(k) == IF k < p THEN k ELSE k + 1
    <3>2. at(i) \in 1..n /\ at(j) \in 1..n /\ rest[i] = l.vfos[at(i)] /\ rest[j] = l.vfos[at(j)]
      BY <2>1, <2>2, <2>5
    <3>3. at(i) = at(j)
      BY <2>1, <3>1, <3>2 DEF Distinct
    <3> QED  BY <2>2, <3>3
  <2>8. rest[1].id \in Nat
    <3>1. rest[1] \in VfoSet
      BY <2>1, <2>5
    <3> QED  BY <3>1, SizesAssumption DEF VfoSet
  <2> DEFINE m == IF l.fmId = id THEN rest[1].id ELSE l.fmId
  <2>9. m \in Nat
    BY <2>1, <2>8
  <2>10. Removed(l, id) = [l EXCEPT !.vfos = rest, !.fmId = m]
    BY <2>1, <1>2 DEF LiveSet, Removed, rest, p
  <2> HIDE DEF m
  <2> QED  BY <2>1, <2>5, <2>6, <2>7, <2>9, <2>10, ListChanged
<1> QED  BY <1>1, <1>2

LEMMA ListOf ==
    ASSUME NEW S, NEW n \in Nat, NEW f \in [1..n -> S]
    PROVE  f \in Seq(S) /\ Len(f) = n
OBVIOUS

LEMMA OffsetTypes ==
    ASSUME NEW l, LiveTypes(l), NEW id, NEW o \in Nat
    PROVE  LiveTypes(Offset(l, id, o))
<1> DEFINE n == Len(l.vfos)
           v == [i \in 1..n |->
                    IF l.vfos[i].id = id THEN [l.vfos[i] EXCEPT !.offset = o] ELSE l.vfos[i]]
<1>1. l \in LiveSet /\ l.vfos \in Seq(VfoSet) /\ n \in 1..MaxVfos /\ Distinct(l.vfos)
      /\ DOMAIN l.vfos = 1..n /\ \A i \in 1..n : l.vfos[i] \in VfoSet
  BY LiveIs DEF LiveTypes
<1>2. \A i \in 1..n : v[i] \in VfoSet /\ v[i].id = l.vfos[i].id
  BY <1>1 DEF VfoSet
<1>3. v \in [1..n -> VfoSet] /\ n \in Nat
  <2> DEFINE e(i) == IF l.vfos[i].id = id THEN [l.vfos[i] EXCEPT !.offset = o] ELSE l.vfos[i]
  <2>1. v = [i \in 1..n |-> e(i)] /\ \A i \in 1..n : e(i) \in VfoSet
    BY <1>2
  <2> HIDE DEF e, v
  <2> QED  BY <1>1, <2>1
<1> HIDE DEF v
<1>4. v \in Seq(VfoSet) /\ Len(v) = n
  BY <1>3, ListOf
<1>5. Distinct(v)
  BY <1>1, <1>2, <1>4 DEF Distinct
<1>6. LiveTypes([l EXCEPT !.vfos = v])
  BY <1>1, <1>4, <1>5, ListChanged, LiveIs
<1> QED  BY <1>1, <1>6 DEF Offset, v

LEMMA ResizedTypes ==
    ASSUME NEW l, LiveTypes(l), NEW n \in 1..MaxVfos
    PROVE  LiveTypes(Resized(l, n)) /\ Len(Resized(l, n).vfos) = n
<1> DEFINE size == Len(l.vfos)
           v == [i \in 1..n |-> IF i <= size THEN l.vfos[i] ELSE New(l, i - size)]
           m == IF \E i \in (n + 1)..size : l.vfos[i].id = l.fmId THEN l.vfos[1].id ELSE l.fmId
<1>1. /\ l \in LiveSet /\ size \in 1..MaxVfos /\ Distinct(l.vfos) /\ l.fmId \in Nat
      /\ MaxVfos \in Nat /\ n \in Nat /\ size \in Nat /\ n <= MaxVfos
      /\ \A i \in 1..size : l.vfos[i] \in VfoSet
  BY LiveIs, SizesAssumption DEF LiveTypes
<1>2. ASSUME NEW i \in 1..n, ~(i <= size)
      PROVE  /\ i - size \in 1..(MaxVfos - size) /\ v[i] = New(l, i - size)
             /\ New(l, i - size) \in VfoSet
             /\ New(l, i - size).id \in (0..(MaxVfos - 1)) \ Ids(l)
             /\ Cardinality((0..(New(l, i - size).id - 1)) \ Ids(l)) = (i - size) - 1
  <2>1. i - size \in 1..(MaxVfos - size)
    BY <1>1, <1>2
  <2>2. New(l, i - size) \in VfoSet /\ New(l, i - size).id = FreeId(l, i - size)
    BY <2>1, NewIs
  <2>3. /\ FreeId(l, i - size) \in (0..(MaxVfos - 1)) \ Ids(l)
        /\ Cardinality((0..(FreeId(l, i - size) - 1)) \ Ids(l)) = (i - size) - 1
    BY <2>1, FreeIdIs
  <2> QED  BY <1>2, <2>1, <2>2, <2>3
<1>3. ASSUME NEW i \in 1..n, i <= size
      PROVE  i \in 1..size /\ v[i] = l.vfos[i] /\ v[i] \in VfoSet /\ v[i].id \in Ids(l)
  BY <1>1, <1>3, LiveIs DEF Ids
<1>4. v \in Seq(VfoSet) /\ Len(v) = n
  <2>1. \A i \in 1..n : v[i] \in VfoSet
    BY <1>2, <1>3
  <2>2. v \in [1..n -> VfoSet]
    BY <2>1
  <2> QED  BY <1>1, <2>2
<1>5. Distinct(v)
  <2>1. SUFFICES ASSUME NEW i \in 1..n, NEW j \in 1..n, v[i].id = v[j].id PROVE i = j
    BY <1>4 DEF Distinct
  <2>2. CASE i <= size /\ j <= size
    BY <1>1, <1>3, <2>1, <2>2 DEF Distinct
  <2>3. CASE ~(i <= size) /\ ~(j <= size)
    <3>1. (i - size) - 1 = (j - size) - 1
      BY <1>2, <2>1, <2>3
    <3> QED  BY <1>1, <3>1
  <2>4. CASE i <= size /\ ~(j <= size)
    BY <1>2, <1>3, <2>1, <2>4
  <2>5. CASE ~(i <= size) /\ j <= size
    BY <1>2, <1>3, <2>1, <2>5
  <2> QED  BY <2>2, <2>3, <2>4, <2>5
<1>6. m \in Nat
  BY <1>1, SizesAssumption DEF VfoSet
<1>7. Resized(l, n) = [l EXCEPT !.vfos = v, !.fmId = m]
  <2> HIDE DEF v
  <2>1. [l EXCEPT !.vfos = v].fmId = l.fmId /\ l.vfos = l.vfos
    BY <1>1 DEF LiveSet
  <2> QED  BY <1>1, <2>1 DEF Resized, v
<1> HIDE DEF v, m
<1>8. LiveTypes([l EXCEPT !.vfos = v, !.fmId = m])
  BY <1>1, <1>4, <1>5, <1>6, ListChanged
<1>9. [l EXCEPT !.vfos = v, !.fmId = m].vfos = v
  BY <1>1 DEF LiveSet
<1> QED  BY <1>4, <1>7, <1>8, <1>9

LEMMA FromSnapshotTypes ==
    ASSUME NEW l, LiveTypes(l), NEW s \in Values("vfos")
    PROVE  LiveTypes(FromSnapshot(l, s))
<1> DEFINE n == Len(s.offsets)
           r == Resized(l, n)
           v == [i \in 1..n |-> [r.vfos[i] EXCEPT !.offset = s.offsets[i]]]
<1>1. s.fm \in 1..MaxVfos /\ s.offsets \in Seq(Nat) /\ n \in s.fm..MaxVfos
  BY ValuesAre
<1>2. n \in 1..MaxVfos /\ s.fm \in 1..n /\ n \in Nat
  BY <1>1, SizesAssumption
<1>3. /\ r \in LiveSet /\ Len(r.vfos) = n /\ Distinct(r.vfos)
      /\ DOMAIN r.vfos = 1..n /\ \A i \in 1..n : r.vfos[i] \in VfoSet
  <2>1. LiveTypes(r) /\ Len(r.vfos) = n
    BY <1>2, ResizedTypes
  <2> HIDE DEF r
  <2> QED  BY <2>1, LiveIs DEF LiveTypes
<1> HIDE DEF r
<1>4. \A i \in 1..n : v[i] \in VfoSet /\ v[i].id = r.vfos[i].id
  <2>1. ASSUME NEW i \in 1..n PROVE v[i] \in VfoSet /\ v[i].id = r.vfos[i].id
    <3>1. s.offsets[i] \in Nat
      BY <1>1
    <3>2. \A d \in VfoSet, o \in Nat : [d EXCEPT !.offset = o] \in VfoSet
                                       /\ [d EXCEPT !.offset = o].id = d.id
      BY DEF VfoSet
    <3>3. v[i] = [r.vfos[i] EXCEPT !.offset = s.offsets[i]]
      BY <1>3
    <3> QED  BY <1>3, <3>1, <3>2, <3>3
  <2> QED  BY <2>1
<1>5. v \in Seq(VfoSet) /\ Len(v) = n
  <2>1. v \in [1..n -> VfoSet]
    BY <1>3, <1>4
  <2> HIDE DEF v
  <2> QED  BY <1>2, <2>1, ListOf
<1>6. Distinct(v)
  BY <1>3, <1>4, <1>5 DEF Distinct
<1>7. r.vfos[s.fm].id \in Nat
  BY <1>2, <1>3, SizesAssumption DEF VfoSet
<1>8. FromSnapshot(l, s) = [r EXCEPT !.vfos = v, !.fmId = r.vfos[s.fm].id]
  BY <1>3 DEF FromSnapshot, r
<1> HIDE DEF v
<1>9. LiveTypes([r EXCEPT !.vfos = v, !.fmId = r.vfos[s.fm].id])
  BY <1>2, <1>3, <1>5, <1>6, <1>7, ListChanged
<1> QED  BY <1>8, <1>9

LEMMA SnapshotTypes ==
    ASSUME NEW l, LiveTypes(l)
    PROVE  Snapshot(l) \in Values("vfos")
<1> DEFINE n == Len(l.vfos)
           at == IF l.fmId \in Ids(l) THEN Place(l, l.fmId) ELSE 1
           o == [i \in DOMAIN l.vfos |-> l.vfos[i].offset]
<1>1. n \in 1..MaxVfos /\ n \in Nat /\ MaxVfos \in Nat /\ DOMAIN l.vfos = 1..n
      /\ \A i \in 1..n : l.vfos[i].offset \in Nat
  BY LiveIs, SizesAssumption DEF LiveTypes
<1>2. at \in 1..n
  BY <1>1, PlaceIs
<1>3. o \in Seq(Nat) /\ Len(o) = n
  <2>1. o \in [1..n -> Nat]
    BY <1>1
  <2> QED  BY <1>1, <2>1
<1>4. Snapshot(l) = [fm |-> at, offsets |-> o]
  BY DEF Snapshot
<1> HIDE DEF at, o
<1>5. Snapshot(l) \in [fm : 1..MaxVfos, offsets : Seq(Nat)] /\ Len(Snapshot(l).offsets) \in Snapshot(l).fm..MaxVfos
  BY <1>1, <1>2, <1>3, <1>4
<1> QED  BY <1>5, ValuesAre

-----------------------------------------------------------------------------
(* The commands.                                                             *)

LEMMA CommandIs ==
    ASSUME NEW c \in CommandSet
    PROVE  /\ c.key \in AllKeys /\ c.val \in Values(c.key)
           /\ c.key = "frequency" => c.val \in Frequencies
           /\ c.key = "mixer_side" => c.val \in DOMAIN Reach
<1>1. PICK k \in AllKeys : c \in [key : {k}, val : Values(k)]
  BY DEF CommandSet
<1>2. c.key = k /\ c.val \in Values(k)
  BY <1>1
<1> QED  BY <1>2, ValuesAre

LEMMA IsOne ==
    ASSUME NEW k \in AllKeys, NEW v \in Values(k)
    PROVE  [key |-> k, val |-> v] \in CommandSet
<1>1. [key |-> k, val |-> v] \in [key : {k}, val : Values(k)]
  OBVIOUS
<1> QED  BY <1>1 DEF CommandSet

LEMMA OfferedIs ==
    ASSUME NEW c, IsCommand(c), c.key \in OfferedKeys
    PROVE  c \in CommandSet
<1>1. c.key \in AllKeys
  BY DEF OfferedKeys, AllKeys
<1>2. c \in [key : {c.key}, val : Values(c.key)]
  BY DEF IsCommand
<1> QED  BY <1>1, <1>2 DEF CommandSet

LEMMA AllKeysAre ==
    AllKeys = {"fm", "doa", "mixer_side", "frequency", "topology", "radius", "custom",
               "beamforming", "edge_clip", "vfos", "ui", "add", "remove", "offset", "set_fm",
               "wideband", "malformed", "reset", "none"}
BY KeysAre DEF AllKeys, VfoCommands

LEMMA KeptIs ==
    ASSUME NEW side \in DOMAIN Reach, NEW f \in Frequencies
    PROVE  Kept(side, f) \in DOMAIN Reach
BY SidesAre DEF Kept, AutoSide

\* The fields that commands set, one at a time.
LEMMA FieldsSet ==
    ASSUME NEW l, LiveTypes(l)
    PROVE  /\ \A v \in BOOLEAN : LiveTypes([l EXCEPT !.fm = v]) /\ LiveTypes([l EXCEPT !.doa = v])
                                 /\ LiveTypes([l EXCEPT !.beamforming = v])
                                 /\ LiveTypes([l EXCEPT !.wideband = v])
                                 /\ LiveTypes([l EXCEPT !.doaBefore = v])
                                 /\ LiveTypes([l EXCEPT !.wbTopology = v])
           /\ \A v \in Frequencies : LiveTypes([l EXCEPT !.frequency = v]) /\ LiveTypes([l EXCEPT !.ring = v])
           /\ \A v \in DOMAIN Reach : LiveTypes([l EXCEPT !.mixer_side = v])
           /\ \A v \in Values("topology") : LiveTypes([l EXCEPT !.topology = v])
           /\ \A v \in Nat : LiveTypes([l EXCEPT !.radius = v]) /\ LiveTypes([l EXCEPT !.custom = v])
                             /\ LiveTypes([l EXCEPT !.ui = v]) /\ LiveTypes([l EXCEPT !.fmId = v])
           /\ \A v \in 0..1 : LiveTypes([l EXCEPT !.edge_clip = v])
<1>1. l \in LiveSet /\ Len(l.vfos) \in 1..MaxVfos /\ Distinct(l.vfos)
  BY DEF LiveTypes
<1>2. ASSUME NEW v \in BOOLEAN
      PROVE  LiveTypes([l EXCEPT !.fm = v]) /\ LiveTypes([l EXCEPT !.doa = v])
             /\ LiveTypes([l EXCEPT !.beamforming = v]) /\ LiveTypes([l EXCEPT !.wideband = v])
             /\ LiveTypes([l EXCEPT !.doaBefore = v]) /\ LiveTypes([l EXCEPT !.wbTopology = v])
  BY <1>1 DEF LiveTypes, LiveSet
<1>3. ASSUME NEW v \in Frequencies
      PROVE  LiveTypes([l EXCEPT !.frequency = v]) /\ LiveTypes([l EXCEPT !.ring = v])
  BY <1>1 DEF LiveTypes, LiveSet
<1>4. ASSUME NEW v \in DOMAIN Reach PROVE LiveTypes([l EXCEPT !.mixer_side = v])
  BY <1>1 DEF LiveTypes, LiveSet
<1>5. ASSUME NEW v \in Values("topology") PROVE LiveTypes([l EXCEPT !.topology = v])
  BY <1>1 DEF LiveTypes, LiveSet
<1>6. ASSUME NEW v \in Nat
      PROVE  LiveTypes([l EXCEPT !.radius = v]) /\ LiveTypes([l EXCEPT !.custom = v])
             /\ LiveTypes([l EXCEPT !.ui = v]) /\ LiveTypes([l EXCEPT !.fmId = v])
  BY <1>1 DEF LiveTypes, LiveSet
<1>7. ASSUME NEW v \in 0..1 PROVE LiveTypes([l EXCEPT !.edge_clip = v])
  BY <1>1 DEF LiveTypes, LiveSet
<1> QED  BY <1>2, <1>3, <1>4, <1>5, <1>6, <1>7

LEMMA FreqTypes ==
    ASSUME NEW l, LiveTypes(l), NEW f \in Frequencies
    PROVE  LiveTypes(Tune(l, f)) /\ LiveTypes(FollowSide(l, f)) /\ LiveTypes(LeaveWideband(l))
<1> DEFINE a == [l EXCEPT !.wideband = FALSE]
           w == [a EXCEPT !.doa = l.doa \/ l.doaBefore]
<1>1. l \in LiveSet /\ l.doa \in BOOLEAN /\ l.doaBefore \in BOOLEAN /\ l.mixer_side \in DOMAIN Reach
      /\ l.radius \in Nat
  BY LiveIs DEF LiveTypes
<1>2. LiveTypes(a) /\ a.doa = l.doa
  BY <1>1, FieldsSet DEF LiveSet
<1>3. LeaveWideband(l) = w
  BY <1>1, <1>2 DEF LeaveWideband
<1>4. LiveTypes(w)
  <2>1. (l.doa \/ l.doaBefore) \in BOOLEAN
    OBVIOUS
  <2> HIDE DEF a
  <2> QED  BY <1>2, <2>1, FieldsSet
<1>5. LiveTypes(LeaveWideband(l))
  BY <1>3, <1>4
<1>6. LiveTypes(Tune(l, f))
  BY <1>5, FieldsSet DEF Tune
<1>7. LiveTypes(FollowSide(l, f))
  <2> DEFINE b == [l EXCEPT !.mixer_side = Kept(l.mixer_side, f)]
             d == [b EXCEPT !.ring = Ring(f)]
             r == IF l.wbTopology /\ Ring(f) # l.ring THEN RingRadius(f) ELSE l.radius
  <2>1. Kept(l.mixer_side, f) \in DOMAIN Reach /\ Ring(f) \in Frequencies /\ r \in Nat
    BY <1>1, KeptIs, SidesAre DEF Ring, RingRadius
  <2>2. FollowSide(l, f) = [d EXCEPT !.radius = r]
    BY <1>1 DEF LiveSet, FollowSide
  <2>3. LiveTypes(b)
    BY <2>1, FieldsSet
  <2> HIDE DEF b, r
  <2>4. LiveTypes(d)
    BY <2>1, <2>3, FieldsSet
  <2> HIDE DEF d
  <2>5. LiveTypes([d EXCEPT !.radius = r])
    BY <2>1, <2>4, FieldsSet
  <2> QED  BY <2>2, <2>5
<1> QED  BY <1>5, <1>6, <1>7

LEMMA WidebandTypes ==
    ASSUME NEW l, LiveTypes(l), NEW on
    PROVE  LiveTypes(Wideband(l, on))
<1> DEFINE a == [l EXCEPT !.wideband = TRUE]
           b == [a EXCEPT !.doaBefore = l.doa]
<1>1. l \in LiveSet /\ l.doa \in BOOLEAN
  BY LiveIs DEF LiveTypes
<1>2. LiveTypes(a)
  BY FieldsSet
<1>3. [l EXCEPT !.wideband = TRUE, !.doaBefore = l.doa, !.doa = FALSE] = [b EXCEPT !.doa = FALSE]
  BY <1>1 DEF LiveSet
<1> HIDE DEF a
<1>4. LiveTypes(b)
  BY <1>1, <1>2, FieldsSet
<1> HIDE DEF b
<1>5. LiveTypes([b EXCEPT !.doa = FALSE])
  BY <1>4, FieldsSet
<1>6. LiveTypes(LeaveWideband(l))
  BY FreqTypes, SidesAre
<1> QED  BY <1>3, <1>5, <1>6 DEF Wideband

LEMMA TopologyTypes ==
    ASSUME NEW l, LiveTypes(l), NEW t \in Values("topology")
    PROVE  LiveTypes(Topology(l, t))
<1> DEFINE wb == t = "WIDEBAND" /\ Variant
           a == [l EXCEPT !.wbTopology = wb]
           k == IF t = "WIDEBAND" THEN "UCA" ELSE t
           b == [a EXCEPT !.topology = k]
           r == IF wb THEN RingRadius(l.ring) ELSE l.radius
<1>1. l \in LiveSet /\ l.ring \in Frequencies /\ l.radius \in Nat
  BY LiveIs DEF LiveTypes
<1>2. wb \in BOOLEAN /\ k \in Values("topology") /\ r \in Nat
  BY <1>1, ValuesAre, SidesAre DEF Ring, RingRadius
<1>3. Topology(l, t) = [b EXCEPT !.radius = r]
  <2>1. b.radius = l.radius
    BY <1>1 DEF LiveSet
  <2> QED  BY <1>1, <2>1 DEF Topology
<1> HIDE DEF k, r, wb
<1>4. LiveTypes(a)
  BY <1>2, FieldsSet
<1> HIDE DEF a
<1>5. LiveTypes(b)
  BY <1>2, <1>4, FieldsSet
<1> HIDE DEF b
<1>6. LiveTypes([b EXCEPT !.radius = r])
  BY <1>2, <1>5, FieldsSet
<1> QED  BY <1>3, <1>6

LEMMA OtherTypes ==
    ASSUME NEW l, LiveTypes(l), NEW on \in BOOLEAN, NEW p \in Nat, NEW side \in DOMAIN Reach,
           NEW e \in {0, 1, 9}
    PROVE  /\ LiveTypes(Beamforming(l, on)) /\ LiveTypes(CustomPositions(l, p)) /\ LiveTypes(Radius(l, p))
           /\ LiveTypes(MixerSide(l, side)) /\ LiveTypes(EdgeClip(l, e))
<1>1. l \in LiveSet /\ l.doa \in BOOLEAN
  BY LiveIs DEF LiveTypes
<1>2. LiveTypes(Beamforming(l, on))
  <2> DEFINE a == [l EXCEPT !.beamforming = on]
  <2>1. LiveTypes(a) /\ a.doa = l.doa
    BY <1>1, FieldsSet DEF LiveSet
  <2>2. Beamforming(l, on) = [a EXCEPT !.doa = l.doa \/ (on /\ ~l.beamforming)]
    BY <1>1, <2>1 DEF Beamforming
  <2>3. (l.doa \/ (on /\ ~l.beamforming)) \in BOOLEAN
    OBVIOUS
  <2> HIDE DEF a
  <2>4. LiveTypes([a EXCEPT !.doa = l.doa \/ (on /\ ~l.beamforming)])
    BY <2>1, <2>3, FieldsSet
  <2> QED  BY <2>2, <2>4
<1>3. LiveTypes(CustomPositions(l, p))
  <2> DEFINE a == [l EXCEPT !.custom = p]
  <2>1. LiveTypes(a)
    BY FieldsSet
  <2>2. CustomPositions(l, p) = [a EXCEPT !.topology = "CUSTOM"]
    BY DEF CustomPositions
  <2>3. "CUSTOM" \in Values("topology")
    BY ValuesAre
  <2> HIDE DEF a
  <2>4. LiveTypes([a EXCEPT !.topology = "CUSTOM"])
    BY <2>1, <2>3, FieldsSet
  <2> QED  BY <2>2, <2>4
<1>4. LiveTypes(Radius(l, p))
  BY FieldsSet DEF Radius
<1>5. LiveTypes(MixerSide(l, side))
  BY FieldsSet DEF MixerSide
<1>6. LiveTypes(EdgeClip(l, e))
  <2>1. (IF e = 9 THEN 1 ELSE e) \in 0..1
    OBVIOUS
  <2> QED  BY <2>1, FieldsSet DEF EdgeClip
<1> QED  BY <1>2, <1>3, <1>4, <1>5, <1>6

LEMMA EffectTypes ==
    ASSUME NEW l, LiveTypes(l), NEW c \in CommandSet
    PROVE  LiveTypes(Effect(l, c)) \/ c.key \in {"malformed", "reset", "none"}
<1>1. c.key \in AllKeys /\ c.val \in Values(c.key)
  BY CommandIs
<1>2. CASE c.key = "frequency"
  BY <1>1, <1>2, FreqTypes, ValuesAre DEF Effect
<1>3. CASE c.key = "wideband"
  BY <1>3, WidebandTypes DEF Effect
<1>4. CASE c.key = "mixer_side"
  BY <1>1, <1>4, ValuesAre, OtherTypes DEF Effect
<1>5. CASE c.key = "topology"
  BY <1>1, <1>5, TopologyTypes DEF Effect
<1>6. CASE c.key = "radius"
  BY <1>1, <1>6, ValuesAre, OtherTypes, SidesAre DEF Effect
<1>7. CASE c.key = "custom"
  BY <1>1, <1>7, ValuesAre, OtherTypes, SidesAre DEF Effect
<1>8. CASE c.key = "beamforming"
  BY <1>1, <1>8, ValuesAre, OtherTypes, SidesAre DEF Effect
<1>9. CASE c.key = "edge_clip"
  BY <1>1, <1>9, ValuesAre, OtherTypes, SidesAre DEF Effect
<1>10. CASE c.key = "add"
  BY <1>10, AddedTypes DEF Effect
<1>11. CASE c.key = "remove"
  BY <1>11, RemovedTypes DEF Effect
<1>12. CASE c.key = "offset"
  BY <1>1, <1>12, ValuesAre, OffsetTypes DEF Effect
<1>13. CASE c.key = "set_fm"
  BY <1>1, <1>13, ValuesAre, FieldsSet DEF Effect
<1>14. CASE c.key = "vfos"
  BY <1>1, <1>14, FromSnapshotTypes DEF Effect
<1>15. CASE c.key \in {"fm", "doa", "ui"}
  <2>1. Effect(l, c) = [l EXCEPT ![c.key] = c.val]
    BY <1>15 DEF Effect
  <2>2. CASE c.key = "fm"
    <3>1. c.val \in BOOLEAN /\ Effect(l, c) = [l EXCEPT !.fm = c.val]
      BY <1>1, <2>1, <2>2, ValuesAre
    <3>2. LiveTypes([l EXCEPT !.fm = c.val])
      BY <3>1, FieldsSet
    <3> QED  BY <3>1, <3>2
  <2>3. CASE c.key = "doa"
    <3>1. c.val \in BOOLEAN /\ Effect(l, c) = [l EXCEPT !.doa = c.val]
      BY <1>1, <2>1, <2>3, ValuesAre
    <3>2. LiveTypes([l EXCEPT !.doa = c.val])
      BY <3>1, FieldsSet
    <3> QED  BY <3>1, <3>2
  <2>4. CASE c.key = "ui"
    <3>1. c.val \in Nat /\ Effect(l, c) = [l EXCEPT !.ui = c.val]
      BY <1>1, <2>1, <2>4, ValuesAre
    <3>2. LiveTypes([l EXCEPT !.ui = c.val])
      BY <3>1, FieldsSet
    <3> QED  BY <3>1, <3>2
  <2> QED  BY <1>15, <2>2, <2>3, <2>4
<1> QED  BY <1>1, <1>2, <1>3, <1>4, <1>5, <1>6, <1>7, <1>8, <1>9, <1>10, <1>11, <1>12, <1>13,
            <1>14, <1>15, AllKeysAre

-----------------------------------------------------------------------------
(* The threads.                                                              *)

LEMMA ThreadIs ==
    ASSUME NEW h, ThreadTypes(h), NEW t \in Threads
    PROVE  /\ h[t] \in ThreadSet /\ InBranch(h[t])
           /\ h[t].pc \in Stages /\ h[t].role \in {"user", "replay"} /\ h[t].todo \in Seq(CommandSet)
           /\ h[t].c \in CommandSet /\ h[t].out \in Seq(TunerSet)
BY DEF ThreadTypes, ThreadSet

LEMMA ThreadSteps ==
    ASSUME NEW h, ThreadTypes(h), NEW t \in Threads, NEW r \in ThreadSet, InBranch(r)
    PROVE  /\ ThreadTypes([h EXCEPT ![t] = r]) /\ [h EXCEPT ![t] = r][t] = r
           /\ \A u \in Threads : u # t => [h EXCEPT ![t] = r][u] = h[u]
BY DEF ThreadTypes

LEMMA IdleIs == Idle \in ThreadSet /\ InBranch(Idle) /\ Idle.pc = "idle" /\ Idle.role = "user"
                /\ Idle.todo = << >>
<1>1. [key |-> "none", val |-> 0] \in CommandSet
  <2>1. "none" \in AllKeys /\ 0 \in Values("none")
    BY AllKeysAre, ValuesAre
  <2> QED  BY <2>1, IsOne
<1>2. << >> \in Seq(CommandSet) /\ << >> \in Seq(TunerSet)
  OBVIOUS
<1> QED  BY <1>1, <1>2 DEF Idle, ThreadSet, InBranch, Stages

LEMMA Next1Is ==
    ASSUME NEW t, NEW r \in ThreadSet
    PROVE  Next1(t, r) \in ThreadSet /\ InBranch(Next1(t, r)) /\ Next1(t, r).pc \in {"idle", "end", "impl"}
<1>1. r.todo \in Seq(CommandSet) /\ r.role \in {"user", "replay"}
  BY DEF ThreadSet
<1>2. CASE r.todo = << >>
  <2> DEFINE n == [Idle EXCEPT !.role = r.role, !.pc = IF r.role = "user" THEN "idle" ELSE "end"]
  <2>1. n \in ThreadSet /\ n.pc \in {"idle", "end"}
    BY <1>1, IdleIs DEF ThreadSet, Stages
  <2>2. Next1(t, r) = n
    BY <1>2 DEF Next1
  <2> HIDE DEF n
  <2> QED  BY <2>1, <2>2 DEF InBranch
<1>3. CASE r.todo # << >>
  <2> DEFINE n == [r EXCEPT !.pc = "impl", !.c = Head(r.todo), !.todo = Tail(r.todo), !.out = << >>]
  <2>1. Head(r.todo) \in CommandSet /\ Tail(r.todo) \in Seq(CommandSet) /\ << >> \in Seq(TunerSet)
    BY <1>1, <1>3
  <2>2. n \in ThreadSet /\ n.pc = "impl"
    BY <2>1 DEF ThreadSet, Stages
  <2>3. Next1(t, r) = n
    BY <1>3 DEF Next1
  <2> HIDE DEF n
  <2> QED  BY <2>2, <2>3 DEF InBranch
<1> QED  BY <1>2, <1>3

LEMMA CommandsAre ==
    ASSUME NEW s \in StoreSet
    PROVE  Commands(s) \in Seq(CommandSet)
<1> DEFINE e(i) == [key |-> Schema[i], val |-> s[Schema[i]]]
<1>1. DOMAIN Schema = 1..11 /\ \A i \in 1..11 : Schema[i] \in Keys /\ Schema[i] \in AllKeys
  BY SchemaIs DEF AllKeys
<1>2. \A i \in 1..11 : e(i) \in CommandSet
  BY <1>1, StoresAre, IsOne
<1>3. Commands(s) = [i \in 1..11 |-> e(i)]
  BY <1>1 DEF Commands
<1> HIDE DEF e
<1>4. Commands(s) \in [1..11 -> CommandSet]
  BY <1>2, <1>3
<1> QED  BY <1>4, ListOf

LEMMA ReplayIs ==
    ASSUME NEW t, NEW s \in StoreSet
    PROVE  LET r == Next1(t, [Idle EXCEPT !.role = "replay", !.todo = Commands(s)])
           IN  r \in ThreadSet /\ InBranch(r) /\ r.pc \in {"idle", "end", "impl"}
<1> DEFINE a == [Idle EXCEPT !.role = "replay"]
           b == [a EXCEPT !.todo = Commands(s)]
<1>1. a \in ThreadSet
  BY IdleIs DEF ThreadSet
<1>2. b \in ThreadSet
  BY <1>1, CommandsAre DEF ThreadSet
<1>3. [Idle EXCEPT !.role = "replay", !.todo = Commands(s)] = b
  OBVIOUS
<1> HIDE DEF a, b
<1> QED  BY <1>2, <1>3, Next1Is

\* A thread goes to another stage of the same command.
LEMMA StageIs ==
    ASSUME NEW h, ThreadTypes(h), NEW t \in Threads, NEW pc \in Stages \ {"send", "side"}
    PROVE  /\ ThreadTypes([h EXCEPT ![t].pc = pc]) /\ [h EXCEPT ![t].pc = pc][t].pc = pc
           /\ \A u \in Threads : u # t => [h EXCEPT ![t].pc = pc][u] = h[u]
<1> DEFINE r == [h[t] EXCEPT !.pc = pc]
<1>1. r \in ThreadSet /\ r.pc = pc
  BY ThreadIs DEF ThreadSet
<1>2. [h EXCEPT ![t].pc = pc] = [h EXCEPT ![t] = r]
  OBVIOUS
<1> HIDE DEF r
<1>3. InBranch(r)
  BY <1>1 DEF InBranch
<1> QED  BY <1>1, <1>2, <1>3, ThreadSteps

LEMMA MessagesAre ==
    ASSUME NEW l, NEW c \in CommandSet
    PROVE  /\ Messages(l, c) \in Seq(TunerSet)
           /\ Messages(l, c) # << >> => Messages(l, c) = << c >> /\ Messages(l, c)[1] = c
                                      /\ c.key \in {"frequency", "mixer_side"}
<1>1. c.key \in {"frequency", "mixer_side"} => c \in TunerSet
  <2>1. PICK k \in AllKeys : c \in [key : {k}, val : Values(k)]
    BY DEF CommandSet
  <2> QED  BY <2>1, ValuesAre DEF TunerSet
<1>2. CASE Messages(l, c) = << c >>
  BY <1>2, <1>1 DEF Messages
<1>3. CASE Messages(l, c) = << >>
  BY <1>3
<1> QED  BY <1>2, <1>3 DEF Messages

LEMMA TunerIs ==
    ASSUME NEW c \in TunerSet
    PROVE  /\ c.key \in {"frequency", "mixer_side"}
           /\ c.key = "frequency" => c.val \in Frequencies
           /\ c.key # "frequency" => c.val \in DOMAIN Reach
BY DEF TunerSet

LEMMA ObeyedIs ==
    ASSUME heim \in [frequency : Frequencies, mixer_side : DOMAIN Reach], NEW c \in TunerSet
    PROVE  Obeyed(c) \in [frequency : Frequencies, mixer_side : DOMAIN Reach]
<1> DEFINE H == [frequency : Frequencies, mixer_side : DOMAIN Reach]
<1>1. heim.frequency \in Frequencies /\ heim.mixer_side \in DOMAIN Reach
  OBVIOUS
<1>2. CASE c.key = "frequency"
  <2> DEFINE k == IF Variant THEN Kept(heim.mixer_side, c.val) ELSE heim.mixer_side
  <2>1. c.val \in Frequencies /\ k \in DOMAIN Reach
    BY <1>1, <1>2, TunerIs, KeptIs
  <2>2. Obeyed(c) = [heim EXCEPT !.frequency = c.val, !.mixer_side = k]
    BY <1>1, <1>2 DEF Obeyed
  <2> HIDE DEF k
  <2> QED  BY <2>1, <2>2
<1>3. CASE c.key # "frequency"
  BY <1>3, TunerIs, <1>1 DEF Obeyed
<1> QED  BY <1>2, <1>3

LEMMA StartsAre == LiveTypes(LiveInit) /\ HeimInit \in [frequency : Frequencies, mixer_side : DOMAIN Reach]
                   /\ Past \in SeenSet
<1>1. LiveInit \in LiveSet
  <2>1. << [id |-> 0, offset |-> 0] >> \in Seq(VfoSet)
    BY SizesAssumption DEF VfoSet
  <2> QED  BY <2>1, SidesAre, ValuesAre DEF LiveInit, LiveSet
<1>2. LiveInit.vfos = << [id |-> 0, offset |-> 0] >>
  BY DEF LiveInit
<1>3. Len(LiveInit.vfos) = 1
  BY <1>2
<1>4. Distinct(LiveInit.vfos)
  BY <1>3 DEF Distinct
<1>5. LiveTypes(LiveInit)
  BY <1>1, <1>3, <1>4, SizesAssumption DEF LiveTypes
<1> QED  BY <1>5, SidesAre DEF HeimInit, Past, SeenSet

-----------------------------------------------------------------------------
(* Every step keeps the types.                                               *)

LEMMA LeftIs ==
    ASSUME NEW x \in LeftSet, NEW n \in Nat
    PROVE  /\ x.commands \in Nat /\ x.faults \in Nat /\ x.disk \in Nat /\ x.restarts \in Nat /\ x.events \in Nat
           /\ x.offers \in SUBSET CommandSet
           /\ [x EXCEPT !.commands = n] \in LeftSet /\ [x EXCEPT !.commands = n].events = x.events
           /\ [x EXCEPT !.faults = n] \in LeftSet /\ [x EXCEPT !.faults = n].events = x.events
           /\ [x EXCEPT !.disk = n] \in LeftSet /\ [x EXCEPT !.disk = n].events = x.events
           /\ [x EXCEPT !.restarts = n] \in LeftSet /\ [x EXCEPT !.restarts = n].events = x.events
           /\ [x EXCEPT !.events = n] \in LeftSet
BY DEF LeftSet

LEMMA SpendIs ==
    ASSUME left \in LeftSet, NEW b \in {"commands", "faults", "disk", "restarts"}, Spend(b)
    PROVE  left' \in LeftSet
<1> DEFINE x == left[b] - 1
           a == [left EXCEPT ![b] = x]
           y == left.events - 1
<1>1. left[b] \in Nat /\ left.events \in Nat
  BY LeftIs
<1>2. left[b] > 0 /\ left.events > 0 /\ left' = [left EXCEPT ![b] = @ - 1, !.events = @ - 1]
  BY DEF Spend
<1>3. x \in Nat /\ y \in Nat
  <2>1. left[b] > 0 /\ left.events > 0
    BY <1>2
  <2>2. \A n \in Nat : n > 0 => n - 1 \in Nat
    OBVIOUS
  <2> QED  BY <1>1, <2>1, <2>2
<1>4. a.events = left.events => left' = [a EXCEPT !.events = y]
  BY <1>2
<1> HIDE DEF x, y
<1>5. a \in LeftSet /\ a.events = left.events
  <2>1. CASE b = "commands"
    BY <1>3, <2>1, LeftIs
  <2>2. CASE b = "faults"
    BY <1>3, <2>2, LeftIs
  <2>3. CASE b = "restarts"
    BY <1>3, <2>3, LeftIs
  <2>4. CASE b = "disk"
    BY <1>3, <2>4, LeftIs
  <2> QED  BY <2>1, <2>2, <2>3, <2>4
<1> HIDE DEF a
<1> QED  BY <1>3, <1>4, <1>5, LeftIs

LEMMA SeenIs ==
    ASSUME NEW s \in SeenSet
    PROVE  /\ \A v \in BOOLEAN : [s EXCEPT !.crossed = v] \in SeenSet
                                 /\ [s EXCEPT !.failed = v] \in SeenSet /\ [s EXCEPT !.short = v] \in SeenSet
                                 /\ [s EXCEPT !.failed = v, !.short = v] \in SeenSet
                                 /\ [s EXCEPT !.pristine = v] \in SeenSet
           /\ \A v \in Frequencies \cup {9} : [s EXCEPT !.asked = v] \in SeenSet
           /\ s.crossed \in BOOLEAN /\ s.short \in BOOLEAN /\ s.asked \in Frequencies \cup {9}
BY DEF SeenSet

LEMMA RecordedIs ==
    ASSUME LiveTypes(live), NEW c \in CommandSet, RecordedKey(c) \in Keys
    PROVE  RecordedValue(c) \in Values(RecordedKey(c))
<1>1. CASE c.key \in VfoCommands
  BY <1>1, SnapshotTypes DEF RecordedKey, RecordedValue
<1>2. CASE c.key \notin VfoCommands
  BY <1>2, CommandIs DEF RecordedKey, RecordedValue
<1> QED  BY <1>1, <1>2

LEMMA GoneIs ==
    ASSUME Types, Gone, UNCHANGED << file, tmp, linkVars >>, left' \in LeftSet
    PROVE  Types'
<1>1. \A t \in Threads : thr'[t] = Idle
  BY DEF Gone
<1>2. ThreadTypes(thr')
  BY IdleIs DEF Gone, ThreadTypes
<1>3. writer' \in [who : {"nobody", "saver", "web"}, pc : {"free", "fill", "rename"}, snap : StoreSet]
  BY DefaultsAre DEF Gone, NoWriter
<1>4. DOMAIN synced' \subseteq Replayed
  BY DEF Gone
<1>5. LiveTypes(live') /\ seen' \in SeenSet /\ store' \in StoreSet
  <2>1. seen \in SeenSet
    BY DEF Types
  <2>2. seen.short \in BOOLEAN /\ seen' = [Past EXCEPT !.short = seen.short]
    BY <2>1, SeenIs DEF Gone
  <2>3. seen' \in SeenSet
    BY <2>2, StartsAre, SeenIs
  <2> QED  BY <2>3, StartsAre, DefaultsAre DEF Gone
<1> QED  BY <1>2, <1>3, <1>4, <1>5 DEF Types, Gone, linkVars

LEMMA ImplTypes ==
    ASSUME Types, NEW t \in Threads, Impl(t)
    PROVE  Types'
<1> DEFINE c == thr[t].c
           l == Effect(live, c)
           m == Messages(live, c)
<1>1. /\ LiveTypes(live) /\ ThreadTypes(thr) /\ store \in StoreSet /\ seen \in SeenSet
      /\ dirty \in BOOLEAN
  BY DEF Types
<1>2. c \in CommandSet /\ thr[t] \in ThreadSet
  BY <1>1, ThreadIs
<1>3. LiveTypes(live') /\ store' \in StoreSet /\ seen' \in SeenSet /\ dirty' \in BOOLEAN /\ ThreadTypes(thr')
  <2>1. CASE c.key = "malformed" \/ Refused(live, c)
    BY <2>1, <1>1, <1>2, Next1Is, ThreadSteps DEF Impl
  <2>2. CASE ~(c.key = "malformed" \/ Refused(live, c))
    <3>1. /\ live' = l
          /\ IF SideRefused(live, c)
             THEN store' = [store EXCEPT !.mixer_side = live.mixer_side] /\ dirty' = TRUE
             ELSE UNCHANGED << store, dirty >>
          /\ seen' = [seen EXCEPT !.asked =
                  IF c.key = "frequency"
                  THEN IF \E u \in Threads \ {t} : thr[u].c.key \in {"frequency", "mixer_side"}
                       THEN 9 ELSE c.val
                  ELSE IF c.key = "mixer_side" THEN 9 ELSE @]
          /\ thr' = [thr EXCEPT ![t].out = m,
                                ![t].pc = IF m # << >> THEN "send" ELSE "record"]
      BY <2>2 DEF Impl
    <3>2. LiveTypes(live')
      <4>1. CASE c.key \notin {"reset", "none"}
        BY <1>1, <1>2, <2>2, <3>1, <4>1, EffectTypes
      <4>2. CASE c.key \in {"reset", "none"}
        BY <4>2, <1>1, <3>1 DEF Effect, LiveTypes, LiveSet
      <4> QED  BY <4>1, <4>2
    <3>3. store' \in StoreSet /\ dirty' \in BOOLEAN
      <4>1. live.mixer_side \in Values("mixer_side") /\ "mixer_side" \in Keys
        BY <1>1, LiveIs, ValuesAre, KeysAre DEF LiveTypes
      <4> QED  BY <1>1, <3>1, <4>1, Stored
    <3>4. seen' \in SeenSet
      <4> DEFINE v == IF c.key = "frequency"
                      THEN IF \E u \in Threads \ {t} : thr[u].c.key \in {"frequency", "mixer_side"}
                           THEN 9 ELSE c.val
                      ELSE IF c.key = "mixer_side" THEN 9 ELSE seen.asked
      <4>1. v \in Frequencies \cup {9}
        BY <1>1, <1>2, CommandIs, SeenIs
      <4>2. seen' = [seen EXCEPT !.asked = v]
        BY <3>1
      <4> HIDE DEF v
      <4> QED  BY <1>1, <4>1, <4>2, SeenIs
    <3>5. ThreadTypes(thr')
      <4> DEFINE a == [thr[t] EXCEPT !.out = m]
                 r == [a EXCEPT !.pc = IF m # << >> THEN "send" ELSE "record"]
      <4>1. m \in Seq(TunerSet) /\ (m # << >> => m[1] = c /\ c.key \in {"frequency", "mixer_side"})
        BY <1>2, MessagesAre
      <4>2. thr' = [thr EXCEPT ![t] = r]
        BY <1>1, <3>1 DEF ThreadTypes
      <4> HIDE DEF m
      <4>3. r \in ThreadSet /\ r.out = m /\ r.c = c /\ r.pc = IF m # << >> THEN "send" ELSE "record"
        BY <1>2, <4>1 DEF ThreadSet, Stages
      <4>4. InBranch(r)
        BY <4>1, <4>3 DEF InBranch
      <4> HIDE DEF r
      <4> QED  BY <1>1, <4>2, <4>3, <4>4, ThreadSteps
    <3> QED  BY <3>2, <3>3, <3>4, <3>5
  <2> QED  BY <2>1, <2>2
<1> QED  BY <1>3 DEF Types, Impl, diskVars, procVars, linkVars

LEMMA SendTypes ==
    ASSUME Types, NEW t \in Threads, Send(t)
    PROVE  Types'
<1> DEFINE o == Head(thr[t].out)
           a == [thr[t] EXCEPT !.out = Tail(thr[t].out)]
           pc == IF Variant /\ o.key = "frequency" THEN "side" ELSE "record"
           r == [a EXCEPT !.pc = pc]
<1>1. ThreadTypes(thr) /\ seen \in SeenSet /\ left \in LeftSet /\ pipe \in Seq(TunerSet)
  BY DEF Types
<1>2. thr[t] \in ThreadSet /\ InBranch(thr[t]) /\ thr[t].out \in Seq(TunerSet)
  BY <1>1, ThreadIs
<1>3. thr[t].pc = "send"
  BY DEF Send, At
<1>4. thr[t].out # << >> /\ o \in TunerSet /\ (o.key = "frequency" => thr[t].c.key = "frequency")
      /\ Tail(thr[t].out) \in Seq(TunerSet)
  BY <1>2, <1>3 DEF InBranch
<1>5. thr' = [thr EXCEPT ![t] = r]
  BY <1>1 DEF Send, ThreadTypes
<1>6. r \in ThreadSet /\ r.pc = pc /\ r.c = thr[t].c
  BY <1>2, <1>4 DEF ThreadSet, Stages
<1>7. InBranch(r)
  BY <1>4, <1>6 DEF InBranch
<1> HIDE DEF r
<1>8. ThreadTypes(thr')
  BY <1>1, <1>5, <1>6, <1>7, ThreadSteps
<1>9. pipe' \in Seq(TunerSet) /\ left' \in LeftSet /\ seen' \in SeenSet
  <2>1. CASE pipe' = Append(pipe, o) /\ UNCHANGED << left, seen >>
    BY <1>1, <1>4, <2>1
  <2>2. CASE Spend("faults") /\ seen' = [seen EXCEPT !.asked = 9, !.pristine = FALSE] /\ UNCHANGED pipe
    <3> DEFINE b == [seen EXCEPT !.asked = 9]
    <3>1. b \in SeenSet
      BY <1>1, SeenIs
    <3>2. seen' = [b EXCEPT !.pristine = FALSE]
      BY <2>2
    <3> HIDE DEF b
    <3>3. seen' \in SeenSet
      BY <3>1, <3>2, SeenIs
    <3> QED  BY <1>1, <2>2, <3>3, SpendIs
  <2> QED  BY <2>1, <2>2 DEF Send
<1> QED  BY <1>8, <1>9 DEF Types, Send, diskVars, procVars

LEMMA FollowTypes ==
    ASSUME Types, NEW t \in Threads, FollowFrequency(t)
    PROVE  Types'
<1> DEFINE l == FollowSide(live, thr[t].c.val)
           msg == [key |-> "mixer_side", val |-> l.mixer_side]
           a == [thr[t] EXCEPT !.pc = "send"]
           r == [a EXCEPT !.out = << msg >>]
<1>1. ThreadTypes(thr) /\ LiveTypes(live) /\ store \in StoreSet /\ dirty \in BOOLEAN
  BY DEF Types
<1>2. thr[t] \in ThreadSet /\ InBranch(thr[t]) /\ thr[t].c \in CommandSet /\ thr[t].pc = "side"
  BY <1>1, ThreadIs DEF FollowFrequency, At
<1>12. thr[t].c.key = "frequency"
  BY <1>2 DEF InBranch
<1>3. thr[t].c.val \in Frequencies
  BY <1>2, <1>12, CommandIs
<1>4. LiveTypes(l) /\ l.mixer_side \in DOMAIN Reach
  <2>1. LiveTypes(l)
    BY <1>1, <1>3, FreqTypes
  <2> HIDE DEF l
  <2> QED  BY <2>1, LiveIs DEF LiveTypes
<1>5. live' = l /\ (\/ store' = [store EXCEPT !.mixer_side = l.mixer_side] /\ dirty' = TRUE
                    \/ UNCHANGED << store, dirty >>)
  BY DEF FollowFrequency
<1>6. thr' = [thr EXCEPT ![t] = r]
  BY <1>1 DEF FollowFrequency, ThreadTypes
<1> HIDE DEF l
<1>7. store' \in StoreSet /\ dirty' \in BOOLEAN
  <2>1. l.mixer_side \in Values("mixer_side") /\ "mixer_side" \in Keys
    BY <1>4, ValuesAre, KeysAre
  <2> QED  BY <1>1, <1>5, <2>1, Stored
<1>8. msg \in TunerSet /\ msg.key # "frequency"
  BY <1>4 DEF TunerSet
<1> HIDE DEF msg
<1>9. r \in ThreadSet /\ r.pc = "send" /\ r.out = << msg >> /\ r.c.key = "frequency"
  <2>1. a \in ThreadSet /\ a.pc = "send" /\ a.c.key = "frequency"
    BY <1>2, <1>12 DEF ThreadSet, Stages
  <2>2. << msg >> \in Seq(TunerSet)
    BY <1>8
  <2> HIDE DEF a
  <2> QED  BY <2>1, <2>2 DEF ThreadSet
<1>10. InBranch(r)
  BY <1>8, <1>9 DEF InBranch
<1> HIDE DEF r
<1>11. ThreadTypes(thr')
  BY <1>1, <1>6, <1>9, <1>10, ThreadSteps
<1> QED  BY <1>4, <1>5, <1>7, <1>11 DEF Types, FollowFrequency, diskVars, procVars, linkVars

LEMMA RecordTypes ==
    ASSUME Types, NEW t \in Threads, Record(t)
    PROVE  Types'
<1> DEFINE c == thr[t].c
           k == RecordedKey(c)
<1>1. ThreadTypes(thr) /\ LiveTypes(live) /\ store \in StoreSet /\ DOMAIN synced \subseteq Replayed
  BY DEF Types
<1>2. c \in CommandSet /\ thr[t] \in ThreadSet
  BY <1>1, ThreadIs
<1>3. DOMAIN synced' \subseteq Replayed
  BY <1>1 DEF Record, Set
<1>4. store' \in StoreSet /\ ThreadTypes(thr')
  <2>1. CASE k \in Keys /\ ~replaying /\ store[k] # RecordedValue(c)
    BY <2>1, <1>1, <1>2, RecordedIs, Stored, StageIs DEF Record, Goto, Stages
  <2>2. CASE ~(k \in Keys /\ ~replaying /\ store[k] # RecordedValue(c))
    BY <2>2, <1>1, <1>2, Next1Is, ThreadSteps DEF Record
  <2> QED  BY <2>1, <2>2
<1> QED  BY <1>3, <1>4 DEF Types, Record, diskVars, procVars, linkVars

LEMMA ReceiveTypes ==
    ASSUME Types, Receive
    PROVE  Types'
<1>1. PICK c \in left.offers :
        /\ Spend("commands")
        /\ thr' = [thr EXCEPT !["web"] =
                [Idle EXCEPT !.pc = IF c.key = "reset" THEN "reset" ELSE "impl", !.c = c]]
        /\ seen' = [seen EXCEPT !.pristine = FALSE, !.crossed = @ \/ replaying]
        /\ UNCHANGED << live, synced, store, dirty, replaying, diskVars, procVars, view, linkVars >>
  BY DEF Receive
<1>2. left \in LeftSet /\ seen \in SeenSet /\ ThreadTypes(thr) /\ replaying \in BOOLEAN
  BY DEF Types
<1>3. c \in CommandSet
  BY <1>2, LeftIs
<1>4. left' \in LeftSet
  BY <1>1, <1>2, SpendIs
<1>5. seen' \in SeenSet
  <2> DEFINE a == [seen EXCEPT !.pristine = FALSE]
             v == seen.crossed \/ replaying
  <2>1. a \in SeenSet /\ a.crossed = seen.crossed /\ v \in BOOLEAN
    BY <1>2 DEF SeenSet
  <2>2. seen' = [a EXCEPT !.crossed = v]
    BY <1>1, <2>1
  <2> HIDE DEF a, v
  <2> QED  BY <2>1, <2>2, SeenIs
<1>6. ThreadTypes(thr')
  <2> DEFINE p == IF c.key = "reset" THEN "reset" ELSE "impl"
             a == [Idle EXCEPT !.pc = p]
             r == [a EXCEPT !.c = c]
  <2>1. a \in ThreadSet /\ a.pc = p
    BY IdleIs DEF ThreadSet, Stages
  <2>2. p \notin {"send", "side"}
    OBVIOUS
  <2>3. thr' = [thr EXCEPT !["web"] = r]
    BY <1>1
  <2> HIDE DEF a, p
  <2>4. r \in ThreadSet /\ r.pc = p
    BY <1>3, <2>1 DEF ThreadSet
  <2> HIDE DEF r
  <2>5. InBranch(r)
    BY <2>2, <2>4 DEF InBranch
  <2> QED  BY <1>2, <2>3, <2>4, <2>5, ThreadSteps DEF Threads
<1> QED  BY <1>1, <1>4, <1>5, <1>6 DEF Types, diskVars, procVars, linkVars

LEMMA TypesKept ==
    ASSUME Types, OneWriter, [Next]_vars
    PROVE  Types'
<1>0. /\ LiveTypes(live) /\ ThreadTypes(thr) /\ store \in StoreSet /\ seen \in SeenSet
      /\ left \in LeftSet /\ pipe \in Seq(TunerSet)
      /\ heim \in [frequency : Frequencies, mixer_side : DOMAIN Reach]
      /\ writer \in [who : {"nobody", "saver", "web"}, pc : {"free", "fill", "rename"}, snap : StoreSet]
  BY DEF Types
<1>1. CASE Boot
  <2>1. store' \in StoreSet /\ live' = LiveInit /\ synced' = << >>
    BY <1>1, FilesAre DEF Boot, Types
  <2>2. DOMAIN synced' \subseteq Replayed
    BY <2>1
  <2>3. IsFile(file') /\ IsFile(tmp') /\ left' \in LeftSet /\ seen' \in SeenSet
    <3>1. [Past EXCEPT !.failed = TRUE, !.short = TRUE] \in SeenSet
      BY StartsAre, SeenIs
    <3>2. CASE file' = store' /\ seen' = Past /\ UNCHANGED left
      BY <1>0, <1>1, <2>1, <3>2, FilesAre, StartsAre DEF Boot
    <3>3. CASE Spend("disk") /\ file' \in {file} \cup ShortOf(store') /\ seen' = [Past EXCEPT !.failed = TRUE, !.short = TRUE]
      BY <1>0, <1>1, <2>1, <3>1, <3>3, FilesAre, SpendIs DEF Boot, Types
    <3> QED  BY <1>1, <3>2, <3>3 DEF Boot
  <2>4. /\ saver' = "sleep" /\ dirty' = FALSE /\ replaying' = FALSE /\ phase' = "up"
        /\ UNCHANGED << thr, writer, linkVars >>
    BY <1>1 DEF Boot
  <2> QED  BY <1>0, <2>1, <2>2, <2>3, <2>4, StartsAre DEF Types, linkVars
<1>2. CASE Crash
  BY <1>0, <1>2, SpendIs, GoneIs DEF Crash
<1>3. CASE Shutdown
  BY <1>0, <1>3, SpendIs DEF Shutdown, Types, diskVars, linkVars
<1>4. CASE FinalFlush
  BY <1>4 DEF FinalFlush, Types, procVars, linkVars
<1>5. CASE Exit
  BY <1>0, <1>5, GoneIs DEF Exit
<1>6. CASE Receive
  BY <1>6, ReceiveTypes
<1>7. CASE \E t \in Threads : Run(t)
  <2>1. PICK t \in Threads : Run(t)
    BY <1>7
  <2>2. CASE Impl(t)
    BY <2>2, ImplTypes
  <2>3. CASE Send(t)
    BY <2>3, SendTypes
  <2>4. CASE FollowFrequency(t)
    BY <2>4, FollowTypes
  <2>5. CASE Record(t)
    BY <2>5, RecordTypes
  <2>6. CASE Mark(t)
    BY <1>0, ThreadIs, <2>6, Next1Is, ThreadSteps DEF Mark, Types, diskVars, procVars, linkVars
  <2>7. CASE EndReplay(t)
    BY <1>0, <2>7, IdleIs, ThreadSteps DEF EndReplay, Types, diskVars, linkVars
  <2> QED  BY <2>1, <2>2, <2>3, <2>4, <2>5, <2>6, <2>7 DEF Run
<1>8. CASE ApplyPersisted
  <2>1. ThreadTypes(thr') /\ replaying' = TRUE
    <3> DEFINE r == Next1("recv", [Idle EXCEPT !.role = "replay", !.todo = Commands(store)])
    <3>1. thr' = [thr EXCEPT !["recv"] = r] /\ replaying' = TRUE
      BY <1>8 DEF ApplyPersisted, StartReplay
    <3>2. r \in ThreadSet /\ InBranch(r)
      BY <1>0, ReplayIs
    <3> HIDE DEF r
    <3> QED  BY <1>0, <3>1, <3>2, ThreadSteps DEF Threads
  <2>2. seen' \in SeenSet
    BY <1>0, <1>8, SeenIs DEF ApplyPersisted
  <2> QED  BY <1>8, <2>1, <2>2 DEF ApplyPersisted, Types, diskVars, procVars, linkVars
<1>9. CASE Reset
  <2>1. CASE ResetStore
    <3>1. ThreadTypes(thr')
      BY <2>1, <1>0, StageIs DEF ResetStore, Goto, Threads, Stages
    <3> QED  BY <2>1, <3>1, DefaultsAre DEF ResetStore, Types, diskVars, procVars, linkVars
  <2>2. CASE ResetClean
    <3>1. ThreadTypes(thr')
      BY <2>2, <1>0, StageIs DEF ResetClean, Goto, Threads, Stages
    <3> QED  BY <2>2, <3>1 DEF ResetClean, Types, diskVars, procVars, linkVars
  <2>3. CASE ResetReplay
    <3>1. ThreadTypes(thr') /\ replaying' = TRUE
      <4> DEFINE r == Next1("web", [Idle EXCEPT !.role = "replay", !.todo = Commands(store)])
      <4>1. thr' = [thr EXCEPT !["web"] = r] /\ replaying' = TRUE
        BY <2>3 DEF ResetReplay, StartReplay
      <4>2. r \in ThreadSet /\ InBranch(r)
        BY <1>0, ReplayIs
      <4> HIDE DEF r
      <4> QED  BY <1>0, <4>1, <4>2, ThreadSteps DEF Threads
    <3> QED  BY <2>3, <3>1 DEF ResetReplay, Types, diskVars, procVars, linkVars
  <2> QED  BY <1>9, <2>1, <2>2, <2>3 DEF Reset
<1> DEFINE Writers == [who : {"nobody", "saver", "web"}, pc : {"free", "fill", "rename"}, snap : StoreSet]
<1>10. ASSUME NEW who, WriteDone(who)
       PROVE  writer' \in Writers /\ ThreadTypes(thr')
              /\ saver' \in {"sleep", "write", "joined", "final", "ended"}
  <2>1. writer' \in Writers
    BY <1>10, DefaultsAre DEF WriteDone, NoWriter
  <2>2. CASE who = "web"
    <3>1. ThreadTypes(thr')
      <4>1. thr' = [thr EXCEPT !["web"].pc = "written"]
        BY <1>10, <2>2 DEF WriteDone, Goto
      <4>2. "web" \in Threads /\ "written" \in Stages \ {"send", "side"}
        BY DEF Threads, Stages
      <4> QED  BY <1>0, <4>1, <4>2, StageIs
    <3> QED  BY <1>10, <2>1, <2>2, <3>1 DEF WriteDone, Types
  <2>3. CASE who # "web"
    BY <1>0, <1>10, <2>1, <2>3 DEF WriteDone
  <2> QED  BY <2>2, <2>3
<1>11. CASE Write \/ WriteShort
  <2>1. CASE \E who \in {"saver", "web"} : WriteStart(who)
    <3>1. PICK who \in {"saver", "web"} : WriteStart(who)
      BY <2>1
    <3>2. writer' \in Writers
      BY <1>0, <3>1 DEF WriteStart
    <3> QED  BY <3>1, <3>2, FilesAre DEF WriteStart, Types, procVars, linkVars
  <2>2. CASE WriteFill
    BY <1>0, <2>2, FilesAre DEF WriteFill, Types, procVars, linkVars
  <2>3. CASE WriteRename
    BY <1>0, <2>3, SeenIs, <1>10, FilesAre DEF WriteRename, Renamed, Types, procVars, linkVars
  <2>4. CASE WriteShort
    BY <1>0, <2>4, FilesAre, SpendIs DEF WriteShort, Types, procVars, linkVars
  <2> QED  BY <1>11, <2>1, <2>2, <2>3, <2>4 DEF Write
<1>12. CASE WriteFails
  <2>1. PICK who \in {"saver", "web"} : WriteDone(who)
    BY <1>12 DEF WriteFails
  <2> QED  BY <1>0, <1>12, <2>1, SpendIs, SeenIs, <1>10 DEF WriteFails, Types, procVars, linkVars
<1>13. CASE SaverWakes
  BY <1>13 DEF SaverWakes, Types, procVars, linkVars
<1>14. CASE Connect
  BY <1>14 DEF Connect, Types, diskVars, procVars, linkVars
<1>15. CASE HeimTakes
  <2> DEFINE c == Head(pipe)
  <2>1. c \in TunerSet /\ pipe' \in Seq(TunerSet)
    BY <1>0, <1>15 DEF HeimTakes
  <2>2. heim' \in [frequency : Frequencies, mixer_side : DOMAIN Reach]
        /\ left' \in LeftSet /\ seen' \in SeenSet
    <3>1. Obeyed(c) \in [frequency : Frequencies, mixer_side : DOMAIN Reach]
      BY <1>0, <2>1, ObeyedIs
    <3>2. CASE heim' = Obeyed(c) /\ UNCHANGED << left, seen >>
      BY <1>0, <3>1, <3>2
    <3>3. CASE /\ Spend("faults")
               /\ heim' = [Obeyed(c) EXCEPT !.frequency = heim.frequency]
               /\ seen' = [seen EXCEPT !.asked = 9]
      BY <1>0, <3>1, <3>3, SpendIs, SeenIs
    <3> QED  BY <1>15, <3>2, <3>3 DEF HeimTakes
  <2> QED  BY <1>15, <2>1, <2>2 DEF HeimTakes, Types, diskVars, procVars
<1>16. CASE HeimRestarts
  <2>1. left' \in LeftSet /\ seen' \in SeenSet
    BY <1>0, <1>16, SpendIs, SeenIs DEF HeimRestarts
  <2> QED  BY <1>16, <2>1, StartsAre DEF HeimRestarts, Types, diskVars, procVars
<1>17. CASE Header
  BY <1>0, <1>17, FieldsSet DEF Header, Types, diskVars, procVars, linkVars
<1>18. CASE UNCHANGED vars
  BY <1>18 DEF vars, Types
<1> QED  BY <1>1, <1>2, <1>3, <1>4, <1>5, <1>6, <1>7, <1>8, <1>9, <1>11, <1>12, <1>13, <1>14,
            <1>15, <1>16, <1>17, <1>18 DEF Next

-----------------------------------------------------------------------------
(* One writer at a time, and what is not in the file is announced.           *)

\* What a step of a command leaves alone, and how a change of the store is announced.
LEMMA RunFlow ==
    ASSUME Types, Types', NEW t \in Threads, Run(t)
    PROVE  /\ phase \in {"up", "stopping"} /\ UNCHANGED << saver, writer, file, tmp, phase >>
           /\ thr[t].pc \in {"impl", "send", "side", "record", "mark", "end"}
           /\ \A u \in Threads : u # t => thr'[u] = thr[u]
           /\ dirty = TRUE => dirty' = TRUE
           /\ thr[t].pc = "mark" => dirty' = TRUE
           /\ dirty' = TRUE \/ thr'[t].pc = "mark" \/ store' = store
           /\ seen'.failed = seen.failed
<1>0. thr \in [Threads -> ThreadSet] /\ seen \in SeenSet
  BY DEF Types, ThreadTypes
<1>1. CASE Impl(t)
  <2>1. \A u \in Threads : u # t => thr'[u] = thr[u]
    BY <1>0, <1>1 DEF Impl
  <2>2. (dirty' = TRUE \/ dirty' = dirty) /\ (dirty' = TRUE \/ store' = store)
    BY <1>1 DEF Impl
  <2>3. seen'.failed = seen.failed
    BY <1>0, <1>1 DEF Impl, SeenSet
  <2>4. thr[t].pc = "impl"
    BY <1>1 DEF Impl, At
  <2> QED  BY <1>1, <2>1, <2>2, <2>3, <2>4 DEF Impl, At, diskVars, procVars
<1>2. CASE Send(t)
  BY <1>0, <1>2 DEF Send, SeenSet, At, diskVars, procVars
<1>3. CASE FollowFrequency(t)
  BY <1>0, <1>3 DEF FollowFrequency, At, diskVars, procVars
<1>4. CASE Record(t)
  BY <1>0, <1>4 DEF Record, Goto, ThreadSet, At, diskVars, procVars
<1>5. CASE Mark(t)
  BY <1>0, <1>5 DEF Mark, At, diskVars, procVars
<1>6. CASE EndReplay(t)
  BY <1>0, <1>6 DEF EndReplay, At, diskVars
<1> QED  BY <1>1, <1>2, <1>3, <1>4, <1>5, <1>6 DEF Run

\* A thread that was idle starts a command, or a replay of all of them.
LEMMA StartFlow ==
    ASSUME Types, Receive \/ ApplyPersisted
    PROVE  /\ phase \in {"up", "stopping"} /\ UNCHANGED << saver, writer, file, tmp, phase, store, dirty >>
           /\ seen'.failed = seen.failed
           /\ \A u \in Threads : thr'[u] = thr[u] \/ thr[u].pc = "idle"
<1>0. thr \in [Threads -> ThreadSet] /\ seen \in SeenSet
  BY DEF Types, ThreadTypes
<1>1. CASE Receive
  BY <1>0, <1>1 DEF Receive, Threads, SeenSet, diskVars, procVars
<1>2. CASE ApplyPersisted
  BY <1>0, <1>2 DEF ApplyPersisted, StartReplay, Threads, SeenSet, diskVars, procVars
<1> QED  BY <1>1, <1>2

LEMMA ResetFlow ==
    ASSUME Types, Reset
    PROVE  /\ phase \in {"up", "stopping"} /\ UNCHANGED << saver, writer, file, tmp, phase, seen >>
           /\ \A u \in Threads : u # "web" => thr'[u] = thr[u]
           /\ thr["web"].pc \in {"reset", "clean", "written"}
           /\ thr["web"].pc = "reset" => thr'["web"].pc = "clean" /\ dirty' = dirty
           /\ thr["web"].pc = "clean" => thr'["web"].pc = "write" /\ store' = store
           /\ thr["web"].pc = "written" => store' = store /\ dirty' = dirty
<1>0. thr \in [Threads -> ThreadSet] /\ "web" \in Threads
  BY DEF Types, ThreadTypes, Threads
<1>1. CASE ResetStore
  BY <1>0, <1>1 DEF ResetStore, Goto, At, ThreadSet, diskVars, procVars
<1>2. CASE ResetClean
  BY <1>0, <1>2 DEF ResetClean, Goto, At, ThreadSet, diskVars, procVars
<1>3. CASE ResetReplay
  BY <1>0, <1>3 DEF ResetReplay, StartReplay, At, diskVars, procVars
<1> QED  BY <1>1, <1>2, <1>3 DEF Reset

\* The end of a write, whether it succeeded or not; of which of the two who write.
WriteEnds(who) ==
    /\ WriteRename \/ WriteFails
    /\ WriteDone(who)
    /\ MayWrite(who) \/ writer.who = who

LEMMA WriteFlow ==
    ASSUME Types, OneWriter, WriteRename \/ WriteFails
    PROVE  \E who \in {"saver", "web"} :
           /\ WriteEnds(who)
           /\ writer' = NoWriter /\ phase # "down" /\ writer.who \in {"nobody", who}
           /\ \A u \in Threads : u # "web" => thr'[u] = thr[u]
           /\ \/ /\ who = "web" /\ thr["web"].pc = "write"
                 /\ thr'["web"].pc = "written" /\ saver' = saver
              \/ /\ who = "saver" /\ saver \in {"write", "final"}
                 /\ thr' = thr /\ saver' \in {"sleep", "joined", "ended"}
<1>0. thr \in [Threads -> ThreadSet] /\ "web" \in Threads /\ writer.who \in {"nobody", "saver", "web"}
      /\ NoWriter.pc = "free" /\ writer' = NoWriter
  BY DEF Types, ThreadTypes, Threads, NoWriter, WriteRename, WriteFails, WriteDone
<1>1. PICK who \in {"saver", "web"} : WriteEnds(who)
  BY <1>0 DEF WriteRename, WriteFails, WriteEnds, OneWriter
<1>2. WriteDone(who) /\ writer.who \in {"nobody", who} /\ phase # "down"
      /\ (who = "web" => thr["web"].pc = "write") /\ (who = "saver" => saver \in {"write", "final"})
  BY <1>0, <1>1 DEF WriteEnds, MayWrite, Wants, At, OneWriter
<1>3. CASE who = "web"
  BY <1>0, <1>1, <1>2, <1>3 DEF WriteDone, Goto, ThreadSet
<1>4. CASE who = "saver"
  BY <1>0, <1>1, <1>2, <1>4 DEF WriteDone
<1> QED  BY <1>3, <1>4

LEMMA OneWriterKept ==
    ASSUME Types, Types', OneWriter, [Next]_vars
    PROVE  OneWriter'
<1>0. NoWriter.who = "nobody" /\ NoWriter.pc = "free"
  BY DEF NoWriter
<1>1. CASE Boot
  BY <1>0, <1>1 DEF Boot, OneWriter
<1>2. CASE Crash \/ Exit
  BY <1>2, IdleIs, <1>0 DEF Crash, Exit, Gone, OneWriter
<1>3. CASE Shutdown
  BY <1>3 DEF Shutdown, diskVars, OneWriter
<1>4. CASE FinalFlush
  BY <1>0, <1>4 DEF FinalFlush, procVars, OneWriter
<1>5. CASE Receive \/ ApplyPersisted
  BY <1>5, StartFlow DEF OneWriter, Threads
<1>6. CASE \E t \in Threads : Run(t)
  <2>1. PICK t \in Threads : Run(t)
    BY <1>6
  <2>2. writer.who = "web" => t # "web"
    BY <2>1, RunFlow DEF OneWriter
  <2> QED  BY <2>1, <2>2, RunFlow DEF OneWriter, Threads
<1>7. CASE Reset
  BY <1>7, ResetFlow DEF OneWriter
<1>8. CASE \E who \in {"saver", "web"} : WriteStart(who)
  <2>1. PICK who \in {"saver", "web"} : WriteStart(who)
    BY <1>8
  <2>2. writer' = [who |-> who, pc |-> "fill", snap |-> store] /\ phase # "down"
        /\ UNCHANGED << saver, thr, phase >>
    BY <2>1 DEF WriteStart, MayWrite, procVars
  <2>3. writer'.who = who /\ writer'.pc = "fill"
    BY <2>2
  <2>4. who = "web" => thr["web"].pc = "write"
    BY <2>1 DEF WriteStart, MayWrite, Wants, At
  <2>5. who = "saver" => saver \in {"write", "final"}
    BY <2>1 DEF WriteStart, MayWrite, Wants
  <2> QED  BY <2>2, <2>3, <2>4, <2>5 DEF OneWriter
<1>9. CASE WriteFill \/ WriteShort
  BY <1>9, <1>0 DEF WriteFill, WriteShort, procVars, Types, OneWriter
<1>10. CASE WriteRename \/ WriteFails
  <2>1. phase' = phase
    BY <1>10 DEF WriteRename, WriteFails, procVars
  <2> QED  BY <1>0, <1>10, <2>1, WriteFlow DEF OneWriter
<1>11. CASE SaverWakes
  BY <1>11 DEF SaverWakes, procVars, OneWriter
<1>12. CASE Connect \/ HeimTakes \/ HeimRestarts \/ Header
  BY <1>12 DEF Connect, HeimTakes, HeimRestarts, Header, diskVars, procVars, OneWriter
<1>13. CASE UNCHANGED vars
  BY <1>13 DEF vars, OneWriter
<1> QED  BY <1>1, <1>2, <1>3, <1>4, <1>5, <1>6, <1>7, <1>8, <1>9, <1>10, <1>11, <1>12, <1>13
         DEF Next, Write

LEMMA InStepKept ==
    ASSUME Types, Types', OneWriter, OneWriter', InStep, [Next]_vars
    PROVE  InStep'
<1>0. /\ dirty \in BOOLEAN /\ dirty' \in BOOLEAN /\ NoWriter.who = "nobody" /\ NoWriter.pc = "free"
      /\ writer.who \in {"nobody", "saver", "web"} /\ seen \in SeenSet /\ seen' \in SeenSet
      /\ "web" \in Threads
  BY DEF Types, NoWriter, Threads
<1>1. CASE Boot
  <2>1. writer'.who = "nobody"
    BY <1>0, <1>1 DEF Boot, OneWriter
  <2>2. file' = store' \/ seen'.failed
    BY <1>1 DEF Boot, Past
  <2> QED  BY <2>1, <2>2 DEF InStep
<1>2. CASE Crash \/ Exit
  BY <1>0, <1>2 DEF Crash, Exit, Gone, InStep
<1>3. CASE Shutdown
  BY <1>3 DEF Shutdown, diskVars, InStep, Announced
<1>4. CASE FinalFlush
  BY <1>4, <1>0 DEF FinalFlush, procVars, OneWriter, Announced, InStep
<1>5. CASE Receive \/ ApplyPersisted
  <2>1. Announced => Announced'
    <3>1. ASSUME NEW u \in Threads, thr[u].pc = "mark" PROVE Announced'
      <4>1. thr'[u].pc = "mark"
        BY <1>5, <3>1, StartFlow
      <4> QED  BY <4>1 DEF Announced
    <3>2. CASE thr["web"].pc \in {"clean", "write"} /\ writer.who # "web"
      BY <1>0, <1>5, <3>2, StartFlow DEF Announced
    <3>3. CASE dirty
      <4>1. dirty' = dirty
        BY <1>5, StartFlow
      <4> QED  BY <3>3, <4>1 DEF Announced
    <3>4. CASE saver \in {"write", "final"} /\ writer.who # "saver"
      BY <1>5, StartFlow, <3>4 DEF Announced
    <3> QED  BY <3>1, <3>2, <3>3, <3>4 DEF Announced
  <2> QED  BY <1>5, <2>1, StartFlow DEF InStep
<1>6. CASE \E t \in Threads : Run(t)
  <2>1. PICK t \in Threads : Run(t)
    BY <1>6
  <2>2. Announced => Announced'
    <3>1. CASE dirty
      BY <1>0, <2>1, <3>1, RunFlow DEF Announced
    <3>2. ASSUME NEW u \in Threads, thr[u].pc = "mark" PROVE Announced'
      <4>1. CASE u = t
        BY <1>0, <2>1, <3>2, <4>1, RunFlow DEF Announced
      <4>2. CASE u # t
        BY <1>0, <2>1, <3>2, <4>2, RunFlow DEF Announced
      <4> QED  BY <4>1, <4>2
    <3>3. CASE thr["web"].pc \in {"clean", "write"} /\ writer.who # "web"
      BY <1>0, <2>1, <3>3, RunFlow DEF Announced
    <3>4. CASE saver \in {"write", "final"} /\ writer.who # "saver"
      BY <2>1, <3>4, RunFlow DEF Announced
    <3> QED  BY <3>1, <3>2, <3>3, <3>4 DEF Announced
  <2>3. store' = store \/ Announced'
    BY <1>0, <2>1, RunFlow DEF Announced
  <2> QED  BY <2>1, <2>2, <2>3, RunFlow DEF InStep
<1>7. CASE Reset
  <2>1. thr["web"].pc \in {"reset", "clean", "written"} /\ writer.who # "web"
    BY <1>7, ResetFlow DEF OneWriter
  <2>2. thr["web"].pc \in {"reset", "clean"} => Announced'
    BY <1>7, <2>1, ResetFlow DEF Announced
  <2>3. thr["web"].pc = "written" => store' = store /\ dirty' = dirty
    BY <1>7, ResetFlow
  <2>4. thr["web"].pc = "written" /\ Announced => Announced'
    <3>1. ASSUME NEW u \in Threads, thr[u].pc = "mark", thr["web"].pc = "written" PROVE Announced'
      <4>1. u # "web"
        BY <3>1
      <4> QED  BY <1>7, <3>1, <4>1, ResetFlow DEF Announced
    <3> QED  BY <1>7, <2>3, <3>1, ResetFlow DEF Announced
  <2> QED  BY <1>7, <2>1, <2>2, <2>3, <2>4, ResetFlow DEF InStep
<1>8. CASE \E who \in {"saver", "web"} : WriteStart(who)
  <2>1. PICK who \in {"saver", "web"} : WriteStart(who)
    BY <1>8
  <2>2. writer' = [who |-> who, pc |-> "fill", snap |-> store] /\ store' = store
    BY <2>1 DEF WriteStart
  <2>3. writer'.snap = store' /\ writer'.who # "nobody"
    BY <2>2
  <2> QED  BY <2>3 DEF InStep
<1>9. CASE WriteFill \/ WriteShort
  BY <1>9, <1>0 DEF WriteFill, WriteShort, procVars, Types, OneWriter, InStep, Announced
<1>10. CASE WriteRename \/ WriteFails
  <2>1. PICK who \in {"saver", "web"} :
           /\ writer' = NoWriter /\ phase # "down" /\ writer.who \in {"nobody", who}
           /\ \A u \in Threads : u # "web" => thr'[u] = thr[u]
           /\ \/ /\ who = "web" /\ thr["web"].pc = "write"
                 /\ thr'["web"].pc = "written" /\ saver' = saver
              \/ /\ who = "saver" /\ saver \in {"write", "final"}
                 /\ thr' = thr /\ saver' \in {"sleep", "joined", "ended"}
    BY <1>10, WriteFlow
  <2>2. writer'.who = "nobody" /\ UNCHANGED << store, dirty, phase >>
    BY <1>0, <1>10, <2>1 DEF WriteRename, WriteFails, procVars
  <2>4. CASE WriteRename
    <3>1. writer.who = who /\ writer.who # "nobody" /\ file' = tmp /\ seen'.failed = (tmp # writer.snap)
      BY <1>0, <2>1, <2>4 DEF WriteRename, Renamed, OneWriter, SeenSet
    <3>2. Announced => Announced'
      <4>1. ASSUME NEW u \in Threads, thr[u].pc = "mark" PROVE Announced'
        <5>1. thr'[u].pc = "mark"
          BY <2>1, <4>1
        <5> QED  BY <5>1 DEF Announced
      <4>2. CASE thr["web"].pc \in {"clean", "write"} /\ writer.who # "web"
        BY <1>0, <2>1, <2>2, <3>1, <4>2 DEF Announced
      <4>3. CASE saver \in {"write", "final"} /\ writer.who # "saver"
        BY <1>0, <2>1, <2>2, <3>1, <4>3 DEF Announced
      <4> QED  BY <2>2, <4>1, <4>2, <4>3 DEF Announced
    <3> QED  BY <2>2, <3>1, <3>2 DEF InStep
  <2>5. CASE WriteFails
    <3>1. seen'.failed = TRUE
      BY <1>0, <2>5 DEF WriteFails, SeenSet
    <3> QED  BY <2>2, <3>1 DEF InStep
  <2> QED  BY <1>10, <2>4, <2>5
<1>11. CASE SaverWakes
  BY <1>11, <1>0 DEF SaverWakes, procVars, OneWriter, Announced, InStep
<1>12. CASE Connect \/ HeimTakes \/ HeimRestarts \/ Header
  BY <1>12, <1>0 DEF Connect, HeimTakes, HeimRestarts, Header, diskVars, procVars, SeenSet, InStep,
     Announced
<1>13. CASE UNCHANGED vars
  BY <1>13 DEF vars, InStep, Announced
<1> QED  BY <1>1, <1>2, <1>3, <1>4, <1>5, <1>6, <1>7, <1>8, <1>9, <1>10, <1>11, <1>12, <1>13
         DEF Next, Write

\* Only a write that came short leaves a file that lacks a setting.
LEMMA FileKept ==
    ASSUME Types, FileWhole, [Next]_vars
    PROVE  FileWhole'
<1>0. seen \in SeenSet
  BY DEF Types
<1>1. CASE Boot
  BY <1>1 DEF Boot, Past, FileWhole, Loaded
<1>2. CASE Crash \/ Exit
  BY <1>2 DEF Crash, Exit, Gone, Past, FileWhole
<1>3. CASE WriteRename
  <2>1. DOMAIN writer.snap = Keys
    BY StoresAre DEF Types
  <2> QED  BY <1>0, <1>3, <2>1 DEF WriteRename, Renamed, FileWhole, SeenSet
<1>4. file' = file /\ seen'.short = seen.short => FileWhole'
  BY DEF FileWhole
<1>5. CASE Shutdown \/ FinalFlush \/ SaverWakes \/ Connect \/ HeimTakes \/ HeimRestarts \/ Header \/ UNCHANGED vars
  BY <1>0, <1>4, <1>5 DEF Shutdown, FinalFlush, SaverWakes, Connect, HeimTakes, HeimRestarts, Header,
     diskVars, vars, SeenSet
<1>6. CASE (\E who \in {"saver", "web"} : WriteStart(who)) \/ WriteFill \/ WriteShort \/ WriteFails
  BY <1>0, <1>4, <1>6 DEF WriteStart, WriteFill, WriteShort, WriteFails, SeenSet
<1>7. CASE Receive \/ ApplyPersisted \/ Reset
  BY <1>0, <1>4, <1>7 DEF Receive, ApplyPersisted, Reset, ResetStore, ResetClean, ResetReplay, diskVars, SeenSet
<1>8. ASSUME NEW t \in Threads, Run(t) PROVE FileWhole'
  <2>1. CASE Impl(t)
    BY <1>0, <1>4, <2>1 DEF Impl, diskVars, SeenSet
  <2>2. CASE Send(t)
    BY <1>0, <1>4, <2>2 DEF Send, diskVars, SeenSet
  <2>3. CASE FollowFrequency(t) \/ Record(t) \/ Mark(t) \/ EndReplay(t)
    BY <1>4, <2>3 DEF FollowFrequency, Record, Mark, EndReplay, diskVars
  <2> QED  BY <1>8, <2>1, <2>2, <2>3 DEF Run
<1> QED  BY <1>1, <1>2, <1>3, <1>5, <1>6, <1>7, <1>8 DEF Next, Write

(***************************************************************************)
(* The inductive invariant: the settings keep their types, a write is made *)
(* by one of its three users at a time, and what differs from the file is  *)
(* announced by the flag, by a thread about to raise it, by a reset or a   *)
(* saver about to write, or is in the hands of the one who writes.         *)
(***************************************************************************)
SaverInv == Types /\ OneWriter /\ InStep /\ FileWhole

LEMMA SaverStarts == Init => SaverInv
<1> SUFFICES ASSUME Init PROVE SaverInv
  OBVIOUS
<1>1. left \in LeftSet
  BY BoundsAssumption, OfferedIs DEF Init, LeftSet
<1>2. ThreadTypes(thr) /\ \A t \in Threads : thr[t].pc = "idle"
  BY IdleIs DEF Init, ThreadTypes
<1>3. writer \in [who : {"nobody", "saver", "web"}, pc : {"free", "fill", "rename"}, snap : StoreSet]
      /\ writer.who = "nobody" /\ writer.pc = "free"
  BY DefaultsAre DEF Init, NoWriter
<1>4. DOMAIN synced \subseteq Replayed /\ pipe \in Seq(TunerSet)
  <2>1. DOMAIN << >> = {}
    OBVIOUS
  <2> QED  BY <2>1 DEF Init
<1>5. Types
  BY <1>1, <1>2, <1>3, <1>4, DefaultsAre, StartsAre, FilesAre, SeenIs DEF Init, Types
<1>6. OneWriter /\ InStep /\ FileWhole
  BY <1>2, <1>3 DEF Init, OneWriter, InStep, FileWhole, Past
<1> QED  BY <1>5, <1>6 DEF SaverInv

\* The settings that are saved: every step keeps the invariant, for any commands of
\* the browsers, any writes that fail and any end of the process (settings_store.cpp).
THEOREM SaverInvariant == Spec => []SaverInv
<1>1. SaverInv /\ [Next]_vars => SaverInv'
  BY TypesKept, OneWriterKept, InStepKept, FileKept DEF SaverInv
<1> QED  BY <1>1, SaverStarts, PTL DEF Spec

\* The file holds every setting at every instant after the first write and however the
\* process ends, but for a write that came short and was renamed all the same; what it
\* is behind is announced, unless a write failed or came short (write_now, record, flush).
THEOREM SaverCorrect == Spec => []SaverSound
<1>1. SaverInv => TypeOK
  <2> SUFFICES ASSUME SaverInv PROVE TypeOK
    OBVIOUS
  <2>1. LiveTypes(live) /\ live \in LiveSet
    BY DEF SaverInv, Types, LiveTypes
  <2>2. Cardinality(Ids(live)) = Len(live.vfos)
    BY <2>1, IdsAre
  <2>3. DOMAIN store = Keys
    BY StoresAre DEF SaverInv, Types
  <2> QED  BY <2>1, <2>2, <2>3, LiveIs DEF SaverInv, Types, LiveTypes, TypeOK
<1>2. SaverInv => DirtyOrSaved
  <2> SUFFICES ASSUME SaverInv, phase # "down", ~dirty, writer = NoWriter, saver \notin {"write", "final"},
                      \A t \in Threads : thr[t].pc \notin {"mark", "clean", "write"}
               PROVE  file = store \/ seen.failed
    BY DEF DirtyOrSaved
  <2>1. writer.who = "nobody" /\ "web" \in Threads
    BY DEF NoWriter, Threads
  <2>2. ~Announced
    BY <2>1 DEF Announced
  <2> QED  BY <2>1, <2>2 DEF SaverInv, InStep
<1>3. SaverInv => FileWhole
  BY DEF SaverInv
<1>4. SaverInv => SaverSound
  BY <1>1, <1>2, <1>3 DEF SaverSound
<1> QED  BY <1>4, SaverInvariant, PTL

-----------------------------------------------------------------------------
(***************************************************************************)
(* The settings agree. While no command of a browser came across a replay, *)
(* one thread at a time is in a command, and what is in force, what is     *)
(* stored, what is shown and what heimdall was sent differ only by what    *)
(* that thread has yet to do: the rest of its command, and of its replay.  *)
(***************************************************************************)

\* How many commands of a replay have had their effect.
Carried(r) ==
    IF r.pc = "end" THEN 11
    ELSE IF r.pc = "impl" THEN 10 - Len(r.todo) ELSE 11 - Len(r.todo)

\* A replay runs the rest of the schema with the values of the store; the
\* mixer side alone may have changed since.
AsStored(s, c, i) ==
    /\ c.key = Schema[i]
    /\ c.key # "mixer_side" => c.val = s[c.key]

Rest(s, r) ==
    /\ r.pc \in {"impl", "send", "side", "record", "end"}
    /\ r.pc = "end" => r.todo = << >>
    /\ Len(r.todo) \in 0..10
    /\ r.pc # "end" => AsStored(s, r.c, 11 - Len(r.todo))
    /\ \A i \in 1..Len(r.todo) : AsStored(s, r.todo[i], (11 - Len(r.todo)) + i)

Followed == {"vfos", "fm", "beamforming"}

Current(l, k) ==
    CASE k = "vfos" -> Snapshot(l)
      [] k = "fm" -> l.fm
      [] k = "doa" -> l.doa
      [] k = "beamforming" -> l.beamforming

Position(k) ==
    CASE k = "fm" -> 1
      [] k = "beamforming" -> 8
      [] k = "vfos" -> 10

\* One thread at a time runs commands, and it runs them in the order of the schema.
Alone ==
    /\ \A t \in Threads : thr[t].pc = "idle" => thr[t].role = "user"
    /\ thr["web"].pc = "idle" \/ thr["recv"].pc = "idle"
    /\ replaying <=> \E t \in Threads : thr[t].role = "replay"
    /\ \A t \in Threads : thr[t].role = "replay" => Rest(store, thr[t])
    /\ \A t \in Threads : thr[t].role = "user" => thr[t].todo = << >>
    /\ thr["recv"].role = "user" => thr["recv"].pc = "idle"
    /\ thr["recv"].role = "replay" => ~restored
    /\ \A t \in Threads :
            thr[t].pc = "record" /\ RecordedKey(thr[t].c) \in Followed \cup {"doa"}
            => RecordedValue(thr[t].c) = Current(live, RecordedKey(thr[t].c))

\* A thread that has yet to bring a setting and the store together.
Lags(r, k) ==
    \/ r.role = "replay" /\ Carried(r) < Position(k)
    \/ r.pc \in {"clean", "write", "written"}
    \/ r.pc = "record" /\ r.role = "user" /\ RecordedKey(r.c) = k

Follows ==
    \A k \in Followed :
        \/ Current(live, k) = store[k]
        \/ ~restored /\ thr["recv"].pc = "idle"
        \/ \E t \in Threads : Lags(thr[t], k)

\* A start without commands of browsers: what is in force after each command of the replay.
Progress == IF restored THEN 11 ELSE IF thr["recv"].role = "replay" THEN Carried(thr["recv"]) ELSE 0

Clipped(e) == IF e = 9 THEN 1 ELSE e

Brings(l, s, p) ==
    /\ ~l.wideband
    /\ p < 8 => ~l.beamforming
    /\ p >= 1 => l.fm = s.fm
    /\ p \in 2..7 => l.doa = s.doa
    /\ p >= 8 => l.beamforming = s.beamforming /\ l.doa = (s.doa \/ s.beamforming)
    /\ p >= 9 => l.edge_clip = Clipped(s.edge_clip)
    /\ p >= 10 => Snapshot(l) = s.vfos
    /\ p >= 11 => l.ui = s.ui

Restores == ~seen.crossed /\ thr["web"].pc = "idle" /\ Brings(live, store, Progress)

Shows ==
    view # Nothing =>
        /\ {"fm", "doa"} \subseteq DOMAIN view /\ view["doa"] = live.doa
        /\ view["fm"] = live.fm \/ \E t \in Threads : thr[t].pc = "record" /\ thr[t].c.key = "fm"
        /\ \A k \in DOMAIN synced : k \in DOMAIN view /\ view[k] = synced[k]

\* What becomes of the last retune: its thread has yet to send it; it has been
\* sent and its side has not; both have.
Retunes(t) == thr[t].c.key = "frequency" /\ thr[t].pc \notin {"idle", "impl"}

AskedSent ==
    IF pipe = << >> THEN heim.frequency = seen.asked
    ELSE pipe[Len(pipe)] = [key |-> "frequency", val |-> seen.asked]

SideSent ==
    IF pipe = << >> THEN heim.frequency = seen.asked /\ heim.mixer_side = live.mixer_side
    ELSE /\ pipe[Len(pipe)] = [key |-> "mixer_side", val |-> live.mixer_side]
         /\ IF Len(pipe) = 1 THEN heim.frequency = seen.asked
            ELSE pipe[Len(pipe) - 1] = [key |-> "frequency", val |-> seen.asked]

Retuning(t) ==
    /\ thr[t].c.val = seen.asked
    /\ \/ thr[t].pc = "send" /\ thr[t].out = << thr[t].c >>
       \/ thr[t].pc = "side" /\ AskedSent
       \/ /\ thr[t].pc = "send"
          /\ thr[t].out = << [key |-> "mixer_side", val |-> live.mixer_side] >>
          /\ AskedSent /\ seen.asked \in Reach[live.mixer_side]
       \/ thr[t].pc \in {"record", "mark"} /\ SideSent /\ seen.asked \in Reach[live.mixer_side]

\* What holds of the last retune while it counts.
Converging ==
    /\ \A t \in Threads : Retunes(t) => Retuning(t)
    /\ \A t, u \in Threads : Retunes(t) /\ Retunes(u) => t = u
    /\ (\A t \in Threads : ~Retunes(t)) => SideSent /\ seen.asked \in Reach[live.mixer_side]
    /\ \A t \in Threads : thr[t].c.key = "mixer_side" => thr[t].pc # "send"

Converges == Variant /\ seen.asked # 9 => Converging

Down == phase = "down" => \A t \in Threads : thr[t] = Idle

\* What is saved comes back: the offsets in their order and the place of the FM source.
LEMMA RoundTrip ==
    ASSUME NEW l, LiveTypes(l), NEW s \in Values("vfos")
    PROVE  Snapshot(FromSnapshot(l, s)) = s
<1> DEFINE n == Len(s.offsets)
           r == Resized(l, n)
           e(i) == [r.vfos[i] EXCEPT !.offset = s.offsets[i]]
           v == [i \in 1..n |-> e(i)]
           g == FromSnapshot(l, s)
<1>1. s = [fm |-> s.fm, offsets |-> s.offsets] /\ s.fm \in 1..MaxVfos /\ s.offsets \in Seq(Nat)
      /\ n \in s.fm..MaxVfos
  BY ValuesAre
<1>2. n \in 1..MaxVfos /\ s.fm \in 1..n /\ n \in Nat
  BY <1>1, SizesAssumption
<1>3. LiveTypes(r) /\ r \in LiveSet /\ DOMAIN r.vfos = 1..n /\ \A i \in 1..n : r.vfos[i] \in VfoSet
  <2>1. LiveTypes(r) /\ Len(r.vfos) = n
    BY <1>2, ResizedTypes
  <2> HIDE DEF r
  <2> QED  BY <2>1, LiveIs DEF LiveTypes
<1>4. LiveTypes(g)
  BY FromSnapshotTypes
<1>5. g = [r EXCEPT !.vfos = v, !.fmId = r.vfos[s.fm].id]
  BY <1>3 DEF FromSnapshot
<1> HIDE DEF r, g
<1>6. \A i \in 1..n : e(i).id = r.vfos[i].id /\ e(i).offset = s.offsets[i]
  BY <1>3 DEF VfoSet
<1> HIDE DEF e
<1>7. g.vfos = v /\ g.fmId = r.vfos[s.fm].id
  BY <1>3, <1>5 DEF LiveSet
<1>8. DOMAIN v = 1..n /\ Len(v) = n /\ \A i \in 1..n : v[i] = e(i)
  BY <1>2
<1> HIDE DEF v
<1>9. g.fmId = g.vfos[s.fm].id
  BY <1>2, <1>6, <1>7, <1>8
<1>10. g.fmId \in Ids(g)
  BY <1>2, <1>7, <1>8, <1>9 DEF Ids
<1>11. Place(g, g.fmId) = s.fm
  BY <1>4, <1>7, <1>8, <1>10, PlaceIs, <1>2, <1>9 DEF LiveTypes, Distinct
<1>12. [i \in DOMAIN g.vfos |-> g.vfos[i].offset] = s.offsets
  BY <1>6, <1>7, <1>8, <1>1
<1>13. Snapshot(g) = [fm |-> s.fm, offsets |-> s.offsets]
  BY <1>10, <1>11, <1>12 DEF Snapshot
<1> QED  BY <1>1, <1>13 DEF g

\* What a command does to the settings that the properties compare, each by itself.
Same(l, m) ==
    /\ m.vfos = l.vfos /\ m.fmId = l.fmId /\ m.fm = l.fm /\ m.beamforming = l.beamforming
    /\ m.ui = l.ui /\ m.edge_clip = l.edge_clip

LEMMA TuneIs ==
    ASSUME NEW l \in LiveSet, NEW f
    PROVE  /\ Same(l, Tune(l, f)) /\ Same(l, FollowSide(l, f))
           /\ Tune(l, f).mixer_side = l.mixer_side /\ ~Tune(l, f).wideband
           /\ ~l.wideband => Tune(l, f).doa = l.doa
           /\ FollowSide(l, f).doa = l.doa /\ FollowSide(l, f).wideband = l.wideband
           /\ FollowSide(l, f).mixer_side = Kept(l.mixer_side, f)
<1> DEFINE w == LeaveWideband(l)
           b == IF l.wideband THEN w ELSE l
           d == [b EXCEPT !.frequency = f]
           m == FollowSide(l, f)
           k == Kept(l.mixer_side, f)
           g == Ring(f)
           r == IF l.wbTopology /\ Ring(f) # l.ring THEN RingRadius(f) ELSE l.radius
<1>1. Same(l, w) /\ w.mixer_side = l.mixer_side /\ w.wideband = FALSE
      /\ DOMAIN w = DOMAIN l
  BY DEF LeaveWideband, Same, LiveSet
<1>2. Same(l, b) /\ b.mixer_side = l.mixer_side /\ DOMAIN b = DOMAIN l /\ ~b.wideband
      /\ (~l.wideband => b.doa = l.doa)
  <2> HIDE DEF w
  <2> QED  BY <1>1 DEF Same
<1>3. Same(b, d) /\ d.mixer_side = b.mixer_side /\ d.wideband = b.wideband /\ d.doa = b.doa
  <2> HIDE DEF b
  <2>1. DOMAIN b = DOMAIN l
    BY <1>2
  <2> QED  BY <2>1 DEF Same, LiveSet
<1>4. Tune(l, f) = d
  BY DEF Tune
<1>5. Same(l, m) /\ m.doa = l.doa /\ m.wideband = l.wideband /\ m.mixer_side = k
  <2>1. m = [l EXCEPT !.mixer_side = k, !.ring = g, !.radius = r]
    BY DEF FollowSide
  <2> HIDE DEF k, g, r, m
  <2> QED  BY <2>1 DEF Same, LiveSet
<1> HIDE DEF b, d, m
<1> QED  BY <1>2, <1>3, <1>4, <1>5 DEF Same, m

LEMMA EffectIs ==
    ASSUME NEW l, LiveTypes(l), NEW c \in CommandSet
    PROVE  LET m == Effect(l, c)
           IN  /\ c.key \notin VfoCommands \cup {"vfos"} => m.vfos = l.vfos /\ m.fmId = l.fmId
               /\ m.fm = IF c.key = "fm" THEN c.val ELSE l.fm
               /\ m.beamforming = IF c.key = "beamforming" THEN c.val ELSE l.beamforming
               /\ m.ui = IF c.key = "ui" THEN c.val ELSE l.ui
               /\ m.edge_clip = IF c.key = "edge_clip" THEN EdgeClip(l, c.val).edge_clip ELSE l.edge_clip
               /\ c.key \notin {"doa", "beamforming", "frequency", "wideband"} => m.doa = l.doa
               /\ c.key = "doa" => m.doa = c.val
               /\ c.key = "frequency" /\ ~l.wideband => m.doa = l.doa
               /\ c.key = "beamforming" => m.doa = (l.doa \/ (c.val /\ ~l.beamforming))
               /\ c.key # "wideband" /\ ~l.wideband => ~m.wideband
               /\ c.key # "mixer_side" => m.mixer_side = l.mixer_side
               /\ c.key = "vfos" => Snapshot(m) = c.val
<1> DEFINE m == Effect(l, c)
<1>1. l \in LiveSet /\ c.key \in AllKeys /\ c.val \in Values(c.key)
  BY CommandIs DEF LiveTypes
<1>2. CASE c.key = "frequency"
  <2>1. m = Tune(l, c.val)
    BY <1>2 DEF Effect
  <2> HIDE DEF m
  <2> QED  BY <1>1, <1>2, <2>1, TuneIs DEF Same, m
<1>3. CASE c.key = "wideband"
  <2>1. m = Wideband(l, c.val)
    BY <1>3 DEF Effect
  <2>2. Same(l, m) /\ m.mixer_side = l.mixer_side
    BY <1>1, <2>1 DEF Wideband, LeaveWideband, Same, LiveSet
  <2> HIDE DEF m
  <2> QED  BY <1>3, <2>2 DEF Same, m
<1>4. CASE c.key = "mixer_side"
  <2>1. m = l \/ m = [l EXCEPT !.mixer_side = c.val]
    BY <1>4 DEF Effect, MixerSide
  <2>2. Same(l, m) /\ m.doa = l.doa /\ m.wideband = l.wideband
    BY <1>1, <2>1 DEF Same, LiveSet
  <2> HIDE DEF m
  <2> QED  BY <1>4, <2>2 DEF Same, m
<1>5. CASE c.key = "topology"
  <2>1. m = Topology(l, c.val)
    BY <1>5 DEF Effect
  <2>2. Same(l, m) /\ m.doa = l.doa /\ m.wideband = l.wideband /\ m.mixer_side = l.mixer_side
    BY <1>1, <2>1 DEF Topology, Same, LiveSet
  <2> HIDE DEF m
  <2> QED  BY <1>5, <2>2 DEF Same, m
<1>6. CASE c.key \in {"radius", "custom"}
  <2>1. m = l \/ m = [l EXCEPT !.radius = c.val] \/ m = [l EXCEPT !.custom = c.val, !.topology = "CUSTOM"]
    BY <1>6 DEF Effect, Radius, CustomPositions
  <2>2. Same(l, m) /\ m.doa = l.doa /\ m.wideband = l.wideband /\ m.mixer_side = l.mixer_side
    BY <1>1, <2>1 DEF Same, LiveSet
  <2> HIDE DEF m
  <2> QED  BY <1>6, <2>2 DEF Same, m
<1>7. CASE c.key = "beamforming"
  <2> DEFINE d == l.doa \/ (c.val /\ ~l.beamforming)
  <2>1. m = [l EXCEPT !.beamforming = c.val, !.doa = d]
    BY <1>1, <1>7 DEF Effect, Beamforming, LiveSet
  <2> HIDE DEF d
  <2>2. /\ m.vfos = l.vfos /\ m.fmId = l.fmId /\ m.fm = l.fm /\ m.beamforming = c.val /\ m.doa = d
        /\ m.ui = l.ui /\ m.edge_clip = l.edge_clip /\ m.wideband = l.wideband /\ m.mixer_side = l.mixer_side
    BY <1>1, <2>1 DEF LiveSet
  <2> HIDE DEF m
  <2> QED  BY <1>7, <2>2 DEF d, m
<1>8. CASE c.key = "edge_clip"
  <2>1. m = EdgeClip(l, c.val)
    BY <1>8 DEF Effect
  <2>2. /\ m.vfos = l.vfos /\ m.fmId = l.fmId /\ m.fm = l.fm /\ m.beamforming = l.beamforming
        /\ m.doa = l.doa /\ m.ui = l.ui /\ m.wideband = l.wideband /\ m.mixer_side = l.mixer_side
    BY <1>1, <2>1 DEF EdgeClip, LiveSet
  <2> HIDE DEF m
  <2> QED  BY <1>8, <2>1, <2>2 DEF m
<1>9. CASE c.key \in VfoCommands
  <2>1. \E v, id : m = l \/ m = [l EXCEPT !.vfos = v] \/ m = [l EXCEPT !.vfos = v, !.fmId = id]
                   \/ m = [l EXCEPT !.fmId = id]
    <3>1. CASE c.key = "add"
      BY <3>1 DEF Effect, Added
    <3>2. CASE c.key = "remove"
      BY <3>2 DEF Effect, Removed
    <3>3. CASE c.key = "offset"
      BY <3>3 DEF Effect, Offset
    <3>4. CASE c.key = "set_fm"
      BY <3>4 DEF Effect
    <3> QED  BY <1>9, <3>1, <3>2, <3>3, <3>4 DEF VfoCommands
  <2>2. /\ m.fm = l.fm /\ m.beamforming = l.beamforming /\ m.edge_clip = l.edge_clip
        /\ m.doa = l.doa /\ m.ui = l.ui /\ m.wideband = l.wideband /\ m.mixer_side = l.mixer_side
    <3> HIDE DEF m
    <3> QED  BY <1>1, <2>1 DEF LiveSet
  <2> HIDE DEF m
  <2> QED  BY <1>9, <2>2 DEF VfoCommands, m
<1>10. CASE c.key = "vfos"
  <2>1. m = FromSnapshot(l, c.val) /\ c.val \in Values("vfos")
    BY <1>1, <1>10 DEF Effect
  <2>2. Snapshot(m) = c.val
    BY <2>1, RoundTrip
  <2>3. /\ m.fm = l.fm /\ m.beamforming = l.beamforming /\ m.edge_clip = l.edge_clip
        /\ m.doa = l.doa /\ m.ui = l.ui /\ m.wideband = l.wideband /\ m.mixer_side = l.mixer_side
    <3> DEFINE n == Len(c.val.offsets)
               r == Resized(l, n)
    <3>1. \E v, id : r = [l EXCEPT !.vfos = v, !.fmId = id]
      BY DEF Resized
    <3>2. DOMAIN r = DOMAIN l /\ r.fm = l.fm /\ r.beamforming = l.beamforming /\ r.edge_clip = l.edge_clip
          /\ r.doa = l.doa /\ r.ui = l.ui /\ r.wideband = l.wideband /\ r.mixer_side = l.mixer_side
      <4> HIDE DEF r
      <4> QED  BY <1>1, <3>1 DEF LiveSet
    <3>3. \E v, id : m = [r EXCEPT !.vfos = v, !.fmId = id]
      BY <2>1 DEF FromSnapshot
    <3> HIDE DEF r, m
    <3> QED  BY <1>1, <3>2, <3>3 DEF LiveSet
  <2> HIDE DEF m
  <2> QED  BY <1>10, <2>2, <2>3 DEF m
<1>11. CASE c.key = "fm"
  <2>1. m = [l EXCEPT !.fm = c.val]
    BY <1>11 DEF Effect
  <2>2. /\ m.vfos = l.vfos /\ m.fmId = l.fmId /\ m.fm = c.val /\ m.beamforming = l.beamforming
        /\ m.edge_clip = l.edge_clip
        /\ m.doa = l.doa /\ m.ui = l.ui /\ m.wideband = l.wideband /\ m.mixer_side = l.mixer_side
    BY <1>1, <2>1 DEF LiveSet
  <2> HIDE DEF m
  <2> QED  BY <1>11, <2>2 DEF m
<1>12. CASE c.key = "doa"
  <2>1. m = [l EXCEPT !.doa = c.val]
    BY <1>12 DEF Effect
  <2>2. Same(l, m) /\ m.doa = c.val /\ m.wideband = l.wideband /\ m.mixer_side = l.mixer_side
    BY <1>1, <2>1 DEF Same, LiveSet
  <2> HIDE DEF m
  <2> QED  BY <1>12, <2>2 DEF Same, m
<1>13. CASE c.key = "ui"
  <2>1. m = [l EXCEPT !.ui = c.val]
    BY <1>13 DEF Effect
  <2>2. /\ m.vfos = l.vfos /\ m.fmId = l.fmId /\ m.fm = l.fm /\ m.beamforming = l.beamforming
        /\ m.edge_clip = l.edge_clip
        /\ m.doa = l.doa /\ m.ui = c.val /\ m.wideband = l.wideband /\ m.mixer_side = l.mixer_side
    BY <1>1, <2>1 DEF LiveSet
  <2> HIDE DEF m
  <2> QED  BY <1>13, <2>2 DEF m
<1>14. CASE c.key \in {"malformed", "reset", "none"}
  <2>1. m = [l EXCEPT ![c.key] = c.val]
    BY <1>14 DEF Effect
  <2>2. m = l
    BY <1>1, <1>14, <2>1 DEF LiveSet
  <2> HIDE DEF m
  <2> QED  BY <1>14, <2>2 DEF m
<1> HIDE DEF m
<1> QED  BY <1>1, <1>2, <1>3, <1>4, <1>5, <1>6, <1>7, <1>8, <1>9, <1>10, <1>11, <1>12, <1>13,
            <1>14, AllKeysAre DEF VfoCommands

\* The schema by its positions.
LEMMA SchemaAt ==
    /\ \A i \in 1..11 : /\ Schema[i] = "fm" <=> i = 1
                        /\ Schema[i] = "doa" <=> i = 2
                        /\ Schema[i] = "beamforming" <=> i = 8
                        /\ Schema[i] = "edge_clip" <=> i = 9
                        /\ Schema[i] = "vfos" <=> i = 10
                        /\ Schema[i] = "ui" <=> i = 11
                        /\ Schema[i] \in Keys
                        /\ \A k \in Followed : Schema[i] = k <=> i = Position(k)
    /\ \A k \in Followed : Position(k) \in 1..10 /\ k \in Keys
<1>1. /\ Schema[1] = "fm" /\ Schema[2] = "doa" /\ Schema[3] = "mixer_side"
      /\ Schema[4] = "frequency" /\ Schema[5] = "topology" /\ Schema[6] = "radius"
      /\ Schema[7] = "custom" /\ Schema[8] = "beamforming" /\ Schema[9] = "edge_clip"
      /\ Schema[10] = "vfos" /\ Schema[11] = "ui"
  BY DEF Schema
<1>2. \A i \in 1..11 : i = 1 \/ i = 2 \/ i = 3 \/ i = 4 \/ i = 5 \/ i = 6
                       \/ i = 7 \/ i = 8 \/ i = 9 \/ i = 10 \/ i = 11
  OBVIOUS
<1>3. Position("fm") = 1 /\ Position("beamforming") = 8 /\ Position("vfos") = 10
  BY DEF Position
<1>4. \A i \in 1..11 : Schema[i] \in Keys
  BY SchemaIs
<1>5. \A i \in 1..11 : /\ Schema[i] = "fm" <=> i = 1
                       /\ Schema[i] = "doa" <=> i = 2
                       /\ Schema[i] = "beamforming" <=> i = 8
                       /\ Schema[i] = "edge_clip" <=> i = 9
                       /\ Schema[i] = "vfos" <=> i = 10
                       /\ Schema[i] = "ui" <=> i = 11
  <2> SUFFICES ASSUME NEW i \in 1..11
               PROVE /\ Schema[i] = "fm" <=> i = 1
                     /\ Schema[i] = "doa" <=> i = 2
                     /\ Schema[i] = "beamforming" <=> i = 8
                     /\ Schema[i] = "edge_clip" <=> i = 9
                     /\ Schema[i] = "vfos" <=> i = 10
                     /\ Schema[i] = "ui" <=> i = 11
    OBVIOUS
  <2>1. CASE i = 1 \/ i = 2 \/ i = 3 \/ i = 4
    BY <1>1, <2>1
  <2>2. CASE i = 5 \/ i = 6 \/ i = 7 \/ i = 8
    BY <1>1, <2>2
  <2>3. CASE i = 9 \/ i = 10 \/ i = 11
    BY <1>1, <2>3
  <2> QED  BY <1>2, <2>1, <2>2, <2>3
<1>6. \A k \in Followed : k = "fm" \/ k = "beamforming" \/ k = "vfos"
  BY DEF Followed
<1> QED  BY <1>3, <1>4, <1>5, <1>6, KeysAre

\* The command a replay is in, by how many are left.
LEMMA RestIs ==
    ASSUME NEW s, NEW r \in ThreadSet, Rest(s, r), r.pc # "end"
    PROVE  LET i == 11 - Len(r.todo)
           IN  /\ i \in 1..11 /\ Len(r.todo) \in Nat /\ r.c.key = Schema[i] /\ r.c.key \in Keys
               /\ r.c.key # "mixer_side" => r.c.val = s[r.c.key]
               /\ Carried(r) = IF r.pc = "impl" THEN i - 1 ELSE i
<1> DEFINE n == Len(r.todo)
           i == 11 - n
<1>1. n \in 0..10 /\ AsStored(s, r.c, i)
  BY DEF Rest
<1>2. Carried(r) = IF r.pc = "impl" THEN 10 - n ELSE i
  BY DEF Carried
<1> HIDE DEF n
<1>3. i \in 1..11 /\ n \in Nat /\ 10 - n = i - 1
  BY <1>1
<1> HIDE DEF i
<1>4. r.c.key = Schema[i] /\ (r.c.key # "mixer_side" => r.c.val = s[r.c.key])
  BY <1>1 DEF AsStored
<1>5. Schema[i] \in Keys
  BY <1>3, SchemaAt
<1> QED  BY <1>2, <1>3, <1>4, <1>5 DEF n, i

\* A replay goes on to its next command, or to its end.
LEMMA NextOf ==
    ASSUME NEW t, NEW s, NEW r \in ThreadSet, Rest(s, r), r.role = "replay", r.pc = "record"
    PROVE  LET n == Next1(t, r)
           IN  n.role = "replay" /\ n.pc \in {"impl", "end"} /\ Rest(s, n) /\ Carried(n) = Carried(r)
<1> DEFINE n == Next1(t, r)
<1>1. r.todo \in Seq(CommandSet) /\ Len(r.todo) \in 0..10 /\ r.pc # "end"
  BY DEF ThreadSet, Rest
<1>2. CASE r.todo = << >>
  <2>1. n = [Idle EXCEPT !.role = "replay", !.pc = "end"]
    BY <1>2 DEF Next1
  <2>2. n.role = "replay" /\ n.pc = "end" /\ n.todo = << >>
    BY <2>1 DEF Idle
  <2>3. Rest(s, n)
    <3> HIDE DEF n
    <3> QED  BY <2>2 DEF Rest
  <2>4. Len(r.todo) = 0
    BY <1>2
  <2> HIDE DEF n
  <2> QED  BY <1>1, <2>2, <2>3, <2>4 DEF Carried, n
<1>3. CASE r.todo # << >>
  <2> DEFINE h == Head(r.todo)
             d == Tail(r.todo)
  <2>1. n = [r EXCEPT !.pc = "impl", !.c = h, !.todo = d, !.out = << >>]
    BY <1>3 DEF Next1
  <2>2. n.role = "replay" /\ n.pc = "impl" /\ n.c = h /\ n.todo = d
    <3> HIDE DEF h, d
    <3> QED  BY <2>1 DEF ThreadSet
  <2>3. h = r.todo[1] /\ Len(d) = Len(r.todo) - 1 /\ \A i \in 1..Len(d) : d[i] = r.todo[i + 1]
    BY <1>1, <1>3
  <2>9. \E m \in 1..10 : Len(r.todo) = m /\ Len(d) = m - 1
    <3>1. Len(r.todo) \in 1..10 /\ Len(d) = Len(r.todo) - 1
      BY <1>1, <1>3
    <3> HIDE DEF d
    <3> QED  BY <3>1
  <2> HIDE DEF n, h, d
  <2>4. \A i \in 1..Len(r.todo) : AsStored(s, r.todo[i], (11 - Len(r.todo)) + i)
    BY DEF Rest
  <2>5. AsStored(s, h, 11 - Len(d))
    BY <2>9, <2>3, <2>4
  <2>6. \A i \in 1..Len(d) : AsStored(s, d[i], (11 - Len(d)) + i)
    <3>1. ASSUME NEW i \in 1..Len(d) PROVE AsStored(s, d[i], (11 - Len(d)) + i)
      BY <2>9, <2>3, <2>4
    <3> QED  BY <3>1
  <2>7. Rest(s, n)
    <3>1. Len(d) \in 0..10
      BY <2>9
    <3> QED  BY <2>2, <2>5, <2>6, <3>1 DEF Rest
  <2>8. Carried(n) = Carried(r)
    BY <2>2, <2>9 DEF Carried
  <2> QED  BY <2>2, <2>7, <2>8 DEF n
<1> QED  BY <1>2, <1>3

\* A thread at the end of its only command.
LEMMA DoneIs ==
    ASSUME NEW t, NEW r \in ThreadSet, r.role = "user", r.todo = << >>
    PROVE  Next1(t, r) = Idle
<1>1. Next1(t, r) = [Idle EXCEPT !.role = "user", !.pc = "idle"]
  BY DEF Next1
<1> QED  BY <1>1 DEF Idle

\* A replay begins.
LEMMA ReplayRest ==
    ASSUME NEW t, NEW s \in StoreSet
    PROVE  LET r == Next1(t, [Idle EXCEPT !.role = "replay", !.todo = Commands(s)])
           IN  r.role = "replay" /\ r.pc = "impl" /\ Rest(s, r) /\ Carried(r) = 0
<1> DEFINE b == [Idle EXCEPT !.role = "replay", !.todo = Commands(s)]
           w == Commands(s)
           h == Head(w)
           d == Tail(w)
           r == Next1(t, b)
           e(i) == [key |-> Schema[i], val |-> s[Schema[i]]]
<1>1. DOMAIN Schema = 1..11 /\ w = [i \in 1..11 |-> e(i)]
  BY SchemaIs DEF Commands
<1>2. w \in Seq(CommandSet)
  BY CommandsAre
<1>3. \A i \in 1..11 : AsStored(s, e(i), i)
  BY DEF AsStored
<1> HIDE DEF e
<1>4. Len(w) = 11 /\ \A i \in 1..11 : w[i] = e(i)
  BY <1>1, <1>2
<1>5. b.todo = w /\ b.role = "replay" /\ w # << >>
  BY <1>4 DEF Idle
<1> HIDE DEF w
<1>6. h = e(1) /\ Len(d) = 10 /\ \A i \in 1..10 : d[i] = e(i + 1)
  <2>1. h = w[1] /\ Len(d) = Len(w) - 1 /\ \A i \in 1..Len(d) : d[i] = w[i + 1]
    BY <1>2, <1>5
  <2> HIDE DEF h, d
  <2>2. \A i \in 1..10 : i + 1 \in 1..11
    OBVIOUS
  <2> QED  BY <1>4, <2>1, <2>2
<1>7. r = [b EXCEPT !.pc = "impl", !.c = h, !.todo = d, !.out = << >>]
  BY <1>5 DEF Next1
<1> HIDE DEF h, d
<1>8. r.role = "replay" /\ r.pc = "impl" /\ r.c = h /\ r.todo = d
  BY <1>7 DEF Idle
<1> HIDE DEF r
<1>9. \A i \in 1..10 : AsStored(s, d[i], (11 - 10) + i)
  <2>1. ASSUME NEW i \in 1..10 PROVE AsStored(s, d[i], (11 - 10) + i)
    BY <1>3, <1>6
  <2> QED  BY <2>1
<1>10. AsStored(s, h, 11 - 10)
  BY <1>3, <1>6
<1>11. Rest(s, r) /\ Carried(r) = 0
  <2>1. Len(r.todo) = 10 /\ r.c = h /\ r.todo = d
    BY <1>6, <1>8
  <2>2. Rest(s, r)
    BY <1>8, <1>9, <1>10, <2>1 DEF Rest
  <2> QED  BY <1>8, <2>1, <2>2 DEF Carried
<1> QED  BY <1>8, <1>11 DEF r

-----------------------------------------------------------------------------
(* What each step does to the thread that takes it, and to what it touches. *)

Shared == << synced, replaying, restored, phase >>

AskedBy(t, c) ==
    IF c.key = "frequency"
    THEN IF \E u \in Threads \ {t} : thr[u].c.key \in {"frequency", "mixer_side"} THEN 9 ELSE c.val
    ELSE IF c.key = "mixer_side" THEN 9 ELSE seen.asked

OthersStay(t) == \A u \in Threads : u # t => thr'[u] = thr[u]

\* Nothing in the branch of a command that is malformed or finds nothing to change.
Skips(t) ==
    /\ thr[t].c.key \in VfoCommands \cup {"malformed"}
    /\ thr'[t] = Next1(t, thr[t])
    /\ UNCHANGED << live, store, view, seen >>

Effects(t) ==
    LET c == thr[t].c
    IN  /\ live' = Effect(live, c)
        /\ thr'[t].role = thr[t].role /\ thr'[t].todo = thr[t].todo /\ thr'[t].c = c
        /\ thr'[t].out = Messages(live, c)
        /\ thr'[t].pc = IF Messages(live, c) # << >> THEN "send" ELSE "record"
        /\ view' = IF live'.doa # live.doa /\ view # Nothing THEN Set(view, "doa", live'.doa) ELSE view
        /\ \A k \in Keys \ {"mixer_side"} : store'[k] = store[k]
        /\ seen'.crossed = seen.crossed /\ seen'.pristine = seen.pristine
        /\ seen'.asked = AskedBy(t, c)

LEMMA ImplFlow ==
    ASSUME Types, NEW t \in Threads, Impl(t)
    PROVE  /\ thr[t].pc = "impl" /\ phase # "down" /\ OthersStay(t)
           /\ UNCHANGED Shared /\ UNCHANGED << pipe, heim >>
           /\ Skips(t) \/ Effects(t)
<1> DEFINE c == thr[t].c
           m == Messages(live, c)
           q == IF m # << >> THEN "send" ELSE "record"
           w == AskedBy(t, c)
<1>1. thr \in [Threads -> ThreadSet] /\ thr[t] \in ThreadSet /\ seen \in SeenSet /\ store \in StoreSet
  BY ThreadIs DEF Types, ThreadTypes
<1>2. OthersStay(t)
  BY <1>1 DEF Impl, OthersStay
<1>3. CASE c.key = "malformed" \/ Refused(live, c)
  BY <1>3, <1>1, <1>2 DEF Impl, Refused, VfoCommands, Skips, At, procVars, linkVars, Shared
<1>4. CASE ~(c.key = "malformed" \/ Refused(live, c))
  <2>1. /\ live' = Effect(live, c)
        /\ IF live'.doa # live.doa THEN Show("doa", live'.doa) ELSE UNCHANGED view
        /\ \/ store' = [store EXCEPT !.mixer_side = live.mixer_side]
           \/ store' = store
        /\ seen' = [seen EXCEPT !.asked = w]
        /\ thr' = [thr EXCEPT ![t].out = m, ![t].pc = q]
    BY <1>4 DEF Impl, AskedBy
  <2>2. view' = IF live'.doa # live.doa /\ view # Nothing THEN Set(view, "doa", live'.doa) ELSE view
    BY <2>1 DEF Show
  <2>3. \A k \in Keys \ {"mixer_side"} : store'[k] = store[k]
    BY <1>1, <2>1 DEF StoreSet
  <2>4. seen'.crossed = seen.crossed /\ seen'.pristine = seen.pristine /\ seen'.asked = w
    <3> HIDE DEF w
    <3> QED  BY <1>1, <2>1 DEF SeenSet
  <2>5. thr'[t].role = thr[t].role /\ thr'[t].todo = thr[t].todo /\ thr'[t].c = c /\ thr'[t].out = m
        /\ thr'[t].pc = q
    <3>1. thr'[t] = [thr[t] EXCEPT !.out = m, !.pc = q]
      BY <1>1, <2>1
    <3> HIDE DEF m, q
    <3> QED  BY <1>1, <3>1 DEF ThreadSet
  <2>6. Effects(t)
    BY <2>1, <2>2, <2>3, <2>4, <2>5 DEF Effects
  <2> QED  BY <1>2, <2>6 DEF Impl, At, procVars, linkVars, Shared
<1> QED  BY <1>3, <1>4

LEMMA SendFlow ==
    ASSUME Types, NEW t \in Threads, Send(t)
    PROVE  /\ thr[t].pc = "send" /\ phase # "down" /\ OthersStay(t)
           /\ UNCHANGED Shared /\ UNCHANGED << live, store, view, heim >>
           /\ thr'[t].role = thr[t].role /\ thr'[t].todo = thr[t].todo /\ thr'[t].c = thr[t].c
           /\ thr[t].out # << >> /\ thr[t].c.key \in {"frequency", "mixer_side"}
           /\ thr'[t].pc = IF Variant /\ thr[t].out[1].key = "frequency" THEN "side" ELSE "record"
           /\ seen'.crossed = seen.crossed /\ (seen'.pristine => seen.pristine)
           /\ \/ pipe' = Append(pipe, thr[t].out[1]) /\ seen' = seen
              \/ seen'.asked = 9 /\ ~seen'.pristine
<1> DEFINE o == Head(thr[t].out)
           q == IF Variant /\ o.key = "frequency" THEN "side" ELSE "record"
           d == Tail(thr[t].out)
<1>1. thr \in [Threads -> ThreadSet] /\ thr[t] \in ThreadSet /\ seen \in SeenSet /\ InBranch(thr[t])
      /\ thr[t].pc = "send"
  BY ThreadIs DEF Types, ThreadTypes, Send, At
<1>2. OthersStay(t)
  BY <1>1 DEF Send, OthersStay
<1>3. thr[t].out # << >> /\ o = thr[t].out[1] /\ thr[t].c.key \in {"frequency", "mixer_side"}
  BY <1>1 DEF InBranch
<1>4. thr'[t].role = thr[t].role /\ thr'[t].todo = thr[t].todo /\ thr'[t].c = thr[t].c /\ thr'[t].pc = q
  <2>1. thr'[t] = [thr[t] EXCEPT !.out = d, !.pc = q]
    BY <1>1 DEF Send
  <2> HIDE DEF d, q
  <2> QED  BY <1>1, <2>1 DEF ThreadSet
<1>5. /\ seen'.crossed = seen.crossed /\ (seen'.pristine => seen.pristine)
      /\ \/ pipe' = Append(pipe, o) /\ seen' = seen
         \/ seen'.asked = 9 /\ ~seen'.pristine
  <2>1. CASE pipe' = Append(pipe, o) /\ UNCHANGED << left, seen >>
    BY <2>1
  <2>2. CASE Spend("faults") /\ seen' = [seen EXCEPT !.asked = 9, !.pristine = FALSE] /\ UNCHANGED pipe
    BY <1>1, <2>2 DEF SeenSet
  <2> QED  BY <2>1, <2>2 DEF Send
<1> QED  BY <1>1, <1>2, <1>3, <1>4, <1>5 DEF Send, At, procVars, Shared

LEMMA FollowFlow ==
    ASSUME Types, NEW t \in Threads, FollowFrequency(t)
    PROVE  /\ thr[t].pc = "side" /\ phase # "down" /\ OthersStay(t)
           /\ thr[t].c.key = "frequency" /\ thr[t].c.val \in Frequencies
           /\ UNCHANGED Shared /\ UNCHANGED << view, seen, pipe, heim >>
           /\ thr'[t].role = thr[t].role /\ thr'[t].todo = thr[t].todo /\ thr'[t].c = thr[t].c
           /\ thr'[t].pc = "send" /\ live' = FollowSide(live, thr[t].c.val)
           /\ thr'[t].out = << [key |-> "mixer_side", val |-> live'.mixer_side] >>
           /\ \A k \in Keys \ {"mixer_side"} : store'[k] = store[k]
<1> DEFINE l == FollowSide(live, thr[t].c.val)
           o == << [key |-> "mixer_side", val |-> l.mixer_side] >>
<1>1. thr \in [Threads -> ThreadSet] /\ thr[t] \in ThreadSet /\ store \in StoreSet /\ InBranch(thr[t])
      /\ thr[t].pc = "side" /\ thr[t].c \in CommandSet
  BY ThreadIs DEF Types, ThreadTypes, FollowFrequency, At
<1>2. OthersStay(t)
  BY <1>1 DEF FollowFrequency, OthersStay
<1>3. thr[t].c.key = "frequency" /\ thr[t].c.val \in Frequencies
  BY <1>1, CommandIs DEF InBranch
<1>4. thr'[t].role = thr[t].role /\ thr'[t].todo = thr[t].todo /\ thr'[t].c = thr[t].c
      /\ thr'[t].pc = "send" /\ thr'[t].out = o
  <2>1. thr'[t] = [thr[t] EXCEPT !.pc = "send", !.out = o]
    BY <1>1 DEF FollowFrequency
  <2> HIDE DEF o
  <2> QED  BY <1>1, <2>1 DEF ThreadSet
<1>5. \A k \in Keys \ {"mixer_side"} : store'[k] = store[k]
  <2>1. store' = store \/ store' = [store EXCEPT !.mixer_side = l.mixer_side]
    BY DEF FollowFrequency
  <2> HIDE DEF l
  <2> QED  BY <1>1, <2>1 DEF StoreSet
<1>6. live' = l
  BY DEF FollowFrequency
<1> QED  BY <1>1, <1>2, <1>3, <1>4, <1>5, <1>6 DEF FollowFrequency, At, procVars, linkVars, Shared

LEMMA RecordFlow ==
    ASSUME Types, NEW t \in Threads, Record(t)
    PROVE  LET c == thr[t].c
               k == RecordedKey(c)
           IN  /\ thr[t].pc = "record" /\ phase # "down" /\ OthersStay(t) /\ c \in CommandSet
               /\ UNCHANGED << live, seen, pipe, heim, replaying, restored, phase >>
               /\ synced' = IF c.key \in Replayed THEN Set(synced, c.key, c.val) ELSE synced
               /\ view' = IF c.key \in Shown /\ view # Nothing THEN Set(view, c.key, c.val) ELSE view
               /\ \/ /\ k \in Keys /\ ~replaying
                     /\ thr'[t].pc = "mark" /\ thr'[t].role = thr[t].role
                     /\ thr'[t].todo = thr[t].todo /\ thr'[t].c = c
                     /\ store' = [store EXCEPT ![k] = RecordedValue(c)]
                  \/ /\ thr'[t] = Next1(t, thr[t]) /\ store' = store
                     /\ k \in Keys /\ ~replaying => store[k] = RecordedValue(c)
<1> DEFINE c == thr[t].c
           k == RecordedKey(c)
<1>1. thr \in [Threads -> ThreadSet] /\ thr[t] \in ThreadSet /\ thr[t].pc = "record" /\ c \in CommandSet
  BY ThreadIs DEF Types, ThreadTypes, Record, At
<1>2. OthersStay(t)
  BY <1>1 DEF Record, Goto, OthersStay
<1>3. view' = IF c.key \in Shown /\ view # Nothing THEN Set(view, c.key, c.val) ELSE view
  BY DEF Record, Show
<1>4. \/ /\ k \in Keys /\ ~replaying
         /\ thr'[t].pc = "mark" /\ thr'[t].role = thr[t].role
         /\ thr'[t].todo = thr[t].todo /\ thr'[t].c = c
         /\ store' = [store EXCEPT ![k] = RecordedValue(c)]
      \/ /\ thr'[t] = Next1(t, thr[t]) /\ store' = store
         /\ k \in Keys /\ ~replaying => store[k] = RecordedValue(c)
  <2>1. CASE k \in Keys /\ ~replaying /\ store[k] # RecordedValue(c)
    BY <2>1, <1>1 DEF Record, Goto, ThreadSet
  <2>2. CASE ~(k \in Keys /\ ~replaying /\ store[k] # RecordedValue(c))
    BY <2>2, <1>1 DEF Record
  <2> QED  BY <2>1, <2>2
<1> HIDE DEF k
<1> QED  BY <1>1, <1>2, <1>3, <1>4 DEF Record, At, procVars, linkVars, k

LEMMA MarkFlow ==
    ASSUME Types, NEW t \in Threads, Mark(t)
    PROVE  /\ thr[t].pc = "mark" /\ phase # "down" /\ OthersStay(t)
           /\ thr'[t] = Next1(t, thr[t])
           /\ UNCHANGED Shared /\ UNCHANGED << live, store, view, seen, pipe, heim >>
<1>1. thr \in [Threads -> ThreadSet]
  BY DEF Types, ThreadTypes
<1> QED  BY <1>1 DEF Mark, At, procVars, linkVars, Shared, OthersStay

LEMMA EndFlow ==
    ASSUME Types, NEW t \in Threads, EndReplay(t)
    PROVE  /\ thr[t].pc = "end" /\ phase # "down" /\ OthersStay(t)
           /\ thr'[t] = Idle /\ replaying' = FALSE /\ restored' = (restored \/ t = "recv")
           /\ UNCHANGED << synced, phase, live, store, view, seen, pipe, heim >>
<1>1. thr \in [Threads -> ThreadSet]
  BY DEF Types, ThreadTypes
<1> QED  BY <1>1 DEF EndReplay, At, linkVars, OthersStay

LEMMA ReceiveFlow ==
    ASSUME Types, Receive
    PROVE  /\ thr["web"].pc = "idle" /\ phase # "down" /\ OthersStay("web")
           /\ thr'["web"].pc \in {"impl", "reset"} /\ thr'["web"].role = "user" /\ thr'["web"].todo = << >>
           /\ thr'["web"].pc = "reset" => thr'["web"].c.key = "reset"
           /\ UNCHANGED Shared /\ UNCHANGED << live, store, view, pipe, heim >>
           /\ ~seen'.pristine /\ (~seen'.crossed => ~seen.crossed /\ ~replaying)
           /\ seen'.asked = seen.asked
<1>1. thr \in [Threads -> ThreadSet] /\ seen \in SeenSet /\ "web" \in Threads
  BY DEF Types, ThreadTypes, Threads
<1>2. PICK c \in left.offers :
        /\ phase \in {"up", "stopping"} /\ thr["web"].pc = "idle"
        /\ thr' = [thr EXCEPT !["web"] = [Idle EXCEPT !.pc = IF c.key = "reset" THEN "reset" ELSE "impl", !.c = c]]
        /\ seen' = [seen EXCEPT !.pristine = FALSE, !.crossed = @ \/ replaying]
        /\ UNCHANGED << live, synced, store, dirty, replaying, diskVars, procVars, view, linkVars >>
  BY DEF Receive
<1> DEFINE q == IF c.key = "reset" THEN "reset" ELSE "impl"
           w == seen.crossed \/ replaying
<1>3. thr'["web"] = [Idle EXCEPT !.pc = q, !.c = c] /\ OthersStay("web")
  BY <1>1, <1>2 DEF OthersStay
<1>4. thr'["web"].pc = q /\ thr'["web"].role = "user" /\ thr'["web"].todo = << >> /\ thr'["web"].c = c
  <2> HIDE DEF q
  <2> QED  BY <1>3 DEF Idle
<1>5. seen'.pristine = FALSE /\ seen'.crossed = w /\ seen'.asked = seen.asked
  <2>1. seen' = [seen EXCEPT !.pristine = FALSE, !.crossed = w]
    BY <1>1, <1>2 DEF SeenSet
  <2> HIDE DEF w
  <2> QED  BY <1>1, <2>1 DEF SeenSet
<1>6. q \in {"impl", "reset"} /\ (q = "reset" => c.key = "reset")
  OBVIOUS
<1> HIDE DEF q, w
<1>7. thr'["web"].pc = "reset" => thr'["web"].c.key = "reset"
  BY <1>4, <1>6
<1>8. ~seen'.pristine /\ (~seen'.crossed => ~seen.crossed /\ ~replaying)
  BY <1>5 DEF w
<1> QED  BY <1>2, <1>3, <1>4, <1>5, <1>6, <1>7, <1>8 DEF procVars, linkVars, Shared

\* A replay that starts, in either thread.
LEMMA StartReplayFlow ==
    ASSUME Types, NEW t \in Threads, StartReplay(t, store)
    PROVE  /\ OthersStay(t) /\ replaying' = TRUE
           /\ thr'[t].role = "replay" /\ thr'[t].pc = "impl" /\ Rest(store, thr'[t]) /\ Carried(thr'[t]) = 0
<1>1. thr \in [Threads -> ThreadSet] /\ store \in StoreSet
  BY DEF Types, ThreadTypes
<1> DEFINE r == Next1(t, [Idle EXCEPT !.role = "replay", !.todo = Commands(store)])
<1>2. r.role = "replay" /\ r.pc = "impl" /\ Rest(store, r) /\ Carried(r) = 0
  BY <1>1, ReplayRest
<1>3. thr' = [thr EXCEPT ![t] = r] /\ replaying' = TRUE
  BY DEF StartReplay
<1> HIDE DEF r
<1>4. thr'[t] = r /\ OthersStay(t)
  BY <1>1, <1>3 DEF OthersStay
<1> QED  BY <1>2, <1>3, <1>4

LEMMA ApplyFlow ==
    ASSUME Types, ApplyPersisted
    PROVE  /\ thr["recv"].pc = "idle" /\ ~restored /\ phase # "down"
           /\ UNCHANGED << live, synced, store, restored, phase, view, pipe, heim >>
           /\ ~seen'.crossed => ~seen.crossed /\ thr["web"].pc = "idle"
           /\ seen'.pristine = seen.pristine /\ seen'.asked = seen.asked
           /\ StartReplay("recv", store)
<1>1. seen \in SeenSet
  BY DEF Types
<1> DEFINE w == seen.crossed \/ thr["web"].pc # "idle"
<1>2. seen' = [seen EXCEPT !.crossed = w]
  BY <1>1 DEF ApplyPersisted, SeenSet
<1>3. seen'.crossed = w /\ seen'.pristine = seen.pristine /\ seen'.asked = seen.asked
  <2> HIDE DEF w
  <2> QED  BY <1>1, <1>2 DEF SeenSet
<1> QED  BY <1>3 DEF ApplyPersisted, procVars, linkVars

\* The web thread between the stages of a reset, and after a write of its own.
LEMMA StageFlow ==
    ASSUME Types, NEW pc, thr' = [thr EXCEPT !["web"].pc = pc]
    PROVE  /\ OthersStay("web") /\ thr'["web"].pc = pc /\ thr'["web"].role = thr["web"].role
           /\ thr'["web"].todo = thr["web"].todo /\ thr'["web"].c = thr["web"].c
<1>1. thr \in [Threads -> ThreadSet] /\ "web" \in Threads
  BY DEF Types, ThreadTypes, Threads
<1>2. thr'["web"] = [thr["web"] EXCEPT !.pc = pc] /\ thr["web"] \in ThreadSet
  BY <1>1
<1> QED  BY <1>1, <1>2 DEF OthersStay, ThreadSet

\* Steps of the saver, of heimdall, of a browser that connects, and of a packet.
Quiet ==
    \/ Shutdown \/ FinalFlush \/ SaverWakes \/ WriteFill \/ WriteShort
    \/ \E who \in {"saver", "web"} : WriteStart(who)
    \/ WriteEnds("saver")
    \/ Connect \/ HeimTakes \/ HeimRestarts \/ Header
    \/ UNCHANGED vars

LEMMA QuietFlow ==
    ASSUME Types, OneWriter, Quiet
    PROVE  /\ UNCHANGED << thr, replaying, restored, store, synced >>
           /\ seen'.crossed = seen.crossed /\ seen'.pristine = seen.pristine
           /\ phase' = "down" => phase = "down"
           /\ Same(live, live') /\ live'.doa = live.doa /\ live'.wideband = live.wideband
           /\ live'.mixer_side = live.mixer_side
<1>0. seen \in SeenSet /\ live \in LiveSet
  BY DEF Types, LiveTypes
<1>1. CASE Shutdown \/ FinalFlush \/ SaverWakes \/ WriteFill \/ WriteShort
  BY <1>1 DEF Shutdown, FinalFlush, SaverWakes, WriteFill, WriteShort, procVars, diskVars, Same
<1>2. CASE \E who \in {"saver", "web"} : WriteStart(who)
  BY <1>2 DEF WriteStart, procVars, Same
<1>3. CASE WriteEnds("saver")
  BY <1>3, <1>0 DEF WriteEnds, WriteRename, Renamed, WriteFails, procVars, WriteDone, SeenSet, Same
<1>4. CASE Connect
  BY <1>4 DEF Connect, procVars, Same
<1>5. CASE HeimTakes \/ HeimRestarts
  BY <1>5, <1>0 DEF HeimTakes, HeimRestarts, SeenSet, procVars, Same
<1>6. CASE Header
  BY <1>6, <1>0 DEF Header, Same, LiveSet, procVars
<1>7. CASE UNCHANGED vars
  BY <1>7 DEF vars, Same
<1> QED  BY <1>1, <1>2, <1>3, <1>4, <1>5, <1>6, <1>7 DEF Quiet

\* A reset between its stages, and the end of the write it waits for.
ResetWrites ==
    \/ ResetStore \/ ResetClean
    \/ WriteEnds("web")

LEMMA ResetWritesFlow ==
    ASSUME Types, OneWriter, ResetWrites
    PROVE  /\ thr["web"].pc \in {"reset", "clean", "write"} /\ thr'["web"].pc \in {"clean", "write", "written"}
           /\ OthersStay("web") /\ thr'["web"].role = thr["web"].role
           /\ thr'["web"].todo = thr["web"].todo /\ thr'["web"].c = thr["web"].c
           /\ UNCHANGED << live, synced, replaying, restored, phase, view, pipe, heim >>
           /\ seen'.crossed = seen.crossed /\ seen'.pristine = seen.pristine /\ seen'.asked = seen.asked
<1>1. CASE ResetStore
  BY <1>1, StageFlow DEF ResetStore, Goto, At, procVars, linkVars
<1>2. CASE ResetClean
  BY <1>2, StageFlow DEF ResetClean, Goto, At, procVars, linkVars
<1>3. CASE WriteEnds("web")
  <2>1. thr["web"].pc = "write" /\ thr' = [thr EXCEPT !["web"].pc = "written"]
    BY <1>3 DEF WriteEnds, MayWrite, Wants, At, WriteDone, Goto, OneWriter
  <2> QED  BY <1>3, <2>1, StageFlow DEF WriteEnds, WriteRename, Renamed, WriteFails, procVars, linkVars,
              Types, SeenSet
<1> QED  BY <1>1, <1>2, <1>3 DEF ResetWrites

\* The process starts or ends: nobody is in a command and nothing is remembered.
Anew == Boot \/ Crash \/ Exit

LEMMA AnewFlow ==
    ASSUME Down, Anew
    PROVE  /\ \A t \in Threads : thr'[t] = Idle
           /\ ~restored' /\ live' = LiveInit /\ view' = Nothing /\ ~replaying'
           /\ seen'.asked = 9 /\ ~seen'.crossed /\ seen'.pristine
<1>1. CASE Boot
  <2>1. seen' = Past => seen'.asked = 9 /\ ~seen'.crossed /\ seen'.pristine
    BY DEF Past
  <2>2. seen' = [Past EXCEPT !.failed = TRUE, !.short = TRUE]
            => seen'.asked = 9 /\ ~seen'.crossed /\ seen'.pristine
    BY DEF Past
  <2>3. seen'.asked = 9 /\ ~seen'.crossed /\ seen'.pristine
    BY <1>1, <2>1, <2>2 DEF Boot
  <2> QED  BY <1>1, <2>3 DEF Boot, Down
<1>2. CASE Crash \/ Exit
  BY <1>2 DEF Crash, Exit, Gone, Past
<1> QED  BY <1>1, <1>2 DEF Anew

LEMMA StepIs ==
    ASSUME Types, OneWriter, [Next]_vars
    PROVE  \/ Anew \/ Receive \/ ApplyPersisted \/ Quiet \/ ResetWrites \/ ResetReplay
           \/ \E t \in Threads : Impl(t) \/ Send(t) \/ FollowFrequency(t) \/ Record(t) \/ Mark(t) \/ EndReplay(t)
<1>1. CASE UNCHANGED vars
  BY <1>1 DEF Quiet
<1>2. CASE Next
  <2>1. CASE WriteRename \/ WriteFails
    BY <2>1, WriteFlow DEF Quiet, ResetWrites
  <2>2. CASE Write \/ WriteShort
    BY <2>1, <2>2 DEF Write, Quiet
  <2>3. CASE Reset
    BY <2>3 DEF Reset, ResetWrites
  <2>4. CASE \E t \in Threads : Run(t)
    <3>1. PICK t \in Threads : Run(t)
      BY <2>4
    <3>2. Impl(t) \/ Send(t) \/ FollowFrequency(t) \/ Record(t) \/ Mark(t) \/ EndReplay(t)
      BY <3>1 DEF Run
    <3> QED  BY <3>2
  <2>5. CASE Boot \/ Crash \/ Exit
    BY <2>5 DEF Anew
  <2>6. CASE Shutdown \/ FinalFlush \/ SaverWakes \/ Connect \/ HeimTakes \/ HeimRestarts \/ Header
    BY <2>6 DEF Quiet
  <2> QED  BY <1>2, <2>1, <2>2, <2>3, <2>4, <2>5, <2>6 DEF Next
<1> QED  BY <1>1, <1>2

LEMMA DownKept ==
    ASSUME Types, OneWriter, Down, [Next]_vars
    PROVE  Down'
<1>1. CASE Anew
  BY <1>1, AnewFlow DEF Down
<1>2. CASE Receive \/ ApplyPersisted
  BY <1>2, ReceiveFlow, ApplyFlow DEF Shared, Down
<1>3. CASE Quiet
  BY <1>3, QuietFlow DEF Down
<1>4. CASE ResetWrites
  BY <1>4, ResetWritesFlow, IdleIs DEF Down, Threads
<1>5. CASE ResetReplay
  BY <1>5 DEF ResetReplay, At, procVars, Down
<1>6. ASSUME NEW t \in Threads,
             Impl(t) \/ Send(t) \/ FollowFrequency(t) \/ Record(t) \/ Mark(t) \/ EndReplay(t)
      PROVE  Down'
  BY <1>6 DEF Impl, Send, FollowFrequency, Record, Mark, EndReplay, At, procVars, Down
<1> QED  BY <1>1, <1>2, <1>3, <1>4, <1>5, <1>6, StepIs

-----------------------------------------------------------------------------
(* One thread at a time.                                                     *)

LEMMA CurrentSame ==
    ASSUME NEW l, NEW m
    PROVE  /\ m.vfos = l.vfos /\ m.fmId = l.fmId => Snapshot(m) = Snapshot(l)
           /\ Same(l, m) => \A k \in Followed : Current(m, k) = Current(l, k)
<1>1. m.vfos = l.vfos /\ m.fmId = l.fmId => Snapshot(m) = Snapshot(l)
  BY DEF Snapshot, Ids, Place
<1> QED  BY <1>1 DEF Same, Current, Followed

\* What the command of a setting leaves in force, and what it leaves alone.
LEMMA CurrentAfter ==
    ASSUME NEW l, LiveTypes(l), NEW c \in CommandSet
    PROVE  /\ \A k \in Followed : RecordedKey(c) # k => Current(Effect(l, c), k) = Current(l, k)
           /\ c.key \in Followed \cup {"doa"} => Current(Effect(l, c), c.key) = c.val
<1> DEFINE m == Effect(l, c)
<1>1. /\ c.key \notin VfoCommands \cup {"vfos"} => m.vfos = l.vfos /\ m.fmId = l.fmId
      /\ m.fm = IF c.key = "fm" THEN c.val ELSE l.fm
      /\ m.beamforming = IF c.key = "beamforming" THEN c.val ELSE l.beamforming
      /\ c.key = "doa" => m.doa = c.val
      /\ c.key = "vfos" => Snapshot(m) = c.val
  BY EffectIs
<1> HIDE DEF m
<1>2. ASSUME NEW k \in Followed, RecordedKey(c) # k PROVE Current(m, k) = Current(l, k)
  <2>1. CASE k = "vfos"
    BY <1>2, <2>1, <1>1, CurrentSame DEF RecordedKey, Current
  <2>2. CASE k \in {"fm", "beamforming"}
    <3>1. c.key # k
      BY <1>2, <2>2 DEF RecordedKey, VfoCommands
    <3> QED  BY <1>1, <2>2, <3>1 DEF Current
  <2> QED  BY <2>1, <2>2 DEF Followed
<1>3. c.key \in Followed \cup {"doa"} => Current(m, c.key) = c.val
  BY <1>1 DEF Current, Followed
<1> QED  BY <1>2, <1>3 DEF m

LEMMA OthersIdle ==
    ASSUME Alone, NEW t \in Threads, thr[t].pc # "idle"
    PROVE  /\ \A u \in Threads : u # t => thr[u].pc = "idle" /\ thr[u].role = "user" /\ thr[u].todo = << >>
           /\ replaying <=> thr[t].role = "replay"
           /\ t = "recv" => thr[t].role # "user"
           /\ thr[t].role = "replay" => Rest(store, thr[t])
           /\ thr[t].role = "user" => thr[t].todo = << >>
BY DEF Alone, Threads

LEMMA AloneFrom ==
    ASSUME Types', NEW t \in Threads, OthersStay(t),
           \A u \in Threads : u # t => thr[u].pc = "idle" /\ thr[u].role = "user" /\ thr[u].todo = << >>,
           thr'[t].pc = "idle" => thr'[t].role = "user",
           replaying' <=> thr'[t].role = "replay",
           thr'[t].role = "replay" => Rest(store', thr'[t]),
           thr'[t].role = "user" => thr'[t].todo = << >>,
           t = "recv" /\ thr'[t].role = "user" => thr'[t].pc = "idle",
           t = "recv" /\ thr'[t].role = "replay" => ~restored',
           thr'[t].pc = "record" /\ RecordedKey(thr'[t].c) \in Followed \cup {"doa"}
           => (RecordedValue(thr[t].c) = Current(live, RecordedKey(thr[t].c)))'
    PROVE  Alone'
<1>1. \A u \in Threads : u # t => thr'[u].pc = "idle" /\ thr'[u].role = "user" /\ thr'[u].todo = << >>
  BY DEF OthersStay
<1>2. \A u \in Threads : thr'[u].role \in {"user", "replay"}
  BY DEF Types, ThreadTypes, ThreadSet
<1>3. \A u \in Threads : thr'[u].pc = "idle" => thr'[u].role = "user"
  BY <1>1
<1>4. thr'["web"].pc = "idle" \/ thr'["recv"].pc = "idle"
  BY <1>1 DEF Threads
<1>5. replaying' <=> \E u \in Threads : thr'[u].role = "replay"
  BY <1>1
<1>6. \A u \in Threads : thr'[u].role = "replay" => Rest(store', thr'[u])
  BY <1>1
<1>7. \A u \in Threads : thr'[u].role = "user" => thr'[u].todo = << >>
  BY <1>1
<1>8. (thr'["recv"].role = "user" => thr'["recv"].pc = "idle") /\ (thr'["recv"].role = "replay" => ~restored')
  BY <1>1 DEF Threads
<1>9. ASSUME NEW u \in Threads, thr'[u].pc = "record", RecordedKey(thr'[u].c) \in Followed \cup {"doa"}
      PROVE  (RecordedValue(thr[u].c) = Current(live, RecordedKey(thr[u].c)))'
  <2>1. u = t
    BY <1>1, <1>9
  <2> QED  BY <1>9, <2>1
<1> QED  BY <1>3, <1>4, <1>5, <1>6, <1>7, <1>8, <1>9 DEF Alone

LEMMA RestKept ==
    ASSUME NEW s, NEW r \in ThreadSet, NEW w, NEW q, Rest(s, r),
           \A k \in Keys \ {"mixer_side"} : w[k] = s[k],
           q.todo = r.todo, q.c = r.c, r.pc # "end", q.pc \in {"impl", "send", "side", "record"}
    PROVE  Rest(w, q)
<1>1. /\ Len(r.todo) \in 0..10
      /\ AsStored(s, r.c, 11 - Len(r.todo))
      /\ \A i \in 1..Len(r.todo) : AsStored(s, r.todo[i], (11 - Len(r.todo)) + i)
  BY DEF Rest
<1>5. PICK n \in 0..10 : Len(r.todo) = n
  BY DEF Rest
<1>2. ASSUME NEW c, NEW i \in 1..11, AsStored(s, c, i) PROVE AsStored(w, c, i)
  BY <1>2, SchemaAt DEF AsStored
<1>3. AsStored(w, r.c, 11 - Len(r.todo))
  <2>1. 11 - Len(r.todo) \in 1..11
    BY <1>5
  <2> QED  BY <1>1, <1>2, <2>1
<1>4. \A i \in 1..Len(r.todo) : AsStored(w, r.todo[i], (11 - Len(r.todo)) + i)
  <2>1. ASSUME NEW i \in 1..Len(r.todo) PROVE AsStored(w, r.todo[i], (11 - Len(r.todo)) + i)
    <3>1. (11 - Len(r.todo)) + i \in 1..11
      BY <1>5
    <3> QED  BY <1>1, <1>2, <3>1
  <2> QED  BY <2>1
<1> QED  BY <1>1, <1>3, <1>4 DEF Rest

LEMMA RunAlone ==
    ASSUME Types, Types', Alone, NEW t \in Threads,
           Impl(t) \/ Send(t) \/ FollowFrequency(t) \/ Record(t) \/ Mark(t) \/ EndReplay(t)
    PROVE  Alone'
<1>0. thr[t] \in ThreadSet /\ LiveTypes(live) /\ thr[t].c \in CommandSet /\ store \in StoreSet
      /\ thr[t].role \in {"user", "replay"}
  BY ThreadIs DEF Types
<1>1. thr[t].pc # "idle" /\ OthersStay(t)
  BY <1>0, ImplFlow, SendFlow, FollowFlow, RecordFlow, MarkFlow, EndFlow
<1>2. /\ \A u \in Threads : u # t => thr[u].pc = "idle" /\ thr[u].role = "user" /\ thr[u].todo = << >>
      /\ replaying <=> thr[t].role = "replay"
      /\ t = "recv" => thr[t].role # "user"
      /\ thr[t].role = "replay" => Rest(store, thr[t])
      /\ thr[t].role = "user" => thr[t].todo = << >>
  BY <1>1, OthersIdle
<1>3. t = "recv" => ~restored
  BY <1>0, <1>2 DEF Alone
<1>4. CASE Impl(t)
  <2>1. thr[t].pc = "impl" /\ replaying' = replaying /\ restored' = restored
    BY <1>4, ImplFlow DEF Shared
  <2>2. CASE Skips(t)
    <3>1. thr[t].role = "user"
      <4>1. ASSUME thr[t].role = "replay" PROVE FALSE
        BY <1>0, <1>2, <2>1, <4>1, RestIs, <2>2, KeysAre DEF Skips, VfoCommands
      <4> QED  BY <1>0, <4>1
    <3>2. thr'[t] = Idle
      BY <1>0, <1>2, <2>2, <3>1, DoneIs DEF Skips
    <3> QED  BY <1>1, <1>2, <2>1, <3>1, <3>2, IdleIs, AloneFrom
  <2>3. CASE Effects(t)
    <3>1. thr'[t].role = thr[t].role /\ thr'[t].todo = thr[t].todo /\ thr'[t].c = thr[t].c
          /\ thr'[t].pc \in {"send", "record"} /\ live' = Effect(live, thr[t].c)
          /\ \A k \in Keys \ {"mixer_side"} : store'[k] = store[k]
      BY <2>3 DEF Effects
    <3>2. thr[t].role = "replay" => Rest(store', thr'[t])
      BY <1>0, <1>2, <2>1, <3>1, RestKept
    <3>3. RecordedKey(thr[t].c) \in Followed \cup {"doa"}
          => (RecordedValue(thr[t].c))' = Current(live', RecordedKey(thr[t].c))
      <4>1. CASE thr[t].c.key \in VfoCommands
        BY <3>1, <4>1 DEF RecordedKey, RecordedValue, Current
      <4>2. CASE thr[t].c.key \notin VfoCommands
        BY <1>0, <3>1, <4>2, CurrentAfter DEF RecordedKey, RecordedValue
      <4> QED  BY <4>1, <4>2
    <3>4. (RecordedKey(thr[t].c))' = RecordedKey(thr[t].c)
      BY <3>1 DEF RecordedKey
    <3> QED  BY <1>1, <1>2, <1>3, <2>1, <3>1, <3>2, <3>3, <3>4, AloneFrom
  <2> QED  BY <1>4, <2>2, <2>3, ImplFlow
<1>5. CASE Send(t)
  BY <1>5, SendFlow, <1>0, <1>2, RestKept, <1>1, <1>3, AloneFrom DEF Shared, RecordedKey, Followed,
     VfoCommands
<1>6. CASE FollowFrequency(t)
  BY <1>6, FollowFlow, <1>0, <1>2, RestKept, <1>1, <1>3, AloneFrom DEF Shared
<1>7. CASE Record(t)
  <2>1. thr[t].pc = "record" /\ UNCHANGED << replaying, restored >>
    BY <1>7, RecordFlow
  <2>2. CASE thr[t].role = "replay"
    <3>1. thr'[t] = Next1(t, thr[t]) /\ store' = store
      BY <1>2, <1>7, <2>2, RecordFlow
    <3>2. thr'[t].role = "replay" /\ thr'[t].pc \in {"impl", "end"} /\ Rest(store', thr'[t])
      BY <1>0, <1>2, <2>1, <2>2, <3>1, NextOf
    <3> QED  BY <1>1, <1>2, <1>3, <2>1, <2>2, <3>2, AloneFrom
  <2>3. CASE thr[t].role = "user"
    BY <1>0, <1>2, <1>7, <2>3, RecordFlow, DoneIs, <1>1, <2>1, IdleIs, AloneFrom
  <2> QED  BY <1>0, <2>2, <2>3
<1>8. CASE Mark(t)
  <2>1. thr[t].pc = "mark" /\ UNCHANGED << replaying, restored >> /\ thr'[t] = Next1(t, thr[t])
    BY <1>8, MarkFlow DEF Shared
  <2>2. thr[t].role = "user"
    BY <1>0, <1>2, <2>1 DEF Rest
  <2>3. thr'[t] = Idle
    BY <1>0, <1>2, <2>1, <2>2, DoneIs
  <2> QED  BY <1>1, <1>2, <2>1, <2>2, <2>3, IdleIs, AloneFrom
<1>9. CASE EndReplay(t)
  BY <1>9, EndFlow, <1>1, <1>2, IdleIs, AloneFrom
<1> QED  BY <1>4, <1>5, <1>6, <1>7, <1>8, <1>9

LEMMA AloneKept ==
    ASSUME Types, Types', OneWriter, Down, ~seen.crossed => Alone, ~seen'.crossed, [Next]_vars
    PROVE  Alone'
<1>0. "web" \in Threads /\ "recv" \in Threads
  BY DEF Threads
<1>1. CASE Anew
  <2>1. (\A t \in Threads : thr'[t] = Idle) /\ replaying' = FALSE
    <3>1. replaying' \in BOOLEAN
      BY DEF Types
    <3> QED  BY <1>1, <3>1, AnewFlow
  <2>3. \A t \in Threads : thr'[t].pc = "idle" /\ thr'[t].role = "user" /\ thr'[t].todo = << >>
    BY <2>1, IdleIs
  <2> QED  BY <1>0, <2>1, <2>3 DEF Alone
<1>2. CASE Receive
  <2>1. Alone /\ ~replaying /\ thr["web"].pc = "idle"
    BY <1>2, ReceiveFlow
  <2>2. \A u \in Threads : u # "web" => thr[u].pc = "idle" /\ thr[u].role = "user" /\ thr[u].todo = << >>
    BY <2>1 DEF Types, ThreadTypes, ThreadSet, Alone, Threads
  <2> QED  BY <1>0, <1>2, <2>1, <2>2, ReceiveFlow, AloneFrom DEF Shared
<1>3. CASE ApplyPersisted
  BY <1>3, ApplyFlow, <1>0, StartReplayFlow, AloneFrom DEF Alone, Threads
<1>4. CASE Quiet
  <2>1. /\ Alone /\ UNCHANGED << thr, replaying, restored, store >>
        /\ Same(live, live') /\ live'.doa = live.doa
    BY <1>4, QuietFlow
  <2>2. ASSUME NEW t \in Threads, thr[t].pc = "record", RecordedKey(thr[t].c) \in Followed \cup {"doa"}
        PROVE  (RecordedValue(thr[t].c))' = Current(live', RecordedKey(thr[t].c))
    <3>1. RecordedValue(thr[t].c) = Current(live, RecordedKey(thr[t].c))
      BY <2>1, <2>2 DEF Alone
    <3>2. Current(live', RecordedKey(thr[t].c)) = Current(live, RecordedKey(thr[t].c))
      BY <2>1, <2>2, CurrentSame DEF Current
    <3>3. (RecordedValue(thr[t].c))' = RecordedValue(thr[t].c)
      BY <2>1, CurrentSame DEF RecordedValue, Same
    <3> QED  BY <3>1, <3>2, <3>3
  <2>3. \A t \in Threads : (RecordedKey(thr[t].c))' = RecordedKey(thr[t].c)
    BY <2>1 DEF RecordedKey
  <2> QED  BY <2>1, <2>2, <2>3 DEF Alone
<1>5. CASE ResetWrites
  <2>1. /\ thr["web"].pc \in {"reset", "clean", "write"} /\ thr'["web"].pc \in {"clean", "write", "written"}
        /\ OthersStay("web") /\ thr'["web"].role = thr["web"].role /\ thr'["web"].todo = thr["web"].todo
        /\ UNCHANGED << replaying, restored >> /\ Alone
    BY <1>5, ResetWritesFlow
  <2>2. /\ \A u \in Threads : u # "web" => thr[u].pc = "idle" /\ thr[u].role = "user" /\ thr[u].todo = << >>
        /\ replaying <=> thr["web"].role = "replay"
        /\ thr["web"].role = "replay" => Rest(store, thr["web"])
        /\ thr["web"].role = "user" => thr["web"].todo = << >>
    BY <1>0, <2>1, OthersIdle
  <2>3. thr["web"].role # "replay"
    BY <2>1, <2>2 DEF Rest
  <2> QED  BY <1>0, <2>1, <2>2, <2>3, AloneFrom
<1>6. CASE ResetReplay
  BY <1>6, <1>0, OthersIdle, StartReplayFlow, AloneFrom DEF ResetReplay, At, procVars
<1>7. ASSUME NEW t \in Threads,
             Impl(t) \/ Send(t) \/ FollowFrequency(t) \/ Record(t) \/ Mark(t) \/ EndReplay(t)
      PROVE  Alone'
  <2>1. seen'.crossed = seen.crossed
    <3>1. CASE Impl(t)
      BY <3>1, ImplFlow DEF Skips, Effects
    <3> QED  BY <1>7, <3>1, SendFlow, FollowFlow, RecordFlow, MarkFlow, EndFlow
  <2> QED  BY <1>7, <2>1, RunAlone
<1> QED  BY <1>1, <1>2, <1>3, <1>4, <1>5, <1>6, <1>7, StepIs

-----------------------------------------------------------------------------
(* The store follows, and browsers show what is in force.                    *)

\* What is left to show for one thread's step: nobody else moves, and nobody begins to wait.
LEMMA FollowsFrom ==
    ASSUME Types, Follows, NEW t \in Threads, OthersStay(t),
           t = "recv" => thr[t].pc # "idle", t # "recv" /\ ~restored => ~restored',
           \A k \in Followed : Current(live, k) = store[k] \/ Lags(thr[t], k)
                               => Current(live', k) = store'[k] \/ Lags(thr'[t], k)
    PROVE  Follows'
<1> SUFFICES ASSUME NEW k \in Followed
             PROVE  \/ Current(live', k) = store'[k]
                    \/ ~restored' /\ thr'["recv"].pc = "idle"
                    \/ \E u \in Threads : Lags(thr'[u], k)
  BY DEF Follows, Lags
<1>1. CASE Current(live, k) = store[k] \/ Lags(thr[t], k)
  BY <1>1
<1>2. CASE ~restored /\ thr["recv"].pc = "idle"
  BY <1>2 DEF OthersStay, Threads
<1>3. CASE \E u \in Threads : u # t /\ Lags(thr[u], k)
  BY <1>3 DEF OthersStay
<1> QED  BY <1>1, <1>2, <1>3 DEF Follows

LEMMA RunFollows ==
    ASSUME Types, Alone, Follows, NEW t \in Threads,
           Impl(t) \/ Send(t) \/ FollowFrequency(t) \/ Record(t) \/ Mark(t) \/ EndReplay(t)
    PROVE  Follows'
<1>0. thr[t] \in ThreadSet /\ LiveTypes(live) /\ thr[t].c \in CommandSet /\ store \in StoreSet
      /\ thr[t].role \in {"user", "replay"}
  BY ThreadIs DEF Types
<1>1. thr[t].pc # "idle" /\ OthersStay(t)
  BY <1>0, ImplFlow, SendFlow, FollowFlow, RecordFlow, MarkFlow, EndFlow
<1>2. /\ replaying <=> thr[t].role = "replay"
      /\ thr[t].role = "replay" => Rest(store, thr[t])
  BY <1>1, OthersIdle
<1>3. t # "recv" /\ ~restored => ~restored'
  <2>1. CASE EndReplay(t)
    <3>1. restored' = (restored \/ t = "recv")
      BY <2>1, EndFlow
    <3> QED  BY <3>1, Zenon
  <2>2. CASE Impl(t) \/ Send(t) \/ FollowFrequency(t) \/ Record(t) \/ Mark(t)
    <3>1. restored' = restored
      BY <2>2, ImplFlow, SendFlow, FollowFlow, RecordFlow, MarkFlow DEF Shared
    <3> QED  BY <3>1
  <2> QED  BY <2>1, <2>2
<1>4. SUFFICES ASSUME NEW k \in Followed, Current(live, k) = store[k] \/ Lags(thr[t], k)
               PROVE  Current(live', k) = store'[k] \/ Lags(thr'[t], k)
  BY <1>1, <1>3, FollowsFrom
<1>5. k \in Keys /\ k # "mixer_side" /\ Position(k) \in 1..10 /\ k \notin VfoCommands
  BY SchemaAt DEF Followed, VfoCommands
<1>6. CASE Impl(t)
  <2>1. thr[t].pc = "impl"
    BY <1>6, ImplFlow
  <2>2. CASE Skips(t)
    <3>1. thr[t].role = "user"
      <4>1. ASSUME thr[t].role = "replay" PROVE FALSE
        BY <1>0, <1>2, <2>1, <4>1, RestIs, <2>2, KeysAre DEF Skips, VfoCommands
      <4> QED  BY <1>0, <4>1
    <3>2. ~Lags(thr[t], k) /\ live' = live /\ store' = store
      BY <2>1, <2>2, <3>1 DEF Lags, Skips
    <3> QED  BY <1>4, <3>2
  <2>3. CASE Effects(t)
    <3> DEFINE c == thr[t].c
    <3>1. thr'[t].role = thr[t].role /\ thr'[t].todo = thr[t].todo /\ thr'[t].c = c
          /\ thr'[t].pc = (IF Messages(live, c) # << >> THEN "send" ELSE "record")
          /\ live' = Effect(live, c) /\ store'[k] = store[k]
      BY <1>5, <2>3 DEF Effects
    <3>2. CASE RecordedKey(c) # k
      <4>1. Current(live', k) = Current(live, k)
        BY <1>0, <3>1, <3>2, CurrentAfter
      <4>2. Lags(thr[t], k) => Lags(thr'[t], k)
        <5>1. ASSUME Lags(thr[t], k) PROVE Lags(thr'[t], k)
          <6>1. thr[t].role = "replay" /\ Carried(thr[t]) < Position(k)
            BY <2>1, <5>1 DEF Lags
          <6> DEFINE i == 11 - Len(thr[t].todo)
          <6>2. i \in 1..11 /\ c.key = Schema[i] /\ Carried(thr[t]) = i - 1 /\ c.key \in Keys
            BY <1>0, <1>2, <2>1, <6>1, RestIs
          <6>3. Carried(thr'[t]) = i
            BY <3>1 DEF Carried
          <6> HIDE DEF i
          <6>4. c.key # k
            BY <3>2, <6>2, KeysAre DEF RecordedKey, VfoCommands
          <6>5. i # Position(k)
            BY <6>2, <6>4, SchemaAt
          <6>6. i < Position(k)
            BY <1>5, <6>1, <6>2, <6>5
          <6> QED  BY <3>1, <6>1, <6>3, <6>6 DEF Lags
        <5> QED  BY <5>1
      <4> QED  BY <1>4, <3>1, <4>1, <4>2
    <3>3. CASE RecordedKey(c) = k /\ thr[t].role = "user"
      <4>2. c.key \notin {"frequency", "mixer_side"}
        BY <3>3 DEF RecordedKey, Followed, VfoCommands
      <4>1. Messages(live, c) = << >>
        BY <4>2 DEF Messages
      <4> QED  BY <3>1, <3>3, <4>1 DEF Lags, RecordedKey
    <3>4. CASE RecordedKey(c) = k /\ thr[t].role = "replay"
      BY <1>0, <1>2, <2>1, <3>4, RestIs, KeysAre, <3>1, CurrentAfter, <1>5 DEF RecordedKey,
         VfoCommands
    <3> QED  BY <1>0, <3>2, <3>3, <3>4
  <2> QED  BY <1>6, <2>2, <2>3, ImplFlow
<1>7. CASE Send(t) \/ FollowFrequency(t)
  <2>1. /\ thr[t].pc \in {"send", "side"} /\ thr'[t].pc \in {"side", "record", "send"}
        /\ thr'[t].role = thr[t].role /\ thr'[t].todo = thr[t].todo /\ store'[k] = store[k]
    BY <1>5, <1>7, SendFlow, FollowFlow
  <2>2. Current(live', k) = Current(live, k)
    <3>1. CASE Send(t)
      BY <3>1, SendFlow
    <3>2. CASE FollowFrequency(t)
      BY <3>2, FollowFlow, <1>0, TuneIs, CurrentSame DEF LiveTypes
    <3> QED  BY <1>7, <3>1, <3>2
  <2>3. Carried(thr'[t]) = Carried(thr[t])
    BY <2>1 DEF Carried
  <2>4. Lags(thr[t], k) => Lags(thr'[t], k)
    BY <2>1, <2>3 DEF Lags
  <2> QED  BY <1>4, <2>1, <2>2, <2>4
<1>8. CASE Record(t)
  <2> DEFINE c == thr[t].c
  <2>1. thr[t].pc = "record" /\ live' = live
    BY <1>8, RecordFlow
  <2>2. CASE thr[t].role = "replay"
    <3>1. thr'[t] = Next1(t, thr[t]) /\ store' = store
      BY <1>2, <1>8, <2>2, RecordFlow
    <3>2. thr'[t].role = "replay" /\ Carried(thr'[t]) = Carried(thr[t])
      BY <1>0, <1>2, <2>1, <2>2, <3>1, NextOf
    <3>3. Lags(thr[t], k) => Lags(thr'[t], k)
      BY <2>1, <2>2, <3>2 DEF Lags
    <3> QED  BY <1>4, <2>1, <3>1, <3>3
  <2>3. CASE thr[t].role = "user" /\ RecordedKey(c) = k
    <3>1. RecordedValue(c) = Current(live, k)
      BY <2>1, <2>3 DEF Alone
    <3>2. store'[k] = RecordedValue(c)
      BY <1>2, <1>5, <1>8, <2>3, RecordFlow, <1>0, StoresAre
    <3> QED  BY <2>1, <3>1, <3>2
  <2>4. CASE thr[t].role = "user" /\ RecordedKey(c) # k
    BY <2>1, <2>4, <1>8, RecordFlow, <1>0, <1>5, StoresAre, <1>4 DEF Lags
  <2> QED  BY <1>0, <2>2, <2>3, <2>4
<1>9. CASE Mark(t)
  BY <1>9, MarkFlow, <1>0, <1>2, <1>4 DEF Shared, Rest, Lags
<1>10. CASE EndReplay(t)
  <2>1. thr[t].pc = "end" /\ live' = live /\ store' = store
    BY <1>10, EndFlow
  <2>2. ~Lags(thr[t], k)
    BY <1>5, <2>1 DEF Lags, Carried
  <2> QED  BY <1>4, <2>1, <2>2
<1> QED  BY <1>6, <1>7, <1>8, <1>9, <1>10

LEMMA FollowsKept ==
    ASSUME Types, Types', OneWriter, Down, ~seen.crossed => Alone /\ Follows, ~seen'.crossed, [Next]_vars
    PROVE  Follows'
<1>0. "web" \in Threads /\ "recv" \in Threads /\ \A k \in Followed : Position(k) \in 1..10
  BY SchemaAt DEF Threads
<1>1. CASE Anew
  BY <1>0, <1>1, AnewFlow, IdleIs DEF Follows
<1>2. CASE Receive
  BY <1>0, <1>2, ReceiveFlow, FollowsFrom DEF Shared, Alone, Lags
<1>3. CASE ApplyPersisted
  <2>1. StartReplay("recv", store)
    BY <1>3, ApplyFlow
  <2>2. \A k \in Followed : Lags(thr'["recv"], k)
    <3>1. thr'["recv"].role = "replay" /\ Carried(thr'["recv"]) = 0
      BY <1>0, <2>1, StartReplayFlow
    <3>2. \A k \in Followed : 0 < Position(k)
      BY <1>0
    <3> QED  BY <3>1, <3>2 DEF Lags
  <2> QED  BY <1>0, <2>2 DEF Follows
<1>4. CASE Quiet
  BY <1>4, QuietFlow, CurrentSame DEF Follows
<1>5. CASE ResetWrites
  BY <1>5, ResetWritesFlow, <1>0 DEF Lags, Follows
<1>6. CASE ResetReplay
  <2>1. StartReplay("web", store)
    BY <1>6 DEF ResetReplay
  <2>2. \A k \in Followed : Lags(thr'["web"], k)
    <3>1. thr'["web"].role = "replay" /\ Carried(thr'["web"]) = 0
      BY <1>0, <2>1, StartReplayFlow
    <3>2. \A k \in Followed : 0 < Position(k)
      BY <1>0
    <3> QED  BY <3>1, <3>2 DEF Lags
  <2> QED  BY <1>0, <2>2 DEF Follows
<1>7. ASSUME NEW t \in Threads,
             Impl(t) \/ Send(t) \/ FollowFrequency(t) \/ Record(t) \/ Mark(t) \/ EndReplay(t)
      PROVE  Follows'
  <2>1. seen'.crossed = seen.crossed
    <3>1. CASE Impl(t)
      BY <3>1, ImplFlow DEF Skips, Effects
    <3> QED  BY <1>7, <3>1, SendFlow, FollowFlow, RecordFlow, MarkFlow, EndFlow
  <2> QED  BY <1>7, <2>1, RunFollows
<1> QED  BY <1>1, <1>2, <1>3, <1>4, <1>5, <1>6, <1>7, StepIs

\* A step that touches nothing that is shown, and nobody who is about to show.
LEMMA ShowsFrom ==
    ASSUME Shows, UNCHANGED << view, synced >>, live'.fm = live.fm, live'.doa = live.doa,
           \A u \in Threads : thr[u].pc = "record" => thr'[u] = thr[u]
    PROVE  Shows'
<1>1. ASSUME NEW u \in Threads, thr[u].pc = "record" /\ thr[u].c.key = "fm"
      PROVE  \E w \in Threads : thr'[w].pc = "record" /\ thr'[w].c.key = "fm"
  BY <1>1
<1> QED  BY <1>1 DEF Shows

LEMMA RunShows ==
    ASSUME Types, Alone, Shows, NEW t \in Threads,
           Impl(t) \/ Send(t) \/ FollowFrequency(t) \/ Record(t) \/ Mark(t) \/ EndReplay(t)
    PROVE  Shows'
<1>0. LiveTypes(live) /\ live \in LiveSet /\ thr[t].c \in CommandSet /\ DOMAIN synced \subseteq Replayed
  BY ThreadIs DEF Types, LiveTypes
<1>1. "fm" \notin Replayed /\ "doa" \notin Replayed /\ Replayed \subseteq Shown
      /\ "fm" \in Shown /\ "doa" \in Shown
  BY DEF Replayed, Shown
<1>2. CASE Impl(t)
  <2>1. thr[t].pc = "impl" /\ OthersStay(t) /\ synced' = synced
    BY <1>2, ImplFlow DEF Shared
  <2>2. \A u \in Threads : thr[u].pc = "record" => thr'[u] = thr[u]
    BY <2>1 DEF OthersStay
  <2>3. CASE Skips(t)
    BY <2>1, <2>2, <2>3, ShowsFrom DEF Skips
  <2>4. CASE Effects(t)
    <3> DEFINE c == thr[t].c
    <3>1. /\ live' = Effect(live, c)
          /\ thr'[t].c = c /\ thr'[t].pc = (IF Messages(live, c) # << >> THEN "send" ELSE "record")
          /\ view' = IF live'.doa # live.doa /\ view # Nothing THEN Set(view, "doa", live'.doa) ELSE view
      BY <2>4 DEF Effects
    <3>2. live'.fm = IF c.key = "fm" THEN c.val ELSE live.fm
      BY <1>0, <3>1, EffectIs
    <3> SUFFICES ASSUME view' # Nothing
                 PROVE  /\ {"fm", "doa"} \subseteq DOMAIN view' /\ view'["doa"] = live'.doa
                        /\ view'["fm"] = live'.fm \/ \E u \in Threads : thr'[u].pc = "record" /\ thr'[u].c.key = "fm"
                        /\ \A k \in DOMAIN synced' : k \in DOMAIN view' /\ view'[k] = synced'[k]
      BY DEF Shows
    <3>3. view # Nothing
      BY <3>1
    <3>4. /\ {"fm", "doa"} \subseteq DOMAIN view /\ view["doa"] = live.doa
          /\ view["fm"] = live.fm \/ \E u \in Threads : thr[u].pc = "record" /\ thr[u].c.key = "fm"
          /\ \A k \in DOMAIN synced : k \in DOMAIN view /\ view[k] = synced[k]
      BY <3>3 DEF Shows
    <3>5. /\ DOMAIN view' = DOMAIN view \cup {"doa"} /\ view'["doa"] = live'.doa
          /\ \A x \in DOMAIN view : x # "doa" => view'[x] = view[x]
      <4>1. CASE view' = Set(view, "doa", live'.doa)
        BY <4>1 DEF Set
      <4>2. CASE view' = view /\ live'.doa = live.doa
        BY <3>4, <4>2
      <4> QED  BY <3>1, <3>3, <4>1, <4>2
    <3>6. view'["fm"] = live'.fm \/ \E u \in Threads : thr'[u].pc = "record" /\ thr'[u].c.key = "fm"
      <4>1. CASE c.key = "fm"
        BY <4>1, <3>1 DEF Messages
      <4>2. CASE c.key # "fm"
        <5>1. CASE view["fm"] = live.fm
          BY <3>2, <3>4, <3>5, <4>2, <5>1
        <5>2. ASSUME NEW u \in Threads, thr[u].pc = "record" /\ thr[u].c.key = "fm"
              PROVE  \E w \in Threads : thr'[w].pc = "record" /\ thr'[w].c.key = "fm"
          BY <2>2, <5>2
        <5> QED  BY <3>4, <5>1, <5>2
      <4> QED  BY <4>1, <4>2
    <3>7. \A k \in DOMAIN synced' : k \in DOMAIN view' /\ view'[k] = synced'[k]
      BY <1>0, <1>1, <2>1, <3>4, <3>5
    <3> QED  BY <3>4, <3>5, <3>6, <3>7
  <2> QED  BY <1>2, <2>3, <2>4, ImplFlow
<1>3. CASE Send(t) \/ Mark(t) \/ EndReplay(t)
  BY <1>3, SendFlow, MarkFlow, EndFlow, ShowsFrom DEF Shared, OthersStay
<1>4. CASE FollowFrequency(t)
  BY <1>4, FollowFlow, <1>0, TuneIs, ShowsFrom DEF Shared, OthersStay, Same
<1>5. CASE Record(t)
  <2> DEFINE c == thr[t].c
  <2>1. /\ thr[t].pc = "record" /\ live' = live
        /\ synced' = IF c.key \in Replayed THEN Set(synced, c.key, c.val) ELSE synced
        /\ view' = IF c.key \in Shown /\ view # Nothing THEN Set(view, c.key, c.val) ELSE view
    BY <1>5, RecordFlow
  <2>2. c.key \in {"fm", "doa"} => c.val = Current(live, c.key)
    <3>1. ASSUME c.key \in {"fm", "doa"} PROVE c.val = Current(live, c.key)
      BY <3>1, <2>1 DEF RecordedKey, RecordedValue, VfoCommands, Followed, Alone
    <3> QED  BY <3>1
  <2> SUFFICES ASSUME view' # Nothing
               PROVE  /\ {"fm", "doa"} \subseteq DOMAIN view' /\ view'["doa"] = live'.doa
                      /\ view'["fm"] = live'.fm
                      /\ \A k \in DOMAIN synced' : k \in DOMAIN view' /\ view'[k] = synced'[k]
    BY DEF Shows
  <2>3. view # Nothing
    BY <2>1
  <2>4. /\ {"fm", "doa"} \subseteq DOMAIN view /\ view["doa"] = live.doa
        /\ view["fm"] = live.fm \/ c.key = "fm"
        /\ \A k \in DOMAIN synced : k \in DOMAIN view /\ view[k] = synced[k]
    BY <2>1, OthersIdle, <2>3 DEF Shows
  <2>5. CASE c.key \in Shown
    <3>1. view' = Set(view, c.key, c.val)
      BY <2>1, <2>3, <2>5
    <3>2. /\ DOMAIN view' = DOMAIN view \cup {c.key} /\ view'[c.key] = c.val
          /\ \A x \in DOMAIN view : x # c.key => view'[x] = view[x]
      BY <3>1 DEF Set
    <3>3. view'["doa"] = live'.doa
      BY <2>1, <2>2, <2>4, <3>2 DEF Current
    <3>4. view'["fm"] = live'.fm
      BY <2>1, <2>2, <2>4, <3>2 DEF Current
    <3>5. ASSUME NEW k \in DOMAIN synced' PROVE k \in DOMAIN view' /\ view'[k] = synced'[k]
      <4>1. CASE c.key \in Replayed
        BY <2>1, <4>1, <2>4, <3>2, <3>5 DEF Set
      <4>2. CASE c.key \notin Replayed
        BY <1>0, <2>1, <2>4, <3>2, <3>5, <4>2
      <4> QED  BY <4>1, <4>2
    <3> QED  BY <2>4, <3>2, <3>3, <3>4, <3>5
  <2>6. CASE c.key \notin Shown
    BY <1>1, <2>1, <2>6, <2>4
  <2> QED  BY <2>5, <2>6
<1> QED  BY <1>2, <1>3, <1>4, <1>5

LEMMA ShowsKept ==
    ASSUME Types, Types', OneWriter, Down, ~seen.crossed => Alone /\ Shows, ~seen'.crossed, [Next]_vars
    PROVE  Shows'
<1>0. "web" \in Threads /\ "recv" \in Threads
  BY DEF Threads
<1>1. CASE Anew
  BY <1>1, AnewFlow DEF Shows
<1>2. CASE Receive
  BY <1>2, ReceiveFlow, ShowsFrom DEF Shared, OthersStay
<1>3. CASE ApplyPersisted
  <2>1. /\ Shows /\ thr["recv"].pc = "idle" /\ StartReplay("recv", store)
        /\ live' = live /\ view' = view /\ synced' = synced
    BY <1>3, ApplyFlow
  <2>2. OthersStay("recv")
    BY <1>0, <2>1, StartReplayFlow
  <2>3. \A u \in Threads : thr[u].pc = "record" => thr'[u] = thr[u]
    BY <2>1, <2>2 DEF OthersStay
  <2> QED  BY <2>1, <2>3, ShowsFrom
<1>4. CASE Quiet
  <2>1. /\ Shows /\ UNCHANGED << thr, synced >> /\ live'.fm = live.fm /\ live'.doa = live.doa
    BY <1>4, QuietFlow DEF Same
  <2>2. CASE Connect
    <3> DEFINE b == Set(synced, "fm", live.fm)
    <3>1. view' = Set(b, "doa", live.doa)
      BY <2>2 DEF Connect
    <3>2. /\ DOMAIN b = DOMAIN synced \cup {"fm"} /\ b["fm"] = live.fm
          /\ \A x \in DOMAIN synced : x # "fm" => b[x] = synced[x]
      BY DEF Set
    <3> HIDE DEF b
    <3>3. /\ DOMAIN view' = DOMAIN b \cup {"doa"} /\ view'["doa"] = live.doa
          /\ \A x \in DOMAIN b : x # "doa" => view'[x] = b[x]
      BY <3>1 DEF Set
    <3>4. "fm" \notin DOMAIN synced /\ "doa" \notin DOMAIN synced
      BY DEF Types, Replayed
    <3> QED  BY <2>1, <3>2, <3>3, <3>4 DEF Shows
  <2>3. CASE ~Connect
    <3>1. view' = view
      <4>1. CASE Shutdown \/ FinalFlush \/ SaverWakes \/ WriteFill \/ WriteShort \/ HeimTakes \/ HeimRestarts \/ Header \/ UNCHANGED vars
        BY <4>1 DEF Shutdown, FinalFlush, SaverWakes, WriteFill, WriteShort, HeimTakes, HeimRestarts, Header, vars
      <4>2. CASE \E who \in {"saver", "web"} : WriteStart(who)
        BY <4>2 DEF WriteStart
      <4>3. CASE WriteEnds("saver")
        BY <4>3 DEF WriteEnds, WriteRename, WriteFails
      <4> QED  BY <1>4, <2>3, <4>1, <4>2, <4>3 DEF Quiet
    <3> QED  BY <2>1, <3>1, ShowsFrom
  <2> QED  BY <2>2, <2>3
<1>5. CASE ResetWrites
  BY <1>5, ResetWritesFlow, ShowsFrom DEF OthersStay
<1>6. CASE ResetReplay
  BY <1>6, <1>0, StartReplayFlow, ShowsFrom DEF ResetReplay, At, OthersStay
<1>7. ASSUME NEW t \in Threads,
             Impl(t) \/ Send(t) \/ FollowFrequency(t) \/ Record(t) \/ Mark(t) \/ EndReplay(t)
      PROVE  Shows'
  <2>1. seen'.crossed = seen.crossed
    <3>1. CASE Impl(t)
      BY <3>1, ImplFlow DEF Skips, Effects
    <3> QED  BY <1>7, <3>1, SendFlow, FollowFlow, RecordFlow, MarkFlow, EndFlow
  <2> QED  BY <1>7, <2>1, RunShows
<1> QED  BY <1>1, <1>2, <1>3, <1>4, <1>5, <1>6, <1>7, StepIs

-----------------------------------------------------------------------------
(* A start brings back what was saved.                                       *)

\* Nothing that is compared changes.
LEMMA BringsSame ==
    ASSUME NEW l, NEW m, NEW s, NEW w, NEW p, Brings(l, s, p), Same(l, m),
           m.doa = l.doa, m.wideband = l.wideband, \A k \in Keys \ {"mixer_side"} : w[k] = s[k]
    PROVE  Brings(m, w, p)
<1>1. w.fm = s.fm /\ w.doa = s.doa /\ w.beamforming = s.beamforming /\ w.edge_clip = s.edge_clip
      /\ w.vfos = s.vfos /\ w.ui = s.ui
  BY KeysAre
<1>2. Snapshot(m) = Snapshot(l)
  BY CurrentSame DEF Same
<1> QED  BY <1>1, <1>2 DEF Brings, Same

\* The next command of a replay has its effect.
LEMMA BringsNext ==
    ASSUME NEW l, LiveTypes(l), NEW s \in StoreSet, NEW i \in 1..11, NEW c \in CommandSet,
           c.key = Schema[i], c.key # "mixer_side" => c.val = s[c.key], Brings(l, s, i - 1)
    PROVE  Brings(Effect(l, c), s, i)
<1> DEFINE m == Effect(l, c)
<1>1. /\ c.key \notin VfoCommands \cup {"vfos"} => m.vfos = l.vfos /\ m.fmId = l.fmId
      /\ m.fm = IF c.key = "fm" THEN c.val ELSE l.fm
      /\ m.beamforming = IF c.key = "beamforming" THEN c.val ELSE l.beamforming
      /\ m.ui = IF c.key = "ui" THEN c.val ELSE l.ui
      /\ m.edge_clip = IF c.key = "edge_clip" THEN EdgeClip(l, c.val).edge_clip ELSE l.edge_clip
      /\ c.key \notin {"doa", "beamforming", "frequency", "wideband"} => m.doa = l.doa
      /\ c.key = "doa" => m.doa = c.val
      /\ c.key = "frequency" /\ ~l.wideband => m.doa = l.doa
      /\ c.key = "beamforming" => m.doa = (l.doa \/ (c.val /\ ~l.beamforming))
      /\ c.key # "wideband" /\ ~l.wideband => ~m.wideband
      /\ c.key = "vfos" => Snapshot(m) = c.val
  BY EffectIs
<1>2. EdgeClip(l, c.val).edge_clip = Clipped(c.val)
  BY DEF EdgeClip, Clipped, LiveTypes, LiveSet
<1>3. c.key \notin VfoCommands \cup {"vfos"} => Snapshot(m) = Snapshot(l)
  BY <1>1, CurrentSame
<1> HIDE DEF m
<1>4. /\ Schema[i] = "fm" <=> i = 1
      /\ Schema[i] = "doa" <=> i = 2
      /\ Schema[i] = "beamforming" <=> i = 8
      /\ Schema[i] = "edge_clip" <=> i = 9
      /\ Schema[i] = "vfos" <=> i = 10
      /\ Schema[i] = "ui" <=> i = 11
      /\ Schema[i] \in Keys
  BY SchemaAt
<1>5. c.key \notin VfoCommands /\ c.key # "wideband"
  BY <1>4, KeysAre DEF VfoCommands
<1>6. ~l.wideband /\ ~m.wideband
  BY <1>1, <1>5 DEF Brings
<1>7. CASE i \in 1..7
  <2>1. i # 8 /\ i # 9 /\ i # 10 /\ i # 11
    BY <1>7
  <2>2. c.key \notin {"beamforming", "edge_clip", "vfos", "ui"} /\ c.key \notin VfoCommands \cup {"vfos"}
    BY <1>4, <1>5, <2>1
  <2>3. ~l.beamforming /\ ~m.beamforming
    BY <1>7, <1>1, <2>2 DEF Brings
  <2>4. m.fm = s.fm
    <3>1. CASE i = 1
      BY <1>1, <1>4, <3>1
    <3>2. CASE i # 1
      BY <1>4, <1>7, <3>2, <1>1 DEF Brings
    <3> QED  BY <3>1, <3>2
  <2>5. i \in 2..7 => m.doa = s.doa
    <3>1. CASE i = 2
      BY <1>1, <1>4, <3>1
    <3>2. CASE i \in 3..7
      BY <1>4, <3>2, <1>1, <1>5, <1>6, <2>2 DEF Brings
    <3>3. i \in 2..7 => i = 2 \/ i \in 3..7
      OBVIOUS
    <3> QED  BY <3>1, <3>2, <3>3
  <2>6. ~(i >= 8) /\ ~(i >= 9) /\ ~(i >= 10) /\ ~(i >= 11)
    BY <1>7
  <2> QED  BY <1>6, <2>3, <2>4, <2>5, <2>6 DEF Brings, m
<1>8. CASE i = 8
  <2>1. c.key = "beamforming" /\ c.val = s.beamforming
    BY <1>4, <1>8
  <2>2. ~l.beamforming /\ l.fm = s.fm /\ l.doa = s.doa
    BY <1>8 DEF Brings
  <2>3. m.fm = s.fm /\ m.beamforming = s.beamforming
    BY <1>1, <2>1, <2>2
  <2>4. m.doa = (s.doa \/ s.beamforming)
    BY <1>1, <2>1, <2>2
  <2>5. ~(i < 8) /\ i \notin 2..7 /\ ~(i >= 9) /\ ~(i >= 10) /\ ~(i >= 11)
    BY <1>8
  <2> QED  BY <1>6, <2>3, <2>4, <2>5 DEF Brings, m
<1>9. CASE i \in 9..11
  <2>1. i # 1 /\ i # 2 /\ i # 8 /\ i - 1 >= 8 /\ i - 1 >= 1 /\ ~(i < 8) /\ i \notin 2..7
    BY <1>9
  <2>2. c.key \notin {"fm", "doa", "beamforming"}
    BY <1>4, <2>1
  <2>3. c.key # "frequency"
    <3>1. i = 9 \/ i = 10 \/ i = 11
      BY <1>9
    <3> QED  BY <1>4, <3>1
  <2>4. m.fm = s.fm /\ m.beamforming = s.beamforming /\ m.doa = (s.doa \/ s.beamforming)
    BY <1>1, <1>5, <2>1, <2>2, <2>3 DEF Brings
  <2>5. m.edge_clip = Clipped(s.edge_clip)
    <3>1. CASE i = 9
      BY <1>1, <1>2, <1>4, <3>1
    <3>2. CASE i # 9
      BY <1>4, <1>9, <3>2, <1>1 DEF Brings
    <3> QED  BY <3>1, <3>2
  <2>6. i >= 10 => Snapshot(m) = s.vfos
    <3>1. CASE i = 10
      BY <1>1, <1>4, <3>1
    <3>2. CASE i = 11
      BY <1>4, <3>2, <1>3, <1>5 DEF Brings
    <3>3. i >= 10 => i = 10 \/ i = 11
      BY <1>9
    <3> QED  BY <3>1, <3>2, <3>3
  <2>7. i >= 11 => m.ui = s.ui
    <3>1. i >= 11 => i = 11
      BY <1>9
    <3>2. CASE i = 11
      BY <1>1, <1>4, <3>2
    <3> QED  BY <3>1, <3>2
  <2> QED  BY <1>6, <2>1, <2>4, <2>5, <2>6, <2>7 DEF Brings, m
<1>10. i \in 1..7 \/ i = 8 \/ i \in 9..11
  OBVIOUS
<1> QED  BY <1>7, <1>8, <1>9, <1>10

LEMMA RunRestores ==
    ASSUME Types, Alone, Restores, NEW t \in Threads,
           Impl(t) \/ Send(t) \/ FollowFrequency(t) \/ Record(t) \/ Mark(t) \/ EndReplay(t)
    PROVE  Brings(live', store', Progress') /\ t = "recv" /\ OthersStay(t)
<1>0. thr[t] \in ThreadSet /\ LiveTypes(live) /\ live \in LiveSet /\ thr[t].c \in CommandSet /\ store \in StoreSet
      /\ thr[t].role \in {"user", "replay"}
  BY ThreadIs DEF Types, LiveTypes
<1>1. thr[t].pc # "idle" /\ OthersStay(t)
  BY <1>0, ImplFlow, SendFlow, FollowFlow, RecordFlow, MarkFlow, EndFlow
<1>2. t = "recv"
  BY <1>1 DEF Restores, Threads
<1> SUFFICES Brings(live', store', Progress')
  BY <1>1, <1>2
<1>3. /\ replaying /\ thr[t].role = "replay" /\ Rest(store, thr[t]) /\ ~restored
      /\ Progress = Carried(thr[t])
  BY <1>0, <1>1, <1>2, OthersIdle DEF Alone, Progress
<1>4. ~EndReplay(t) => (restored' = restored)
  BY ImplFlow, SendFlow, FollowFlow, RecordFlow, MarkFlow DEF Shared
<1>5. ~EndReplay(t) /\ thr'[t].role = "replay" => Progress' = Carried(thr'[t])
  BY <1>2, <1>3, <1>4 DEF Progress
<1>6. Brings(live, store, Carried(thr[t]))
  BY <1>3 DEF Restores
<1>7. ASSUME thr'[t].role = "replay", Carried(thr'[t]) = Carried(thr[t]), ~EndReplay(t),
             Same(live, live'), live'.doa = live.doa, live'.wideband = live.wideband,
             \A k \in Keys \ {"mixer_side"} : store'[k] = store[k]
      PROVE  Brings(live', store', Progress')
  BY <1>5, <1>7, <1>6, BringsSame
<1>8. CASE Impl(t)
  <2>1. thr[t].pc = "impl" /\ ~EndReplay(t)
    BY <1>8, ImplFlow, EndFlow
  <2> DEFINE c == thr[t].c
             i == 11 - Len(thr[t].todo)
  <2>2. i \in 1..11 /\ c.key = Schema[i] /\ c.key \in Keys /\ (c.key # "mixer_side" => c.val = store[c.key])
        /\ Carried(thr[t]) = i - 1
    BY <1>0, <1>3, <2>1, RestIs
  <2>3. Effects(t)
    BY <1>8, <2>2, ImplFlow, KeysAre DEF Skips, VfoCommands
  <2>4. /\ live' = Effect(live, c) /\ thr'[t].role = "replay" /\ thr'[t].todo = thr[t].todo
        /\ thr'[t].pc \in {"send", "record"} /\ \A k \in Keys \ {"mixer_side"} : store'[k] = store[k]
    BY <1>3, <2>3 DEF Effects
  <2>5. Progress' = i
    BY <1>5, <2>1, <2>4 DEF Carried
  <2> HIDE DEF i
  <2>6. Brings(live', store, i)
    BY <1>0, <1>6, <2>2, <2>4, BringsNext
  <2> QED  BY <2>4, <2>5, <2>6, BringsSame DEF Same
<1>9. CASE Send(t)
  BY <1>3, <1>9, SendFlow, EndFlow, <1>7 DEF Carried, Same
<1>10. CASE FollowFrequency(t)
  <2>1. /\ thr[t].pc = "side" /\ live' = FollowSide(live, thr[t].c.val)
        /\ thr'[t].role = "replay" /\ thr'[t].todo = thr[t].todo /\ thr'[t].pc = "send"
        /\ \A k \in Keys \ {"mixer_side"} : store'[k] = store[k]
    BY <1>3, <1>10, FollowFlow
  <2>2. ~EndReplay(t) /\ Carried(thr'[t]) = Carried(thr[t])
    BY <2>1, EndFlow DEF Carried
  <2>3. Same(live, live') /\ live'.doa = live.doa /\ live'.wideband = live.wideband
    BY <1>0, <2>1, TuneIs
  <2> QED  BY <1>7, <2>1, <2>2, <2>3
<1>11. CASE Record(t)
  <2>1. thr[t].pc = "record" /\ live' = live /\ thr'[t] = Next1(t, thr[t]) /\ store' = store
    BY <1>3, <1>11, RecordFlow
  <2>2. thr'[t].role = "replay" /\ Carried(thr'[t]) = Carried(thr[t]) /\ ~EndReplay(t)
    BY <1>0, <1>3, <2>1, NextOf, EndFlow
  <2> QED  BY <1>7, <2>1, <2>2 DEF Same
<1>12. CASE Mark(t)
  BY <1>3, <1>12, MarkFlow DEF Rest
<1>13. CASE EndReplay(t)
  BY <1>13, EndFlow, <1>2, <1>6 DEF Progress, Carried
<1> QED  BY <1>8, <1>9, <1>10, <1>11, <1>12, <1>13

LEMMA RestoresKept ==
    ASSUME Types, Types', OneWriter, Down, ~seen.crossed => Alone, seen.pristine => Restores,
           seen'.pristine, [Next]_vars
    PROVE  Restores'
<1>0. "web" \in Threads /\ "recv" \in Threads /\ store \in StoreSet
  BY DEF Threads, Types
<1>1. CASE Anew
  <2>1. thr'["web"] = Idle /\ thr'["recv"] = Idle /\ ~restored' /\ live' = LiveInit /\ ~seen'.crossed
    BY <1>0, <1>1, AnewFlow
  <2>2. Progress' = 0
    BY <2>1, IdleIs DEF Progress
  <2>3. ~live'.wideband /\ ~live'.beamforming
    BY <2>1 DEF LiveInit
  <2>4. 0 < 8 /\ ~(0 >= 1) /\ 0 \notin 2..7 /\ ~(0 >= 8) /\ ~(0 >= 9) /\ ~(0 >= 10) /\ ~(0 >= 11)
    OBVIOUS
  <2> QED  BY <2>1, <2>2, <2>3, <2>4, IdleIs DEF Restores, Brings, Past
<1>2. CASE Receive
  BY <1>2, ReceiveFlow
<1>3. CASE ApplyPersisted
  <2>1. Restores /\ Alone
    BY <1>3, ApplyFlow DEF Restores
  <2>2. /\ thr["recv"].pc = "idle" /\ StartReplay("recv", store) /\ ~restored /\ restored' = restored
        /\ live' = live /\ store' = store
    BY <1>3, ApplyFlow
  <2>3. OthersStay("recv") /\ thr'["recv"].role = "replay" /\ Carried(thr'["recv"]) = 0
    BY <1>0, <2>2, StartReplayFlow
  <2>4. Progress = 0 /\ Progress' = 0
    BY <1>0, <2>1, <2>2, <2>3 DEF Alone, Progress
  <2>5. ~seen'.crossed
    BY <1>3, <2>1 DEF ApplyPersisted, Types, SeenSet, Restores
  <2>6. thr'["web"] = thr["web"]
    BY <1>0, <2>3 DEF OthersStay
  <2> QED  BY <2>1, <2>2, <2>4, <2>5, <2>6 DEF Restores
<1>4. CASE Quiet
  <2>1. /\ Restores /\ UNCHANGED << thr, restored, store >> /\ seen'.crossed = seen.crossed
        /\ Same(live, live') /\ live'.doa = live.doa /\ live'.wideband = live.wideband
    BY <1>4, QuietFlow
  <2>2. Progress' = Progress
    BY <2>1 DEF Progress, Carried
  <2> QED  BY <2>1, <2>2, BringsSame DEF Restores
<1>5. CASE ResetWrites
  BY <1>5, ResetWritesFlow DEF Restores
<1>6. CASE ResetReplay
  BY <1>6 DEF ResetReplay, At, Restores
<1>7. ASSUME NEW t \in Threads,
             Impl(t) \/ Send(t) \/ FollowFrequency(t) \/ Record(t) \/ Mark(t) \/ EndReplay(t)
      PROVE  Restores'
  <2>1. seen'.crossed = seen.crossed /\ (seen'.pristine => seen.pristine)
    <3>1. CASE Impl(t)
      BY <3>1, ImplFlow DEF Skips, Effects
    <3> QED  BY <1>7, <3>1, SendFlow, FollowFlow, RecordFlow, MarkFlow, EndFlow
  <2>2. Restores /\ Alone
    BY <2>1 DEF Restores
  <2>3. Brings(live', store', Progress') /\ t = "recv" /\ OthersStay(t)
    BY <1>7, <2>2, RunRestores
  <2>4. thr'["web"] = thr["web"]
    BY <1>0, <2>3 DEF OthersStay
  <2> QED  BY <2>1, <2>2, <2>3, <2>4 DEF Restores
<1> QED  BY <1>1, <1>2, <1>3, <1>4, <1>5, <1>6, <1>7, StepIs

-----------------------------------------------------------------------------
(* A retune brings both ends together.                                       *)

Ends == << pipe, heim, live.mixer_side, seen.asked >>

LEMMA EndsSame ==
    ASSUME UNCHANGED Ends
    PROVE  (AskedSent' <=> AskedSent) /\ (SideSent' <=> SideSent)
           /\ \A t \in Threads : thr'[t] = thr[t] => (Retunes(t)' <=> Retunes(t)) /\ (Retuning(t)' <=> Retuning(t))
<1>1. AskedSent' <=> AskedSent
  BY DEF AskedSent, Ends
<1>2. SideSent' <=> SideSent
  BY DEF SideSent, Ends
<1>3. ASSUME NEW t \in Threads, thr'[t] = thr[t]
      PROVE  (Retunes(t)' <=> Retunes(t)) /\ (Retuning(t)' <=> Retuning(t))
  BY <1>1, <1>2, <1>3 DEF Retunes, Retuning, Ends
<1> QED  BY <1>1, <1>2, <1>3

\* A thread that is not in a retune moves, and none begins.
LEMMA ConvergesFrom ==
    ASSUME Converging, UNCHANGED Ends,
           \A t \in Threads : \/ thr'[t] = thr[t]
                              \/ /\ ~Retunes(t) /\ ~Retunes(t)'
                                 /\ thr'[t].c.key = "mixer_side" => thr'[t].pc # "send"
    PROVE  Converging'
<1>1. \A t \in Threads : Retunes(t)' <=> Retunes(t)
  BY EndsSame
<1>2. \A t \in Threads : Retunes(t) => thr'[t] = thr[t]
  BY <1>1
<1>3. \A t \in Threads : Retunes(t)' => Retuning(t)'
  BY <1>1, <1>2, EndsSame DEF Converging
<1>4. (\A t \in Threads : ~Retunes(t)') => SideSent' /\ (seen.asked \in Reach[live.mixer_side])'
  BY <1>1, EndsSame DEF Converging, Ends
<1>5. \A t \in Threads : thr'[t].c.key = "mixer_side" => thr'[t].pc # "send"
  BY DEF Converging
<1>6. \A t, u \in Threads : Retunes(t)' /\ Retunes(u)' => t = u
  BY <1>1 DEF Converging
<1> QED  BY <1>3, <1>4, <1>5, <1>6 DEF Converging

\* The thread in a retune moves, and stays in it or is done with it.
LEMMA RetuneMoves ==
    ASSUME Converging, NEW t \in Threads, Retunes(t), OthersStay(t),
           thr'[t].c.key = "mixer_side" => thr'[t].pc # "send",
           \/ Retunes(t)' /\ Retuning(t)'
           \/ ~Retunes(t)' /\ SideSent' /\ (seen.asked \in Reach[live.mixer_side])'
    PROVE  Converging'
<1>1. \A u \in Threads : u # t => ~Retunes(u) /\ ~Retunes(u)'
  BY DEF Converging, OthersStay, Retunes
<1>2. \A u \in Threads : thr'[u].c.key = "mixer_side" => thr'[u].pc # "send"
  BY DEF Converging, OthersStay
<1> QED  BY <1>1, <1>2 DEF Converging

\* What a thread is in when its command is done is not a retune that counts.
LEMMA NextIsNone ==
    ASSUME NEW t \in Threads, NEW r \in ThreadSet, thr'[t] = Next1(t, r) \/ thr'[t] = Idle
    PROVE  ~Retunes(t)' /\ (thr'[t].c.key = "mixer_side" => thr'[t].pc # "send")
<1>1. CASE r.todo = << >> \/ thr'[t] = Idle
  <2>1. thr'[t].c.key = "none"
    <3>1. Next1(t, r) = [Idle EXCEPT !.role = r.role, !.pc = IF r.role = "user" THEN "idle" ELSE "end"]
          \/ thr'[t] = Idle
      BY <1>1 DEF Next1
    <3>2. Idle.c.key = "none"
      BY DEF Idle
    <3>3. CASE thr'[t] = Idle
      BY <3>2, <3>3
    <3>4. CASE thr'[t] # Idle
      <4> DEFINE q == IF r.role = "user" THEN "idle" ELSE "end"
      <4>1. thr'[t] = [Idle EXCEPT !.role = r.role, !.pc = q]
        BY <3>1, <3>4
      <4> HIDE DEF q
      <4>2. thr'[t].c = Idle.c
        BY <4>1 DEF Idle
      <4> QED  BY <3>2, <4>2
    <3> QED  BY <3>3, <3>4
  <2> QED  BY <2>1 DEF Retunes
<1>2. CASE r.todo # << >> /\ thr'[t] # Idle
  BY <1>2 DEF Next1, ThreadSet, Retunes
<1> QED  BY <1>1, <1>2

LEMMA KeptReaches ==
    ASSUME NEW s \in DOMAIN Reach, NEW f \in Frequencies
    PROVE  f \in Reach[Kept(s, f)]
<1>1. CASE f \in Reach[s]
  BY <1>1 DEF Kept
<1>2. CASE f \notin Reach[s]
  <2>1. Kept(s, f) = AutoSide(f)
    BY <1>2 DEF Kept
  <2>2. f = 0 \/ f = 1 \/ f = 2
    BY SidesAre
  <2>3. Reach["high"] = {0, 1} /\ Reach["below"] = {1, 2}
    BY DEF Reach
  <2>4. AutoSide(0) = "high" /\ AutoSide(1) = "high" /\ AutoSide(2) = "below"
    BY DEF AutoSide
  <2> QED  BY <2>1, <2>2, <2>3, <2>4
<1> QED  BY <1>1, <1>2

LEMMA HeimConverges ==
    ASSUME Types, Variant, Converging, HeimTakes, seen'.asked # 9
    PROVE  Converging'
<1> DEFINE c == Head(pipe)
<1>0. /\ pipe \in Seq(TunerSet) /\ heim \in [frequency : Frequencies, mixer_side : DOMAIN Reach]
      /\ seen \in SeenSet
  BY DEF Types
<1>1. /\ pipe # << >> /\ pipe' = Tail(pipe) /\ heim' = Obeyed(c) /\ seen' = seen
      /\ UNCHANGED << live, thr >>
  BY <1>0 DEF SeenSet, HeimTakes
<1>2. /\ c = pipe[1] /\ c \in TunerSet /\ Len(pipe') = Len(pipe) - 1 /\ Len(pipe) \in Nat \ {0}
      /\ \A i \in 1..Len(pipe') : pipe'[i] = pipe[i + 1]
      /\ pipe' = << >> <=> Len(pipe) = 1
  <2>1. c = pipe[1] /\ c \in TunerSet /\ Len(Tail(pipe)) = Len(pipe) - 1 /\ Len(pipe) \in Nat \ {0}
        /\ \A i \in 1..Len(Tail(pipe)) : Tail(pipe)[i] = pipe[i + 1]
    BY <1>0, <1>1
  <2>2. Tail(pipe) \in Seq(TunerSet)
    BY <1>0, <1>1
  <2>3. Tail(pipe) = << >> <=> Len(Tail(pipe)) = 0
    BY <2>2, EmptySeq
  <2> QED  BY <1>1, <2>1, <2>3
<1> HIDE DEF c
<1>3. PICK n \in Nat \ {0} : n = Len(pipe) /\ Len(pipe') = n - 1 /\ (pipe' = << >> <=> n = 1)
  BY <1>2
<1>4. n # 1 => n - 1 \in 1..Len(pipe') /\ (n - 1) + 1 = n
  BY <1>3
<1>5. n # 1 => pipe'[n - 1] = pipe[n]
  BY <1>2, <1>4
<1>6. c.key = "frequency" => heim'.frequency = c.val
  BY <1>0, <1>1 DEF Obeyed
<1>7. c.key = "mixer_side" => /\ heim'.frequency = heim.frequency
                              /\ heim.frequency \in Reach[c.val] => heim'.mixer_side = c.val
  BY <1>0, <1>1 DEF Obeyed
<1>8. AskedSent => AskedSent'
  <2>1. CASE n = 1
    BY <1>1, <1>2, <1>3, <1>6, <2>1 DEF AskedSent
  <2>2. CASE n # 1
    BY <1>1, <1>3, <2>2, <1>5 DEF AskedSent
  <2> QED  BY <2>1, <2>2
<1>9. SideSent /\ seen.asked \in Reach[live.mixer_side] => SideSent'
  <2> SUFFICES ASSUME SideSent, seen.asked \in Reach[live.mixer_side] PROVE SideSent'
    OBVIOUS
  <2>1. pipe # << >> /\ Len(pipe) = n /\ Len(pipe') = n - 1
        /\ seen'.asked = seen.asked /\ live'.mixer_side = live.mixer_side
    BY <1>1, <1>3
  <2>2. pipe[n] = [key |-> "mixer_side", val |-> live.mixer_side]
        /\ IF n = 1 THEN heim.frequency = seen.asked
           ELSE pipe[n - 1] = [key |-> "frequency", val |-> seen.asked]
    BY <2>1 DEF SideSent
  <2>3. CASE n = 1
    BY <1>2, <2>2, <2>3, <1>7, <1>3, <2>1 DEF SideSent
  <2>4. CASE n = 2
    <3>1. c = [key |-> "frequency", val |-> seen.asked]
      BY <1>2, <2>2, <2>4
    <3>2. Len(pipe') = 1 /\ pipe' # << >> /\ pipe'[1] = pipe[2]
      BY <1>3, <1>5, <2>1, <2>4
    <3>3. heim'.frequency = seen.asked
      BY <1>6, <3>1
    <3> QED  BY <2>1, <2>2, <2>4, <3>2, <3>3 DEF SideSent
  <2>5. CASE n > 2
    <3>0. n - 1 # 1 /\ n # 1
      BY <2>5
    <3>1. n - 1 # 1 /\ pipe' # << >> /\ n # 1
      BY <1>3, <3>0
    <3>2. n - 2 \in 1..Len(pipe') /\ (n - 2) + 1 = n - 1 /\ (n - 1) - 1 = n - 2
      BY <1>3, <2>5
    <3>3. pipe'[n - 2] = pipe[n - 1]
      BY <1>2, <3>2
    <3>4. pipe'[Len(pipe') - 1] = [key |-> "frequency", val |-> seen.asked]
      BY <2>1, <2>2, <3>1, <3>2, <3>3
    <3>5. pipe'[Len(pipe')] = [key |-> "mixer_side", val |-> live.mixer_side]
      BY <1>5, <2>1, <2>2, <3>1
    <3> QED  BY <2>1, <3>1, <3>4, <3>5 DEF SideSent
  <2>6. n = 1 \/ n = 2 \/ n > 2
    BY <1>3
  <2> QED  BY <2>3, <2>4, <2>5, <2>6
<1>10. \A t \in Threads : (Retunes(t)' <=> Retunes(t)) /\ (Retuning(t) => Retuning(t)')
  <2>1. ASSUME NEW t \in Threads PROVE (Retunes(t)' <=> Retunes(t)) /\ (Retuning(t) => Retuning(t)')
    BY <1>1, <1>8, <1>9 DEF Retunes, Retuning
  <2> QED  BY <2>1
<1> QED  BY <1>1, <1>9, <1>10 DEF Converging

\* A retune begins: nobody else is in a command heimdall is sent.
LEMMA RetuneBegins ==
    ASSUME Types, Variant, NEW t \in Threads, Effects(t), OthersStay(t),
           thr[t].c.key = "frequency", seen'.asked # 9
    PROVE  Converging'
<1> DEFINE c == thr[t].c
<1>0. c \in CommandSet
  BY ThreadIs DEF Types
<1>1. seen'.asked = AskedBy(t, c) /\ thr'[t].c = c /\ thr'[t].out = Messages(live, c)
      /\ thr'[t].pc = IF Messages(live, c) # << >> THEN "send" ELSE "record"
  BY DEF Effects
<1>2. Messages(live, c) = << c >> /\ << c >> # << >>
  BY DEF Messages
<1>3. seen'.asked = c.val /\ \A u \in Threads : u # t => thr[u].c.key \notin {"frequency", "mixer_side"}
  BY <1>1 DEF AskedBy
<1>4. Retunes(t)' /\ Retuning(t)'
  BY <1>1, <1>2, <1>3 DEF Retunes, Retuning
<1>5. \A u \in Threads : u # t => ~Retunes(u)' /\ thr'[u].c.key # "mixer_side"
  BY <1>3 DEF OthersStay, Retunes
<1> QED  BY <1>1, <1>4, <1>5 DEF Converging

LEMMA SendConverges ==
    ASSUME Types, Variant, Converging, NEW t \in Threads, Send(t), seen'.asked # 9
    PROVE  Converging'
<1> DEFINE c == thr[t].c
           o == thr[t].out[1]
<1>0. pipe \in Seq(TunerSet) /\ thr[t].out \in Seq(TunerSet) /\ c \in CommandSet /\ InBranch(thr[t])
  BY ThreadIs DEF Types
<1>1. /\ thr[t].pc = "send" /\ OthersStay(t) /\ UNCHANGED << live, heim >> /\ thr'[t].c = c
      /\ c.key \in {"frequency", "mixer_side"} /\ thr[t].out # << >>
      /\ thr'[t].pc = (IF o.key = "frequency" THEN "side" ELSE "record")
      /\ pipe' = Append(pipe, o) /\ seen' = seen
  BY SendFlow
<1>2. Retunes(t) /\ c.key = "frequency"
  BY <1>1 DEF Converging, Retunes
<1>3. o \in TunerSet
  BY <1>0, <1>1, EmptySeq, HeadTailProperties
<1>4. /\ pipe' # << >> /\ Len(pipe') = Len(pipe) + 1 /\ pipe'[Len(pipe')] = o
      /\ \A i \in 1..Len(pipe) : pipe'[i] = pipe[i]
      /\ Len(pipe) \in Nat /\ (pipe = << >> <=> Len(pipe) = 0)
  BY <1>0, <1>1, <1>3, AppendProperties, EmptySeq
<1> HIDE DEF o
<1>5. Retuning(t)
  BY <1>2 DEF Converging
<1>6. CASE thr[t].out = << c >>
  <2>1. o = c
    BY <1>6 DEF o
  <2>2. c = [key |-> "frequency", val |-> seen.asked]
    <3>1. PICK k \in AllKeys : c \in [key : {k}, val : Values(k)]
      BY <1>0 DEF CommandSet
    <3>2. c.val = seen.asked
      BY <1>5 DEF Retuning
    <3> QED  BY <1>2, <3>1, <3>2
  <2>3. AskedSent'
    BY <1>1, <1>4, <2>1, <2>2 DEF AskedSent
  <2>4. Retunes(t)' /\ Retuning(t)'
    BY <1>1, <1>2, <1>5, <2>1, <2>3 DEF Retunes, Retuning
  <2> QED  BY <1>1, <1>2, <2>4, RetuneMoves
<1>7. CASE /\ thr[t].out = << [key |-> "mixer_side", val |-> live.mixer_side] >>
           /\ AskedSent /\ seen.asked \in Reach[live.mixer_side]
  <2>1. o = [key |-> "mixer_side", val |-> live.mixer_side]
    BY <1>7 DEF o
  <2>2. SideSent'
    <3>1. CASE pipe = << >>
      BY <1>4, <1>7, <3>1, <1>1, <2>1 DEF AskedSent, SideSent
    <3>2. CASE pipe # << >>
      BY <1>4, <3>2, <1>7, <1>1, <2>1 DEF AskedSent, SideSent
    <3> QED  BY <3>1, <3>2
  <2>3. thr'[t].pc = "record"
    BY <1>1, <2>1
  <2>4. Retunes(t)' /\ Retuning(t)'
    BY <1>1, <1>2, <1>5, <1>7, <2>2, <2>3 DEF Retunes, Retuning
  <2> QED  BY <1>1, <1>2, <2>4, RetuneMoves
<1> QED  BY <1>1, <1>5, <1>6, <1>7 DEF Retuning

LEMMA FollowConverges ==
    ASSUME Types, Variant, Converging, NEW t \in Threads, FollowFrequency(t), seen'.asked # 9
    PROVE  Converging'
<1>0. live \in LiveSet /\ live.mixer_side \in DOMAIN Reach
  BY DEF Types, LiveTypes, LiveSet
<1>1. /\ thr[t].pc = "side" /\ OthersStay(t) /\ UNCHANGED << seen, pipe, heim >>
      /\ thr[t].c.key = "frequency" /\ thr[t].c.val \in Frequencies /\ thr'[t].c = thr[t].c
      /\ thr'[t].pc = "send" /\ live' = FollowSide(live, thr[t].c.val)
      /\ thr'[t].out = << [key |-> "mixer_side", val |-> live'.mixer_side] >>
  BY FollowFlow
<1>2. Retunes(t)
  BY <1>1 DEF Retunes
<1>3. AskedSent /\ thr[t].c.val = seen.asked
  BY <1>1, <1>2 DEF Converging, Retuning
<1>4. live'.mixer_side = Kept(live.mixer_side, seen.asked)
  BY <1>0, <1>1, <1>3, TuneIs
<1>5. seen'.asked \in Reach[live'.mixer_side]
  BY <1>0, <1>1, <1>3, <1>4, KeptReaches
<1>6. AskedSent'
  BY <1>1, <1>3 DEF AskedSent
<1>7. Retunes(t)' /\ Retuning(t)'
  BY <1>1, <1>3, <1>5, <1>6 DEF Retunes, Retuning
<1> QED  BY <1>1, <1>2, <1>7, RetuneMoves

LEMMA RunConverges ==
    ASSUME Types, Variant, seen.asked # 9 => Converging, NEW t \in Threads, seen'.asked # 9,
           Impl(t) \/ Send(t) \/ FollowFrequency(t) \/ Record(t) \/ Mark(t) \/ EndReplay(t)
    PROVE  Converging'
<1>0. thr[t] \in ThreadSet /\ LiveTypes(live) /\ thr[t].c \in CommandSet
  BY ThreadIs DEF Types
<1>1. CASE Impl(t)
  <2>1. thr[t].pc = "impl" /\ OthersStay(t) /\ UNCHANGED << pipe, heim >>
    BY <1>1, ImplFlow
  <2>2. ~Retunes(t)
    BY <2>1 DEF Retunes
  <2>3. CASE Skips(t)
    BY <2>3, <2>1, <1>0, <2>2, NextIsNone, ConvergesFrom DEF Skips, Ends, OthersStay
  <2>4. CASE Effects(t) /\ thr[t].c.key = "frequency"
    BY <2>1, <2>4, RetuneBegins
  <2>5. CASE Effects(t) /\ thr[t].c.key = "mixer_side"
    BY <2>5 DEF Effects, AskedBy
  <2>6. CASE Effects(t) /\ thr[t].c.key \notin {"frequency", "mixer_side"}
    <3>1. live' = Effect(live, thr[t].c) /\ thr'[t].c = thr[t].c /\ seen'.asked = seen.asked
      BY <2>6 DEF Effects, AskedBy
    <3>2. live'.mixer_side = live.mixer_side
      BY <1>0, <2>6, <3>1, EffectIs
    <3>3. Converging /\ UNCHANGED Ends
      BY <2>1, <3>1, <3>2 DEF Ends
    <3>4. ~Retunes(t)' /\ thr'[t].c.key # "mixer_side"
      BY <2>6, <3>1 DEF Retunes
    <3> QED  BY <2>1, <2>2, <3>3, <3>4, ConvergesFrom DEF OthersStay
  <2> QED  BY <1>1, <2>3, <2>4, <2>5, <2>6, ImplFlow
<1>2. CASE Send(t)
  <2>1. seen' = seen
    BY <1>2, SendFlow
  <2> QED  BY <1>2, <2>1, SendConverges
<1>3. CASE FollowFrequency(t)
  <2>1. seen' = seen
    BY <1>3, FollowFlow
  <2> QED  BY <1>3, <2>1, FollowConverges
<1>4. CASE Record(t) \/ Mark(t)
  <2>1. /\ thr[t].pc \in {"record", "mark"} /\ OthersStay(t) /\ UNCHANGED << live, seen, pipe, heim >>
        /\ \/ thr'[t].pc = "mark" /\ thr'[t].c = thr[t].c
           \/ thr'[t] = Next1(t, thr[t])
    BY <1>4, RecordFlow, MarkFlow
  <2>2. Converging /\ UNCHANGED Ends
    BY <2>1 DEF Ends
  <2>3. thr'[t].c.key = "mixer_side" => thr'[t].pc # "send"
    BY <1>0, <2>1, NextIsNone
  <2>4. CASE Retunes(t)
    <3>1. thr[t].c.val = seen.asked /\ SideSent /\ seen.asked \in Reach[live.mixer_side]
      BY <2>1, <2>2, <2>4 DEF Converging, Retuning
    <3>2. SideSent' /\ (seen.asked \in Reach[live.mixer_side])'
      BY <2>1, <2>2, <3>1, EndsSame
    <3>3. CASE thr'[t].pc = "mark" /\ thr'[t].c = thr[t].c
      BY <2>1, <2>4, <3>1, <3>2, <3>3, <2>2, <2>3, RetuneMoves DEF Retunes, Retuning
    <3>4. CASE thr'[t] = Next1(t, thr[t])
      <4>1. ~Retunes(t)'
        BY <1>0, <3>4, NextIsNone
      <4> QED  BY <2>1, <2>2, <2>3, <2>4, <3>2, <4>1, RetuneMoves
    <3> QED  BY <2>1, <3>3, <3>4
  <2>5. CASE ~Retunes(t)
    <3>1. ~Retunes(t)'
      <4>1. CASE thr'[t].pc = "mark" /\ thr'[t].c = thr[t].c
        BY <2>1, <2>5, <4>1 DEF Retunes
      <4>2. CASE thr'[t] = Next1(t, thr[t])
        BY <1>0, <4>2, NextIsNone
      <4> QED  BY <2>1, <4>1, <4>2
    <3> QED  BY <2>1, <2>2, <2>3, <2>5, <3>1, ConvergesFrom DEF OthersStay
  <2> QED  BY <2>4, <2>5
<1>5. CASE EndReplay(t)
  BY <1>5, EndFlow, <1>0, NextIsNone, ConvergesFrom DEF Ends, Converging, Retuning, OthersStay
<1> QED  BY <1>1, <1>2, <1>3, <1>4, <1>5

LEMMA ConvergesKept ==
    ASSUME Types, OneWriter, Down, Variant, seen.asked # 9 => Converging, seen'.asked # 9, [Next]_vars
    PROVE  Converging'
<1>0. "web" \in Threads /\ "recv" \in Threads /\ seen \in SeenSet
  BY DEF Threads, Types
<1>1. CASE Anew
  BY <1>1, AnewFlow
<1>2. CASE Receive
  BY <1>2, ReceiveFlow, ConvergesFrom DEF Ends, Retunes, OthersStay
<1>3. CASE ApplyPersisted
  <2>1. /\ thr["recv"].pc = "idle" /\ StartReplay("recv", store)
        /\ UNCHANGED << live, pipe, heim >> /\ seen'.asked = seen.asked
    BY <1>3, ApplyFlow
  <2>2. OthersStay("recv") /\ thr'["recv"].pc = "impl"
    BY <1>0, <2>1, StartReplayFlow
  <2>3. Converging /\ UNCHANGED Ends
    BY <2>1 DEF Ends
  <2>4. ~Retunes("recv") /\ ~Retunes("recv")'
    BY <2>1, <2>2 DEF Retunes
  <2> QED  BY <2>2, <2>3, <2>4, ConvergesFrom DEF OthersStay
<1>4. CASE Quiet
  <2>1. thr' = thr /\ live'.mixer_side = live.mixer_side
    BY <1>4, QuietFlow
  <2>2. CASE HeimRestarts
    BY <2>2, <1>0 DEF HeimRestarts, SeenSet
  <2>3. CASE HeimTakes
    <3>1. seen.asked # 9
      BY <2>3, <1>0 DEF HeimTakes, SeenSet
    <3> QED  BY <2>3, <3>1, HeimConverges
  <2>4. CASE ~HeimRestarts /\ ~HeimTakes
    <3>1. UNCHANGED << pipe, heim >> /\ seen'.asked = seen.asked
      <4>1. CASE Shutdown \/ FinalFlush \/ SaverWakes \/ WriteFill \/ WriteShort \/ Connect \/ Header \/ UNCHANGED vars
        BY <4>1 DEF Shutdown, FinalFlush, SaverWakes, WriteFill, WriteShort, Connect, Header, linkVars, vars
      <4>2. CASE \E who \in {"saver", "web"} : WriteStart(who)
        BY <4>2 DEF WriteStart, linkVars
      <4>3. CASE WriteEnds("saver")
        BY <4>3, <1>0 DEF WriteEnds, WriteRename, Renamed, WriteFails, linkVars, SeenSet
      <4> QED  BY <1>4, <2>4, <4>1, <4>2, <4>3 DEF Quiet
    <3>2. Converging /\ UNCHANGED Ends
      BY <2>1, <3>1 DEF Ends
    <3> QED  BY <2>1, <3>2, ConvergesFrom
  <2> QED  BY <2>2, <2>3, <2>4
<1>5. CASE ResetWrites
  <2>1. /\ thr["web"].pc \in {"reset", "clean", "write"} /\ thr'["web"].pc \in {"clean", "write", "written"}
        /\ OthersStay("web") /\ thr'["web"].c = thr["web"].c
        /\ UNCHANGED << live, pipe, heim >> /\ seen'.asked = seen.asked
    BY <1>5, ResetWritesFlow
  <2>2. Converging /\ UNCHANGED Ends
    BY <2>1 DEF Ends
  <2>3. ~Retunes("web")
    BY <1>0, <2>1, <2>2 DEF Converging, Retuning
  <2>4. ~Retunes("web")' /\ thr'["web"].pc # "send"
    BY <2>1, <2>3 DEF Retunes
  <2> QED  BY <2>1, <2>2, <2>3, <2>4, ConvergesFrom DEF OthersStay
<1>6. CASE ResetReplay
  <2>1. /\ thr["web"].pc = "written" /\ StartReplay("web", store)
        /\ UNCHANGED << live, pipe, heim, seen >>
    BY <1>6 DEF ResetReplay, At, linkVars
  <2>2. OthersStay("web") /\ thr'["web"].pc = "impl"
    BY <1>0, <2>1, StartReplayFlow
  <2>3. Converging /\ UNCHANGED Ends
    BY <2>1 DEF Ends
  <2>4. ~Retunes("web") /\ ~Retunes("web")'
    BY <1>0, <2>1, <2>2, <2>3 DEF Retunes, Converging, Retuning
  <2> QED  BY <2>2, <2>3, <2>4, ConvergesFrom DEF OthersStay
<1>7. ASSUME NEW t \in Threads,
             Impl(t) \/ Send(t) \/ FollowFrequency(t) \/ Record(t) \/ Mark(t) \/ EndReplay(t)
      PROVE  Converging'
  BY <1>7, RunConverges
<1> QED  BY <1>1, <1>2, <1>3, <1>4, <1>5, <1>6, <1>7, StepIs

(***************************************************************************)
(* The inductive invariant of the settings: that of the saver, and what    *)
(* each thread has yet to bring together.                                  *)
(***************************************************************************)
SettingsInv ==
    /\ SaverInv /\ Down
    /\ ~seen.crossed => Alone /\ Follows /\ Shows
    /\ seen.pristine => Restores
    /\ Converges

LEMMA SettingsStart == Init => SettingsInv
<1> SUFFICES ASSUME Init PROVE SettingsInv
  OBVIOUS
<1>1. SaverInv
  BY SaverStarts
<1>2. /\ \A t \in Threads : thr[t] = Idle
      /\ replaying = FALSE /\ restored = FALSE /\ view = Nothing /\ live = LiveInit
      /\ seen.asked = 9 /\ ~seen.crossed /\ seen.pristine
  BY DEF Init, Past
<1>3. "web" \in Threads /\ "recv" \in Threads
  BY DEF Threads
<1>4. Down
  BY <1>2 DEF Down
<1>5. Alone
  BY <1>2, IdleIs, <1>3 DEF Alone
<1>6. Follows
  BY <1>2, <1>3, IdleIs DEF Follows
<1>7. Shows
  BY <1>2 DEF Shows
<1>8. Restores
  <2>1. Progress = 0
    BY <1>2, <1>3, IdleIs DEF Progress
  <2>2. ~live.wideband /\ ~live.beamforming
    BY <1>2 DEF LiveInit
  <2>3. 0 < 8 /\ ~(0 >= 1) /\ 0 \notin 2..7 /\ ~(0 >= 8) /\ ~(0 >= 9) /\ ~(0 >= 10) /\ ~(0 >= 11)
    OBVIOUS
  <2>4. Brings(live, store, 0)
    BY <2>2, <2>3 DEF Brings
  <2> QED  BY <1>2, <1>3, <2>1, <2>4, IdleIs DEF Restores, Past
<1>9. Converges
  BY <1>2 DEF Converges, Past
<1> QED  BY <1>1, <1>4, <1>5, <1>6, <1>7, <1>8, <1>9 DEF SettingsInv

\* The settings in force, the store, the browsers and heimdall differ by no more than
\* what a thread has yet to do, for any commands, faults and restarts, as long as no
\* command of a browser comes across a replay (control_handler.cpp, settings_store.cpp).
THEOREM SettingsInvariant == Spec => []SettingsInv
<1>1. SettingsInv /\ [Next]_vars => SettingsInv'
  <2> SUFFICES ASSUME SettingsInv, [Next]_vars PROVE SettingsInv'
    OBVIOUS
  <2>1. /\ Types /\ OneWriter /\ SaverInv /\ Down
        /\ ~seen.crossed => Alone /\ Follows /\ Shows
        /\ seen.pristine => Restores
        /\ Converges
    BY DEF SettingsInv, SaverInv
  <2>2. SaverInv' /\ Types'
    BY <2>1, TypesKept, OneWriterKept, InStepKept, FileKept DEF SaverInv
  <2>3. Down'
    BY <2>1, DownKept
  <2>4. ~seen'.crossed => Alone'
    BY <2>1, <2>2, AloneKept
  <2>5. ~seen'.crossed => Follows'
    BY <2>1, <2>2, FollowsKept
  <2>6. ~seen'.crossed => Shows'
    BY <2>1, <2>2, ShowsKept
  <2>7. seen'.pristine => Restores'
    BY <2>1, <2>2, RestoresKept
  <2>8. Variant /\ seen'.asked # 9 => Converging'
    BY <2>1, ConvergesKept DEF Converges
  <2>9. Converges'
    BY <2>8 DEF Converges
  <2> QED  BY <2>2, <2>3, <2>4, <2>5, <2>6, <2>7, <2>9 DEF SettingsInv
<1> QED  BY <1>1, SettingsStart, PTL DEF Spec

\* What was saved is in force after a start, what is changed is saved, every browser
\* shows it, and a retune brings client and heimdall together again (apply_persisted,
\* record, store_for_replay, FREQ).
THEOREM SettingsCorrect == Spec => []SettingsAgree
<1>1. SettingsInv => RestoredAsSaved
  <2> SUFFICES ASSUME SettingsInv, restored, seen.pristine
               PROVE  \A k \in {"fm", "doa", "beamforming", "vfos", "edge_clip", "ui"} : AsSaved(k)
    BY DEF RestoredAsSaved
  <2>1. Brings(live, store, 11) /\ live \in LiveSet
    BY DEF SettingsInv, Restores, Progress, SaverInv, Types, LiveTypes
  <2>2. /\ live.fm = store.fm /\ live.beamforming = store.beamforming /\ live.ui = store.ui
        /\ live.doa = (store.doa \/ store.beamforming)
        /\ live.edge_clip = Clipped(store.edge_clip) /\ Snapshot(live) = store.vfos
    BY <2>1 DEF Brings
  <2>3. EdgeClip(live, store.edge_clip).edge_clip = Clipped(store.edge_clip)
    BY <2>1 DEF EdgeClip, Clipped, LiveSet
  <2>4. AsSaved("fm") /\ AsSaved("beamforming") /\ AsSaved("ui")
    BY <2>2 DEF AsSaved
  <2>5. AsSaved("doa") /\ AsSaved("vfos") /\ AsSaved("edge_clip")
    BY <2>2, <2>3 DEF AsSaved
  <2> QED  BY <2>4, <2>5
<1>2. SettingsInv => StoreFollows
  <2> SUFFICES ASSUME SettingsInv, restored, Settled, ~seen.crossed
               PROVE  /\ Snapshot(live) = store.vfos
                      /\ live.fm = store.fm /\ live.beamforming = store.beamforming
    BY DEF StoreFollows
  <2>1. Alone /\ Follows
    BY DEF SettingsInv
  <2>2. \A t \in Threads : thr[t].pc = "idle" /\ thr[t].role = "user"
    BY <2>1 DEF Settled, Alone
  <2>3. \A k \in Followed : Current(live, k) = store[k]
    BY <2>1, <2>2 DEF Follows, Lags
  <2> QED  BY <2>3 DEF Followed, Current
<1>3. SettingsInv => RetuneConverges
  <2> SUFFICES ASSUME SettingsInv, Variant, seen.asked # 9, pipe = << >>,
                      \A t \in Threads : thr[t].c.key \notin {"frequency", "mixer_side"}
               PROVE  heim.frequency = seen.asked /\ heim.mixer_side = live.mixer_side
    BY DEF RetuneConverges
  <2>1. Converging
    BY DEF SettingsInv, Converges
  <2>2. SideSent
    BY <2>1 DEF Converging, Retunes
  <2> QED  BY <2>2 DEF SideSent
<1>4. SettingsInv => BrowsersAgree
  <2> SUFFICES ASSUME SettingsInv, view # Nothing, Settled, ~seen.crossed
               PROVE  /\ view["fm"] = live.fm /\ view["doa"] = live.doa
                      /\ \A k \in DOMAIN synced : k \in DOMAIN view /\ view[k] = synced[k]
    BY DEF BrowsersAgree
  <2>1. Shows
    BY DEF SettingsInv
  <2> QED  BY <2>1 DEF Shows, Settled
<1>5. SettingsInv => SettingsAgree
  BY <1>1, <1>2, <1>3, <1>4 DEF SettingsAgree
<1> QED  BY <1>5, SettingsInvariant, PTL

=============================================================================
