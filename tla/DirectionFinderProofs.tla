----------------------- MODULE DirectionFinderProofs -----------------------
(***************************************************************************)
(* Theorems about DirectionFinder, for any elements, block lengths, sizes  *)
(* of snapshot, overlap and buffer, any offsets and frequencies and any    *)
(* number of blocks and changes.                                           *)
(*                                                                         *)
(* Fitting says of MUSIC that what it keeps belongs to its settings; every *)
(* setter has a lemma that keeps it.  Accumulating, Framed, AtHand and     *)
(* Shown follow the samples: what is accumulated came after the last frame *)
(* and before the block at hand.  OneOffset follows the offset of the page *)
(* through decimator, channels, label and MUSIC.  Evidence says what the   *)
(* streak of a source count rests on, Floors what the squelch's does.      *)
(*                                                                         *)
(* At the end the three parts of MCClientDsp: a behaviour of it is one of  *)
(* each, so what is proved of the parts holds of the whole.                *)
(***************************************************************************)
EXTENDS MCClientDsp, BeamAudioProofs, SequenceTheorems, NaturalsInduction, WellFoundedInduction,
        TLAPS

-----------------------------------------------------------------------------
(* Types and the invariant.                                                  *)

Places   == {"idle", "multi", "mix", "label", "squelch", "gate", "arm", "run", "moved", "read",
             "floor", "threshold", "tell"}
Before   == {"multi", "mix", "label", "squelch", "gate", "arm", "run"}
PagePlaces == {"idle", "mixer", "music", "floor", "threshold", "custom"}
Arrangements == {"UCA", "ULA", "CUSTOM"}
Methods  == {"fft", "eigenvalue", "auto"}
Sizes    == 2 .. Elements
Learned  == Nat \cup {None}
AccCells == 0 .. BufferSize - 1
Accs     == [cell : [AccCells -> Int], at : AccCells, avail : 0 .. BufferSize]
Answers  == [now : {None, 0, 1}, candidate : {None, 0, 1}, streak : 0 .. StableFrames]
Arrays   == [freq : Nat, topo : Arrangements, n : Sizes, fb : BOOLEAN]
Steerings == [freq : Nat, topo : Arrangements, n : Sizes, radius : 0 .. 1, deep : BOOLEAN]
Elevations == [n : Sizes, deep : BOOLEAN]
Musics   == [freq : Nat, topo : Arrangements, n : Sizes, fb : BOOLEAN, radius : 0 .. 1,
             deep : BOOLEAN, averages : BOOLEAN, avg : SUBSET Arrays, acc : Accs,
             frame : Seq(Seq(Int)), k : Answers, autoK : BOOLEAN,
             steer : Steerings \cup {None}, steers : BOOLEAN,
             steer2 : Elevations \cup {None}, steers2 : BOOLEAN,
             gate : [armed : BOOLEAN, learned : BOOLEAN], closed : BOOLEAN, hold : BOOLEAN,
             enabled : BOOLEAN, shown : Seq(Int), tilt : Seq(Int)]

FinderTypes ==
    /\ radio \in [freq : Nat, n : Sizes, was : Sizes, noise : BOOLEAN, hold : BOOLEAN]
    /\ set \in [offset : Nat, mixer : Nat, method : Methods, squelch : BOOLEAN, beam : BOOLEAN]
    /\ web \in [pc : PagePlaces, offset : Nat]
    /\ task \in [pc : Places, samples : Seq(Int), arg : Nat, mixed : Seq(Nat), label : Nat,
                 count : 0 .. Elements, freq : Nat, method : Methods, floor : Learned]
    /\ music \in Musics
    /\ auto \in [floor : Learned, threshold : Learned, at : Nat, settling : BOOLEAN]
    /\ seen \in [raw : Seq(Int), noisy : SUBSET Int, dragged : BOOLEAN]
    /\ budget \in [blocks : Int, taken : Nat, events : Int]

\* What MUSIC holds fits together, whoever set it.
Fitting(m) ==
    /\ m.avg \subseteq {Array(m)}
    /\ m.steers => m.steer = Steering(m)
    /\ m.steers2 => m.steer2 = Elevation(m) /\ TwoD(m)
    /\ m.topo = "UCA" /\ m.n < 3 => ~m.steers
    /\ m.topo = "CUSTOM" => m.steers
    /\ m.k.now = None => m.k.streak = 0

\* Between the positions and the topology of a custom array nothing is steered,
\* and no count is resolved.
Steerable == music.k.now # None /\ ~music.steers => web.pc = "custom"

\* A streak is one of the last frames.
Evidence ==
    /\ Len(seen.raw) <= StableFrames
    /\ music.steers /\ music.k.streak > 0 =>
          /\ music.k.streak <= Len(seen.raw)
          /\ \A i \in 1 .. music.k.streak :
                seen.raw[Len(seen.raw) + 1 - i] = music.k.candidate

\* The sample of the accumulator that j others are older than.
Sample(acc, j) == acc.cell[(acc.at + BufferSize - acc.avail + j) % BufferSize]

\* The samples that MUSIC has been given, or that went by it.
Past == IF task.pc \in Before THEN budget.taken - Len(task.samples) ELSE budget.taken

InOrder(acc) ==
    \A i, j \in 0 .. acc.avail - 1 : i < j => Sample(acc, i) < Sample(acc, j)

\* What is accumulated came after the last frame and before the block at hand.
Accumulating ==
    /\ InOrder(music.acc)
    /\ music.acc.avail <= Past
    /\ \A j \in 0 .. music.acc.avail - 1 : Sample(music.acc, j) \in (1 .. Past) \ seen.noisy

Framed ==
    \A k \in DOMAIN music.frame :
       /\ DOMAIN music.frame[k] = 1 .. SnapLength
       /\ \A i \in 1 .. SnapLength :
             /\ music.frame[k][i] \in 1 .. Past
             /\ \A j \in 0 .. music.acc.avail - 1 : music.frame[k][i] < Sample(music.acc, j)

\* The block of the task is of the samples taken last.
AtHand ==
    task.pc \in Before =>
       /\ Len(task.samples) <= budget.taken
       /\ \A i \in 1 .. Len(task.samples) : task.samples[i] = Past + i
       /\ ~radio.noise => seen.noisy \cap ToSet(task.samples) = {}
       /\ task.pc \in {"arm", "run"} => ~radio.noise

Shown ==
    /\ seen.noisy \subseteq 1 .. budget.taken
    /\ ToSet(music.shown) \cup ToSet(music.tilt) \subseteq (1 .. budget.taken) \ seen.noisy

\* The block goes through its channels.
Channels ==
    /\ Len(task.mixed) <= task.count
    /\ task.pc \in {"multi", "mix"} => Len(task.mixed) < task.count

\* As long as nobody moves the decimator, all its offsets are one.
OneOffset ==
    /\ IF web.pc = "mixer" THEN web.offset = set.offset ELSE set.mixer = set.offset
    /\ ~seen.dragged =>
          /\ web.pc \notin {"mixer", "music"}
          /\ task.pc \in {"multi", "mix"} => task.arg = set.offset
          /\ task.pc \in Before => ToSet(task.mixed) \subseteq {set.offset}
          /\ task.pc \in {"squelch", "gate", "arm", "run"} => task.label = set.offset
          /\ task.pc \in {"arm", "run"} => music.freq = radio.freq + set.offset

\* What the squelch learns is of the VFO it listens to.
Floors ==
    /\ FloorIsOfVfo
    /\ task.pc \in {"read", "floor", "threshold"} => auto.at = task.freq
    /\ task.pc \in {"floor", "threshold"} => task.floor \in {None, task.freq}

\* The inductive invariant.
FInv ==
    /\ FinderTypes /\ Fitting(music) /\ Steerable /\ Evidence
    /\ Accumulating /\ Framed /\ AtHand /\ Shown /\ Channels /\ OneOffset /\ Floors

-----------------------------------------------------------------------------
(* The accumulator.                                                          *)

LEMMA FinderGiven ==
    /\ Elements \in Nat /\ Elements >= 2
    /\ SnapLength \in Nat /\ SnapLength >= 1 /\ NumSnaps \in Nat /\ NumSnaps >= 1
    /\ MinSnaps \in Nat /\ MinSnaps >= 1 /\ MinSnaps <= NumSnaps
    /\ StableFrames \in Nat /\ StableFrames >= 1
    /\ Overlap \in Nat /\ Overlap < SnapLength
    /\ BufferSize \in Nat /\ BufferSize >= NumSnaps * SnapLength
BY FinderAssumption

LEMMA BufferHolds == BufferSize \in Nat /\ BufferSize >= 1 /\ 0 \in AccCells
<1>1. NumSnaps * SnapLength >= 1
  BY FinderGiven
<1> QED  BY <1>1, FinderGiven DEF AccCells

\* Once round the buffer, either way.
LEMMA Turned ==
    ASSUME NEW x \in Int, -BufferSize <= x, x < 2 * BufferSize
    PROVE  /\ x % BufferSize = (IF x < 0 THEN x + BufferSize
                                ELSE IF x < BufferSize THEN x ELSE x - BufferSize)
           /\ x % BufferSize \in AccCells
<1>1. BufferSize \in Nat /\ BufferSize >= 1
  BY BufferHolds
<1>2. CASE x < 0
  BY <1>1, <1>2 DEF AccCells
<1>3. CASE 0 <= x /\ x < BufferSize
  BY <1>1, <1>3 DEF AccCells
<1>4. CASE BufferSize <= x
  BY <1>1, <1>4 DEF AccCells
<1> QED  BY <1>1, <1>2, <1>3, <1>4

\* Where the sample is that j others are older than.
LEMMA PlaceOfSample ==
    ASSUME NEW acc \in Accs, NEW j \in 0 .. acc.avail - 1
    PROVE  LET p == acc.at - acc.avail + j
               q == IF p < 0 THEN p + BufferSize ELSE p
           IN  q \in AccCells /\ Sample(acc, j) = acc.cell[q] /\ Sample(acc, j) \in Int
<1>1. /\ BufferSize \in Nat /\ BufferSize >= 1 /\ acc.at \in 0 .. BufferSize - 1
      /\ acc.avail \in 0 .. BufferSize /\ acc.cell \in [AccCells -> Int]
  BY BufferHolds DEF Accs, AccCells
<1>2. PICK x \in Int : x = acc.at + BufferSize - acc.avail + j
  BY <1>1
<1>3. 0 <= x /\ -BufferSize <= x /\ x < 2 * BufferSize /\ ~(x < 0)
  BY <1>1, <1>2
<1>4. x % BufferSize = (IF x < BufferSize THEN x ELSE x - BufferSize) /\ x % BufferSize \in AccCells
  <2>1. /\ x % BufferSize = (IF x < 0 THEN x + BufferSize
                             ELSE IF x < BufferSize THEN x ELSE x - BufferSize)
        /\ x % BufferSize \in AccCells
    BY <1>3, Turned
  <2> QED  BY <1>3, <2>1
<1>5. x % BufferSize = (IF acc.at - acc.avail + j < 0 THEN acc.at - acc.avail + j + BufferSize
                                                  ELSE acc.at - acc.avail + j)
  BY <1>1, <1>2, <1>4
<1> QED  BY <1>1, <1>2, <1>4, <1>5 DEF Sample

\* b has the newest of the samples of acc, and after them the last n of samples.
Appended(b, acc, samples, n) ==
    /\ n <= Len(samples) /\ b.avail - n \in Nat /\ b.avail - n <= acc.avail
    /\ \A j \in 0 .. b.avail - 1 :
          IF j < b.avail - n THEN Sample(b, j) = Sample(acc, j + acc.avail - (b.avail - n))
          ELSE Sample(b, j) = samples[j - (b.avail - n) + 1]

\* What addToAccumulator keeps of the old samples and of the new ones.
LEMMA AccumulatedSamples ==
    ASSUME NEW acc \in Accs, NEW samples \in Seq(Int),
           NEW b, b = Accumulated(acc, samples)
    PROVE  b \in Accs /\ \E n \in Nat : Appended(b, acc, samples, n)
<1>1. /\ BufferSize \in Nat /\ BufferSize >= 1 /\ acc.at \in 0 .. BufferSize - 1
      /\ acc.avail \in 0 .. BufferSize /\ acc.cell \in [AccCells -> Int]
      /\ Len(samples) \in Nat /\ \A i \in 1 .. Len(samples) : samples[i] \in Int
  BY BufferHolds, LenProperties DEF Accs, AccCells
<1>0. PICK n \in Nat : n = Least(Len(samples), BufferSize)
  BY <1>1 DEF Least
<1>2. n <= Len(samples) /\ n <= BufferSize
  BY <1>1, <1>0 DEF Least
<1>13. PICK x : x = acc.at + n
  OBVIOUS
<1>14. x \in Int /\ -BufferSize <= x /\ 0 <= x /\ x < 2 * BufferSize
  BY <1>1, <1>2, <1>13
<1>15. PICK t : t = x % BufferSize
  OBVIOUS
<1>16. t = IF x < BufferSize THEN x ELSE x - BufferSize
  <2>1. x % BufferSize = IF x < 0 THEN x + BufferSize
                         ELSE IF x < BufferSize THEN x ELSE x - BufferSize
    BY <1>14, Turned
  <2> QED  BY <1>14, <1>15, <2>1
<1>4. t \in AccCells
  BY <1>14, <1>15, Turned
<1>5. PICK v \in 0 .. BufferSize : v = Least(acc.avail + n, BufferSize)
  BY <1>1, <1>2 DEF Least
<1>6. v - n \in Nat /\ v - n <= acc.avail
  BY <1>1, <1>2, <1>5 DEF Least
<1>7. \A i \in AccCells : (i - acc.at) % BufferSize =
                           IF i < acc.at THEN i - acc.at + BufferSize ELSE i - acc.at
  <2> TAKE i \in AccCells
  <2>1. PICK d : d = i - acc.at
    OBVIOUS
  <2>2. /\ d \in Int /\ -BufferSize <= d /\ d < BufferSize /\ d < 2 * BufferSize
        /\ d < 0 <=> i < acc.at
    BY <1>1, <2>1 DEF AccCells
  <2>3. d % BufferSize = IF d < 0 THEN d + BufferSize
                         ELSE IF d < BufferSize THEN d ELSE d - BufferSize
    BY <2>2, Turned
  <2>4. d % BufferSize = IF d < 0 THEN d + BufferSize ELSE d
    BY <2>2, <2>3
  <2>5. d % BufferSize = IF i < acc.at THEN d + BufferSize ELSE d
    BY <2>2, <2>4
  <2> QED  BY <2>1, <2>5
<1>8. PICK cell : cell = [i \in AccCells |-> IF (i - acc.at) % BufferSize < n
                                             THEN samples[((i - acc.at) % BufferSize) + 1]
                                             ELSE acc.cell[i]]
  OBVIOUS
<1>9. cell \in [AccCells -> Int]
  <2> SUFFICES ASSUME NEW i \in AccCells
               PROVE  (IF (i - acc.at) % BufferSize < n THEN samples[((i - acc.at) % BufferSize) + 1]
                       ELSE acc.cell[i]) \in Int
    BY <1>8
  <2>1. PICK y \in Int : y = (i - acc.at) % BufferSize /\ 0 <= y
    BY <1>1, <1>7 DEF AccCells
  <2>2. y < n => y + 1 \in 1 .. Len(samples)
    BY <1>1, <1>2, <2>1
  <2> QED  BY <1>1, <2>1, <2>2
<1>10. b = [cell |-> cell, at |-> t, avail |-> v]
  <2>1. DOMAIN acc.cell = AccCells
    BY <1>1
  <2> QED  BY <1>0, <1>13, <1>15, <1>5, <1>8, <2>1 DEF Accumulated
<1>11. b \in Accs /\ b.cell = cell /\ b.at = t /\ b.avail = v
  BY <1>4, <1>9, <1>10 DEF Accs
<1>12. ASSUME NEW j \in 0 .. v - 1
       PROVE  IF j < v - n THEN Sample(b, j) = Sample(acc, j + acc.avail - (v - n))
              ELSE Sample(b, j) = samples[j - (v - n) + 1]
  <2>1. PICK A \in Nat : A = acc.at /\ A < BufferSize
    BY <1>1
  <2>2. PICK V \in Nat : V = acc.avail /\ V <= BufferSize
    BY <1>1
  <2>11. x = A + n
    BY <1>13, <2>1
  <2>12. t = IF A + n < BufferSize THEN A + n ELSE A + n - BufferSize
    BY <1>1, <1>14, <1>16, <2>11
  <2>13. v = IF V + n < BufferSize THEN V + n ELSE BufferSize
    BY <1>1, <1>2, <1>5, <2>2 DEF Least
  <2>3. /\ v = IF V + n < BufferSize THEN V + n ELSE BufferSize
        /\ t = IF A + n < BufferSize THEN A + n ELSE A + n - BufferSize
        /\ v \in Nat /\ v <= BufferSize /\ t \in Int /\ j \in Nat /\ j < v
        /\ BufferSize \in Nat /\ n <= BufferSize /\ A < BufferSize /\ V <= BufferSize
    BY <1>1, <1>2, <1>4, <1>12, <2>1, <2>2, <2>12, <2>13 DEF AccCells
  <2>4. PICK q : q = IF t - v + j < 0 THEN t - v + j + BufferSize ELSE t - v + j
    OBVIOUS
  <2>5. q \in AccCells /\ Sample(b, j) = cell[q]
    BY <1>11, <1>12, <2>4, PlaceOfSample
  <2>6. PICK y : y = IF q < A THEN q - A + BufferSize ELSE q - A
    OBVIOUS
  <2>10. q \in Int /\ y \in Int
    BY <2>3, <2>5, <2>6 DEF AccCells
  <2>7. cell[q] = IF y < n THEN samples[y + 1] ELSE acc.cell[q]
    BY <1>7, <1>8, <2>1, <2>5, <2>6
  <2>8. CASE j < v - n
    <3>1. PICK i : i = j + V - (v - n)
      OBVIOUS
    <3>2. i \in Int /\ i >= 0 /\ i < V
      BY <2>3, <2>8, <3>1
    <3>3. ~(y < n)
      BY <2>3, <2>4, <2>6, <2>10, <2>8
    <3>4. q = IF A - V + i < 0 THEN A - V + i + BufferSize ELSE A - V + i
      BY <2>3, <2>4, <2>10, <2>8, <3>1, <3>2
    <3>5. Sample(acc, i) = acc.cell[q]
      <4>1. i \in 0 .. acc.avail - 1
        BY <2>2, <3>2
      <4> QED  BY <2>1, <2>2, <3>4, <4>1, PlaceOfSample
    <3> QED  BY <2>2, <2>5, <2>7, <2>8, <3>1, <3>3, <3>5
  <2>9. CASE ~(j < v - n)
    <3>1. y = j - (v - n) /\ y < n
      BY <2>3, <2>4, <2>6, <2>10, <2>9
    <3> QED  BY <2>5, <2>7, <2>9, <3>1
  <2> QED  BY <2>8, <2>9
<1>17. Appended(b, acc, samples, n)
  BY <1>2, <1>5, <1>6, <1>11, <1>12 DEF Appended
<1> QED  BY <1>11, <1>17

\* In the accumulator the samples stay in the order they were taken.
LEMMA OrderIsKept ==
    ASSUME NEW acc \in Accs, InOrder(acc), NEW samples \in Seq(Int), NEW past \in Nat,
           \A j \in 0 .. acc.avail - 1 : Sample(acc, j) <= past,
           \A i \in 1 .. Len(samples) : samples[i] = past + i,
           NEW b, b = Accumulated(acc, samples)
    PROVE  /\ b \in Accs /\ InOrder(b) /\ b.avail <= acc.avail + Len(samples)
           /\ \A j \in 0 .. b.avail - 1 :
                 \/ \E p \in 0 .. acc.avail - 1 : Sample(b, j) = Sample(acc, p)
                 \/ \E i \in 1 .. Len(samples) : Sample(b, j) = samples[i]
<1>1. PICK L \in Nat : L = Len(samples)
  BY LenProperties
<1>2. b \in Accs
  BY AccumulatedSamples
<1>3. PICK n \in Nat : Appended(b, acc, samples, n)
  BY AccumulatedSamples
<1>4. acc.avail \in Nat /\ b.avail \in Nat
  BY <1>2, BufferHolds DEF Accs
<1>5. b.avail <= acc.avail + L /\ n <= L
  BY <1>1, <1>3, <1>4 DEF Appended
<1>6. PICK h \in Nat : h = b.avail - n
  BY <1>3 DEF Appended
<1>7. ASSUME NEW j \in 0 .. b.avail - 1, j < h
      PROVE  /\ j + acc.avail - h \in 0 .. acc.avail - 1
             /\ Sample(b, j) = Sample(acc, j + acc.avail - h)
  BY <1>3, <1>4, <1>6, <1>7 DEF Appended
<1>8. ASSUME NEW j \in 0 .. b.avail - 1, ~(j < h)
      PROVE  j - h + 1 \in 1 .. L /\ Sample(b, j) = samples[j - h + 1]
  <2>1. Sample(b, j) = samples[j - h + 1]
    BY <1>3, <1>6, <1>8 DEF Appended
  <2>2. PICK a : a = b.avail
    OBVIOUS
  <2>3. a \in Nat /\ h = a - n /\ j \in Nat /\ j < a
    BY <1>4, <1>6, <2>2
  <2>4. j - h + 1 \in 1 .. L
    BY <1>1, <1>5, <1>8, <2>3
  <2> QED  BY <2>1, <2>4
<1>9. InOrder(b)
  <2> SUFFICES ASSUME NEW i \in 0 .. b.avail - 1, NEW j \in 0 .. b.avail - 1, i < j
               PROVE  Sample(b, i) < Sample(b, j)
    BY DEF InOrder
  <2>1. CASE j < h
    <3>1. i < h
      BY <1>4, <1>6, <2>1
    <3>2. /\ i + acc.avail - h \in 0 .. acc.avail - 1 /\ j + acc.avail - h \in 0 .. acc.avail - 1
          /\ i + acc.avail - h < j + acc.avail - h
      BY <1>4, <1>6, <1>7, <2>1, <3>1
    <3> QED  BY <1>7, <2>1, <3>1, <3>2 DEF InOrder
  <2>2. CASE i < h /\ ~(j < h)
    <3>1. Sample(b, i) <= past /\ Sample(b, i) \in Int
      <4>1. PICK p \in 0 .. acc.avail - 1 : Sample(b, i) = Sample(acc, p)
        BY <1>7, <2>2
      <4> QED  BY <4>1, PlaceOfSample
    <3>2. j - h + 1 \in 1 .. L /\ Sample(b, j) = past + (j - h + 1)
      BY <1>1, <1>8, <2>2
    <3> QED  BY <3>1, <3>2
  <2>3. CASE ~(i < h)
    <3>1. ~(j < h)
      BY <1>4, <1>6, <2>3
    <3>2. Sample(b, i) = past + (i - h + 1) /\ Sample(b, j) = past + (j - h + 1)
      BY <1>1, <1>8, <2>3, <3>1
    <3>3. i \in Nat /\ j \in Nat
      BY <1>4
    <3>4. past + (i - h + 1) < past + (j - h + 1)
      BY <3>3
    <3> QED  BY <3>2, <3>4
  <2> QED  BY <2>1, <2>2, <2>3
<1>10. ASSUME NEW j \in 0 .. b.avail - 1
       PROVE  \/ \E p \in 0 .. acc.avail - 1 : Sample(b, j) = Sample(acc, p)
              \/ \E i \in 1 .. Len(samples) : Sample(b, j) = samples[i]
  BY <1>1, <1>7, <1>8
<1> QED  BY <1>1, <1>2, <1>5, <1>9, <1>10

-----------------------------------------------------------------------------
(* The frames of MUSIC.                                                      *)

\* extractSnapshots takes no more than there is.
LEMMA SnapsFit ==
    ASSUME NEW n \in Nat
    PROVE  /\ SnapsOf(n) \in Int /\ SnapsOf(n) \in 0 .. NumSnaps
           /\ SnapsOf(n) >= 1 => (SnapsOf(n) - 1) * Step + SnapLength <= n
<1>1. CASE n < Needed
  BY <1>1, FinderGiven DEF SnapsOf
<1>2. CASE ~(n < Needed)
  <2> DEFINE fit == {k \in 0 .. NumSnaps : k = 0 \/ (k - 1) * Step + SnapLength <= n}
             room == {NumSnaps - k : k \in fit}
  <2>1. 0 \in fit /\ fit \subseteq Nat
    BY FinderGiven
  <2>2. room \subseteq Nat /\ room # {}
    BY <2>1, FinderGiven
  <2>3. PICK r \in room : \A s \in room : r <= s
    BY <2>2, SmallestOf, Zenon
  <2>4. PICK k \in fit : r = NumSnaps - k
    OBVIOUS
  <2>5. \A j \in fit : j <= k
    BY <2>3, <2>4, FinderGiven
  <2>6. SnapsOf(n) = CHOOSE i \in fit : \A j \in fit : j <= i
    BY <1>2 DEF SnapsOf
  <2> HIDE DEF fit
  <2>7. SnapsOf(n) \in fit
    BY <2>5, <2>6
  <2> QED  BY <2>7, FinderGiven DEF fit
<1> QED  BY <1>1, <1>2

\* A frame is of samples of the accumulator, in order, and older than the rest.
FrameMade(f, acc, rest) ==
    /\ f \in Seq(Seq(Int)) /\ Len(f) >= 1
    /\ rest \in Accs /\ rest.avail <= acc.avail /\ InOrder(rest)
    /\ \A j \in 0 .. rest.avail - 1 :
          \E p \in 0 .. acc.avail - 1 : Sample(rest, j) = Sample(acc, p)
    /\ \A k \in DOMAIN f :
          /\ DOMAIN f[k] = 1 .. SnapLength
          /\ \A i \in 1 .. SnapLength :
                /\ \E p \in 0 .. acc.avail - 1 : f[k][i] = Sample(acc, p)
                /\ \A j \in 0 .. rest.avail - 1 : f[k][i] < Sample(rest, j)
          /\ \A i, j \in 1 .. SnapLength : i < j => f[k][i] < f[k][j]

LEMMA FrameIsMade ==
    ASSUME NEW acc \in Accs, InOrder(acc), SnapsOf(acc.avail) >= MinSnaps
    PROVE  FrameMade(Extracted(acc), acc, Consumed(acc))
<1>1. /\ acc.avail \in Nat /\ acc.avail <= BufferSize /\ acc.at \in AccCells
      /\ acc.cell \in [AccCells -> Int] /\ BufferSize \in Nat
  BY BufferHolds DEF Accs
<1>2. PICK V : V = acc.avail
  OBVIOUS
<1>3. PICK K : K = SnapsOf(V)
  OBVIOUS
<1>4. /\ V \in Nat /\ K \in Nat /\ K >= 1 /\ (K - 1) * Step + SnapLength <= V
      /\ V <= BufferSize
  BY <1>1, <1>2, <1>3, SnapsFit, FinderGiven
<1>5. Step \in Nat
  BY FinderGiven DEF Step
<1>6. PICK c : c = Step * (K - 1) + SnapLength
  OBVIOUS
<1>7. c \in Nat /\ c <= V /\ c >= SnapLength
  <2>1. K - 1 \in Nat
    BY <1>4
  <2>2. Step * (K - 1) \in Nat /\ Step * (K - 1) = (K - 1) * Step
    BY <1>5, <2>1
  <2> QED  BY <1>4, <1>6, <2>2, FinderGiven
<1>8. PICK f : f = Extracted(acc)
  OBVIOUS
<1>9. f = [k \in 1 .. K |-> Window(acc, (k - 1) * Step)]
  BY <1>2, <1>3, <1>8 DEF Extracted
<1>10. PICK rest : rest = Consumed(acc)
  OBVIOUS
<1>11. /\ rest \in Accs /\ rest.avail = V - c /\ rest.at = acc.at /\ rest.cell = acc.cell
  <2>1. rest = [acc EXCEPT !.avail = @ - Least(@, c)]
    BY <1>2, <1>3, <1>4, <1>6, <1>10, FinderGiven DEF Consumed
  <2>2. Least(V, c) = c
    BY <1>4, <1>7 DEF Least
  <2>3. V - c \in 0 .. BufferSize
    BY <1>1, <1>4, <1>7
  <2>4. rest = [acc EXCEPT !.avail = V - c]
    BY <1>2, <2>1, <2>2 DEF Accs
  <2> QED  BY <1>1, <2>3, <2>4 DEF Accs
\* What is left is the end of what there was.
<1>12. ASSUME NEW j \in 0 .. rest.avail - 1
       PROVE  c + j \in 0 .. V - 1 /\ Sample(rest, j) = Sample(acc, c + j)
  <2>1. j \in Nat /\ j < V - c
    BY <1>4, <1>7, <1>11
  <2>2. PICK A \in Int : A = acc.at
    BY <1>1 DEF AccCells
  <2>3. A + BufferSize - (V - c) + j = A + BufferSize - V + (c + j)
    BY <1>1, <1>4, <1>7, <2>1, <2>2
  <2>4. Sample(rest, j) = acc.cell[(A + BufferSize - (V - c) + j) % BufferSize]
    BY <1>11, <2>2 DEF Sample
  <2>5. Sample(acc, c + j) = acc.cell[(A + BufferSize - V + (c + j)) % BufferSize]
    BY <1>2, <2>2 DEF Sample
  <2> QED  BY <1>4, <1>7, <2>1, <2>3, <2>4, <2>5
\* A snapshot is a part of what there was, before that.
<1>13. ASSUME NEW k \in 1 .. K, NEW i \in 1 .. SnapLength
       PROVE  /\ (k - 1) * Step + i - 1 \in 0 .. c - 1
              /\ f[k][i] = Sample(acc, (k - 1) * Step + i - 1)
  <2>1. PICK off : off = (k - 1) * Step
    OBVIOUS
  <2>2. off \in Nat /\ off + SnapLength <= c
    <3>1. k - 1 \in Nat /\ K - k \in Nat
      BY <1>4
    <3>2. (k - 1) * Step \in Nat /\ (K - k) * Step \in Nat
      BY <1>5, <3>1
    <3>3. Step * (K - 1) = (k - 1) * Step + (K - k) * Step
      BY <1>4, <1>5
    <3>4. PICK x \in Nat : x = (K - k) * Step
      BY <3>2
    <3>5. c = off + x + SnapLength
      BY <1>6, <2>1, <3>3, <3>4, FinderGiven
    <3> QED  BY <2>1, <3>2, <3>5, FinderGiven
  <2>3. off + i - 1 \in 0 .. c - 1
    BY <1>7, <2>2, FinderGiven
  <2>4. PICK A \in Int : A = acc.at
    BY <1>1 DEF AccCells
  <2>5. A + BufferSize - V + off + i - 1 = A + BufferSize - V + (off + i - 1)
    BY <1>1, <1>4, <2>2, <2>4, FinderGiven
  <2>6. f[k] = Window(acc, off)
    BY <1>9, <2>1
  <2>7. f[k][i] = acc.cell[(A + BufferSize - V + off + i - 1) % BufferSize]
    BY <1>2, <2>4, <2>6 DEF Window
  <2>8. Sample(acc, off + i - 1) = acc.cell[(A + BufferSize - V + (off + i - 1)) % BufferSize]
    BY <1>2, <2>4 DEF Sample
  <2> QED  BY <2>1, <2>3, <2>5, <2>7, <2>8
<1>14. \A p \in 0 .. V - 1 : Sample(acc, p) \in Int
  BY <1>2, PlaceOfSample
<1>15. f \in Seq(Seq(Int)) /\ Len(f) >= 1 /\ DOMAIN f = 1 .. K
       /\ \A k \in 1 .. K : DOMAIN f[k] = 1 .. SnapLength
  <2>1. \A k \in 1 .. K : f[k] = Window(acc, (k - 1) * Step)
    BY <1>9
  <2>2. ASSUME NEW k \in 1 .. K  PROVE f[k] \in Seq(Int) /\ DOMAIN f[k] = 1 .. SnapLength
    <3>1. DOMAIN f[k] = 1 .. SnapLength
      BY <2>1 DEF Window
    <3>2. \A i \in 1 .. SnapLength : f[k][i] \in Int
      BY <1>4, <1>7, <1>13, <1>14
    <3>3. f[k] = [i \in 1 .. SnapLength |-> f[k][i]]
      BY <2>1 DEF Window
    <3> QED  BY <3>1, <3>2, <3>3, FinderGiven, SeqDef
  <2>3. f \in [1 .. K -> Seq(Int)]
    BY <1>9, <2>2
  <2>4. f \in Seq(Seq(Int))
    BY <1>4, <2>3, SeqDef
  <2> QED  BY <1>4, <1>9, <2>2, <2>3, <2>4
<1>16. InOrder(rest)
  <2> SUFFICES ASSUME NEW i \in 0 .. rest.avail - 1, NEW j \in 0 .. rest.avail - 1, i < j
               PROVE  Sample(rest, i) < Sample(rest, j)
    BY DEF InOrder
  <2>1. c + i < c + j
    BY <1>7, <1>11, <1>4
  <2> QED  BY <1>2, <1>12, <2>1 DEF InOrder
<1>17. ASSUME NEW k \in 1 .. K, NEW i \in 1 .. SnapLength
       PROVE  /\ \E p \in 0 .. V - 1 : f[k][i] = Sample(acc, p)
              /\ \A j \in 0 .. rest.avail - 1 : f[k][i] < Sample(rest, j)
              /\ \A j \in 1 .. SnapLength : i < j => f[k][i] < f[k][j]
  <2>1. PICK p : p = (k - 1) * Step + i - 1
    OBVIOUS
  <2>2. p \in 0 .. c - 1 /\ f[k][i] = Sample(acc, p)
    BY <1>13, <2>1
  <2>3. p \in 0 .. V - 1
    BY <1>4, <1>7, <2>2
  <2>4. ASSUME NEW j \in 0 .. rest.avail - 1  PROVE f[k][i] < Sample(rest, j)
    <3>1. c + j \in 0 .. V - 1 /\ Sample(rest, j) = Sample(acc, c + j)
      BY <1>12
    <3>2. p < c + j
      BY <1>4, <1>7, <1>11, <2>2
    <3> QED  BY <1>2, <2>2, <2>3, <3>1, <3>2 DEF InOrder
  <2>5. ASSUME NEW j \in 1 .. SnapLength, i < j  PROVE f[k][i] < f[k][j]
    <3>1. PICK q : q = (k - 1) * Step + j - 1
      OBVIOUS
    <3>2. q \in 0 .. c - 1 /\ f[k][j] = Sample(acc, q)
      BY <1>13, <3>1
    <3>3. q \in 0 .. V - 1
      BY <1>4, <1>7, <3>2
    <3>4. p < q
      <4>1. PICK off \in Nat : off = (k - 1) * Step
        BY <1>5
      <4> QED  BY <2>1, <2>5, <3>1, <4>1, FinderGiven
    <3> QED  BY <1>2, <2>2, <2>3, <3>2, <3>3, <3>4 DEF InOrder
  <2> QED  BY <2>2, <2>3, <2>4, <2>5
<1>18. \A j \in 0 .. rest.avail - 1 : \E p \in 0 .. V - 1 : Sample(rest, j) = Sample(acc, p)
  BY <1>12
<1>19. rest.avail <= V
  BY <1>4, <1>7, <1>11
<1>20. FrameMade(f, acc, rest)
  BY <1>2, <1>11, <1>15, <1>16, <1>17, <1>18, <1>19 DEF FrameMade
<1> QED  BY <1>8, <1>10, <1>20

-----------------------------------------------------------------------------
(* The setters of MUSIC.                                                     *)

LEMMA EmptyFits ==
    /\ EmptyAcc \in Accs /\ EmptyAcc.avail = 0
    /\ Unknown \in Answers /\ Unknown.now = None /\ Unknown.streak = 0
    /\ <<>> \in Seq(Int) /\ <<>> \in Seq(Seq(Int))
<1>1. 0 \in 0 .. BufferSize - 1 /\ 0 \in 0 .. BufferSize /\ 0 \in 0 .. StableFrames
  BY BufferHolds, FinderGiven DEF AccCells
<1> QED  BY <1>1, EmptySeq DEF EmptyAcc, Accs, AccCells, Unknown, Answers

\* r is m with other steering vectors.
Alike(m, r) ==
    /\ r.freq = m.freq /\ r.topo = m.topo /\ r.n = m.n /\ r.fb = m.fb /\ r.radius = m.radius
    /\ r.deep = m.deep /\ r.averages = m.averages /\ r.avg = m.avg /\ r.acc = m.acc
    /\ r.frame = m.frame /\ r.k = m.k /\ r.autoK = m.autoK /\ r.gate = m.gate
    /\ r.closed = m.closed /\ r.hold = m.hold /\ r.enabled = m.enabled
    /\ r.shown = m.shown /\ r.tilt = m.tilt

LEMMA SteeredFits ==
    ASSUME NEW m \in Musics
    PROVE  /\ Steered(m) \in Musics /\ Alike(m, Steered(m))
           /\ Steered(m).steers = ~(m.topo = "UCA" /\ m.n < 3)
           /\ Steered(m).steer = Steering(Steered(m))
           /\ Steered(m).steer2 = m.steer2 /\ Steered(m).steers2 = m.steers2
<1>1. PICK s : s = Steering(m)
  OBVIOUS
<1>2. s \in Steerings
  BY <1>1 DEF Musics, Steering, Steerings
<1>3. PICK b \in BOOLEAN : b = ~(m.topo = "UCA" /\ m.n < 3)
  OBVIOUS
<1>4. PICK r : r = [m EXCEPT !.steer = s, !.steers = b]
  OBVIOUS
<1>5. Steered(m) = r
  BY <1>1, <1>3, <1>4 DEF Steered
<1>6. r \in Musics /\ r.steer = s /\ r.steers = b
  BY <1>2, <1>4 DEF Musics
<1>7. Alike(m, r) /\ r.steer2 = m.steer2 /\ r.steers2 = m.steers2
  BY <1>4 DEF Musics, Alike
<1>8. Steering(r) = s
  BY <1>1, <1>7 DEF Alike, Steering
<1> QED  BY <1>3, <1>5, <1>6, <1>7, <1>8

LEMMA SteeredAnewFits ==
    ASSUME NEW m \in Musics
    PROVE  /\ SteeredAnew(m) \in Musics /\ Alike(m, SteeredAnew(m))
           /\ SteeredAnew(m).steers = ~(m.topo = "UCA" /\ m.n < 3)
           /\ SteeredAnew(m).steer = Steering(SteeredAnew(m))
           /\ SteeredAnew(m).steers2 =>
                 TwoD(m) /\ SteeredAnew(m).steer2 = Elevation(m)
<1>1. PICK s : s = Steered(m)
  OBVIOUS
<1>2. /\ s \in Musics /\ Alike(m, s) /\ s.steers = ~(m.topo = "UCA" /\ m.n < 3)
      /\ s.steer = Steering(s)
  BY <1>1, SteeredFits
<1>3. PICK r : r = SteeredAnew(m)
  OBVIOUS
<1>4. /\ r \in Musics /\ Alike(s, r) /\ r.steers = s.steers /\ r.steer = s.steer
      /\ r.steers2 => TwoD(m) /\ r.steer2 = Elevation(m)
  <2>1. CASE TwoD(m)
    <3>1. PICK e : e = Elevation(m)
      OBVIOUS
    <3>2. e \in Elevations
      BY <3>1 DEF Musics, Elevation, Elevations
    <3>3. r = [s EXCEPT !.steer2 = e, !.steers2 = TRUE]
      BY <1>1, <1>3, <2>1, <3>1 DEF SteeredAnew
    <3>4. r \in Musics /\ r.steer2 = e
      BY <1>2, <3>2, <3>3 DEF Musics
    <3>5. Alike(s, r) /\ r.steers = s.steers /\ r.steer = s.steer
      BY <1>2, <3>3 DEF Musics, Alike
    <3> QED  BY <2>1, <3>1, <3>4, <3>5
  <2>2. CASE ~TwoD(m)
    <3>1. r = [s EXCEPT !.steers2 = FALSE]
      BY <1>1, <1>3, <2>2 DEF SteeredAnew
    <3>2. r \in Musics /\ r.steers2 = FALSE
      BY <1>2, <3>1 DEF Musics
    <3>3. Alike(s, r) /\ r.steers = s.steers /\ r.steer = s.steer
      BY <1>2, <3>1 DEF Musics, Alike
    <3> QED  BY <3>2, <3>3
  <2> QED  BY <2>1, <2>2
<1>5. Alike(m, r) /\ Steering(r) = Steering(s)
  BY <1>2, <1>4 DEF Alike, Steering
<1> QED  BY <1>2, <1>3, <1>4, <1>5

\* What may be said of MUSIC before it is steered.
Unsteered(m) == m.avg \subseteq {Array(m)} /\ (m.k.now = None => m.k.streak = 0)

LEMMA SteeredIsFitting ==
    ASSUME NEW x \in Musics, x.avg \subseteq {Array(x)}, x.k.now = None => x.k.streak = 0,
           x.steers2 => x.steer2 = Elevation(x) /\ TwoD(x)
    PROVE  Fitting(Steered(x))
<1>1. PICK r : r = Steered(x)
  OBVIOUS
<1>2. /\ Alike(x, r) /\ r.steers = ~(x.topo = "UCA" /\ x.n < 3) /\ r.steer = Steering(r)
      /\ r.steer2 = x.steer2 /\ r.steers2 = x.steers2
  BY <1>1, SteeredFits
<1>3. Array(r) = Array(x) /\ Elevation(r) = Elevation(x) /\ TwoD(r) = TwoD(x)
  BY <1>2 DEF Alike, Array, Elevation, TwoD
<1>4. Fitting(r)
  BY <1>2, <1>3 DEF Fitting, Alike
<1> QED  BY <1>1, <1>4

LEMMA SteeredAnewIsFitting ==
    ASSUME NEW x \in Musics, Unsteered(x)
    PROVE  Fitting(SteeredAnew(x))
<1>1. PICK r : r = SteeredAnew(x)
  OBVIOUS
<1>2. /\ Alike(x, r) /\ r.steers = ~(x.topo = "UCA" /\ x.n < 3) /\ r.steer = Steering(r)
      /\ r.steers2 => TwoD(x) /\ r.steer2 = Elevation(x)
  BY <1>1, SteeredAnewFits
<1>3. Array(r) = Array(x) /\ Elevation(r) = Elevation(x) /\ TwoD(r) = TwoD(x)
  BY <1>2 DEF Alike, Array, Elevation, TwoD
<1>4. Fitting(r)
  BY <1>2, <1>3 DEF Fitting, Alike, Unsteered
<1> QED  BY <1>1, <1>4

\* A setter may forget, and keeps what is shown.
Reset(m, r, f, n) ==
    /\ r \in Musics /\ Fitting(r) /\ r.freq = f /\ r.n = n
    /\ r.shown = m.shown /\ r.tilt \in {m.tilt, <<>>}
    /\ (r.acc = m.acc /\ r.frame = m.frame) \/ (r.acc = EmptyAcc /\ r.frame = <<>>)
    /\ r.k = m.k \/ r.k = Unknown

\* As long as a count is resolved, whether MUSIC is steered does not change.
CountKept(m, r) == r.k.now # None => (r.steers = m.steers)

\* What Forgotten leaves of x: all but the average and the count.
LEMMA ForgottenFits ==
    ASSUME NEW x \in Musics
    PROVE  /\ Forgotten(x) \in Musics /\ Unsteered(Forgotten(x))
           /\ Forgotten(x) = [x EXCEPT !.avg = {}, !.k = Unknown]
           /\ Forgotten(x).k = Unknown /\ Forgotten(x).acc = x.acc /\ Forgotten(x).frame = x.frame
           /\ Forgotten(x).shown = x.shown /\ Forgotten(x).tilt = x.tilt
           /\ Forgotten(x).freq = x.freq /\ Forgotten(x).n = x.n /\ Forgotten(x).topo = x.topo
           /\ Forgotten(x).steer2 = x.steer2 /\ Forgotten(x).steers2 = x.steers2
           /\ Forgotten(x).deep = x.deep
<1>1. PICK r : r = Forgotten(x)
  OBVIOUS
<1>2. r = [x EXCEPT !.avg = {}, !.k = Unknown]
  BY <1>1 DEF Forgotten
<1>3. r \in Musics /\ r.avg = {} /\ r.k = Unknown
  BY <1>2, EmptyFits DEF Musics
<1>4. /\ r.acc = x.acc /\ r.frame = x.frame /\ r.shown = x.shown /\ r.tilt = x.tilt
      /\ r.freq = x.freq /\ r.n = x.n /\ r.topo = x.topo
      /\ r.steer2 = x.steer2 /\ r.steers2 = x.steers2 /\ r.deep = x.deep
  BY <1>2 DEF Musics
<1> QED  BY <1>1, <1>2, <1>3, <1>4, EmptyFits DEF Unsteered

\* A setter that changes nothing.
LEMMA UntouchedFits ==
    ASSUME NEW m \in Musics, Fitting(m)
    PROVE  Reset(m, m, m.freq, m.n) /\ CountKept(m, m)
BY DEF Reset, CountKept

LEMMA WithFrequencyFits ==
    ASSUME NEW m \in Musics, Fitting(m), NEW f \in Nat
    PROVE  Reset(m, WithFrequency(m, f), f, m.n) /\ CountKept(m, WithFrequency(m, f))
<1>1. CASE m.freq = f
  BY <1>1, UntouchedFits DEF WithFrequency
<1>2. CASE m.freq # f
  <2>1. PICK y : y = [m EXCEPT !.freq = f]
    OBVIOUS
  <2>2. y \in Musics /\ y.freq = f
    BY <2>1 DEF Musics
  <2>3. /\ y.acc = m.acc /\ y.frame = m.frame /\ y.shown = m.shown /\ y.tilt = m.tilt
        /\ y.n = m.n /\ y.topo = m.topo /\ y.deep = m.deep
        /\ y.steer2 = m.steer2 /\ y.steers2 = m.steers2
    BY <2>1 DEF Musics
  <2>4. PICK x : x = Forgotten(y)
    OBVIOUS
  <2>5. /\ x \in Musics /\ Unsteered(x) /\ x.k = Unknown /\ x.freq = f
        /\ x.acc = m.acc /\ x.frame = m.frame /\ x.shown = m.shown /\ x.tilt = m.tilt
        /\ x.n = m.n /\ x.topo = m.topo /\ x.deep = m.deep
        /\ x.steer2 = m.steer2 /\ x.steers2 = m.steers2
    BY <2>2, <2>3, <2>4, ForgottenFits
  <2>6. x.steers2 => x.steer2 = Elevation(x) /\ TwoD(x)
    BY <2>5 DEF Fitting, Elevation, TwoD
  <2>7. PICK r : r = Steered(x)
    OBVIOUS
  <2>8. WithFrequency(m, f) = r
    BY <1>2, <2>1, <2>4, <2>7 DEF WithFrequency
  <2>9. r \in Musics /\ Alike(x, r) /\ Fitting(r)
    BY <2>5, <2>6, <2>7, SteeredFits, SteeredIsFitting DEF Unsteered
  <2>10. Reset(m, r, f, m.n) /\ CountKept(m, r)
    BY <2>5, <2>9, EmptyFits DEF Reset, CountKept, Alike
  <2> QED  BY <2>8, <2>10
<1> QED  BY <1>1, <1>2

LEMMA WithTopologyFits ==
    ASSUME NEW m \in Musics, Fitting(m), NEW t \in Arrangements
    PROVE  /\ Reset(m, WithTopology(m, t), m.freq, m.n) /\ CountKept(m, WithTopology(m, t))
           /\ WithTopology(m, t).topo = t
<1>1. CASE m.topo = t
  BY <1>1, UntouchedFits DEF WithTopology
<1>2. CASE m.topo # t
  <2>1. PICK y : y = [m EXCEPT !.topo = t]
    OBVIOUS
  <2>2. y \in Musics /\ y.topo = t
    BY <2>1 DEF Musics
  <2>3. /\ y.acc = m.acc /\ y.frame = m.frame /\ y.shown = m.shown /\ y.tilt = m.tilt
        /\ y.n = m.n /\ y.freq = m.freq
    BY <2>1 DEF Musics
  <2>4. PICK x : x = Forgotten(y)
    OBVIOUS
  <2>5. /\ x \in Musics /\ Unsteered(x) /\ x.k = Unknown /\ x.topo = t
        /\ x.acc = m.acc /\ x.frame = m.frame /\ x.shown = m.shown /\ x.tilt = m.tilt
        /\ x.n = m.n /\ x.freq = m.freq
    BY <2>2, <2>3, <2>4, ForgottenFits
  <2>6. PICK r : r = SteeredAnew(x)
    OBVIOUS
  <2>7. WithTopology(m, t) = r
    BY <1>2, <2>1, <2>4, <2>6 DEF WithTopology
  <2>8. r \in Musics /\ Alike(x, r) /\ Fitting(r)
    BY <2>5, <2>6, SteeredAnewFits, SteeredAnewIsFitting
  <2>9. Reset(m, r, m.freq, m.n) /\ CountKept(m, r) /\ r.topo = t
    BY <2>5, <2>8, EmptyFits DEF Reset, CountKept, Alike
  <2> QED  BY <2>7, <2>9
<1> QED  BY <1>1, <1>2

LEMMA WithPositionsFits ==
    ASSUME NEW m \in Musics, Fitting(m), NEW d \in BOOLEAN
    PROVE  /\ Reset(m, WithPositions(m, d), m.freq, m.n)
           /\ WithPositions(m, d).steers => m.steers
<1>1. CASE m.topo = "CUSTOM"
  <2>1. PICK x : x = [m EXCEPT !.deep = d]
    OBVIOUS
  <2>2. x \in Musics
    BY <2>1 DEF Musics
  <2>3. /\ x.acc = m.acc /\ x.frame = m.frame /\ x.shown = m.shown /\ x.tilt = m.tilt
        /\ x.n = m.n /\ x.freq = m.freq /\ x.k = m.k /\ x.avg = m.avg /\ x.topo = m.topo
        /\ x.fb = m.fb
    BY <2>1 DEF Musics
  <2>4. Unsteered(x)
    BY <2>3 DEF Unsteered, Fitting, Array
  <2>5. PICK r : r = SteeredAnew(x)
    OBVIOUS
  <2>6. WithPositions(m, d) = r
    BY <1>1, <2>1, <2>5 DEF WithPositions
  <2>7. r \in Musics /\ Alike(x, r) /\ Fitting(r)
    BY <2>2, <2>4, <2>5, SteeredAnewFits, SteeredAnewIsFitting
  <2>8. Reset(m, r, m.freq, m.n)
    BY <2>3, <2>7 DEF Reset, Alike
  <2> QED  BY <1>1, <2>6, <2>8 DEF Fitting
<1>2. CASE m.topo # "CUSTOM"
  <2>1. PICK r : r = [m EXCEPT !.deep = d, !.steers = FALSE, !.steers2 = FALSE]
    OBVIOUS
  <2>2. r \in Musics /\ r.steers = FALSE /\ r.steers2 = FALSE
    BY <2>1 DEF Musics
  <2>3. /\ r.acc = m.acc /\ r.frame = m.frame /\ r.shown = m.shown /\ r.tilt = m.tilt
        /\ r.n = m.n /\ r.freq = m.freq /\ r.k = m.k /\ r.avg = m.avg /\ r.topo = m.topo
        /\ r.fb = m.fb
    BY <2>1 DEF Musics
  <2>4. Fitting(r)
    BY <1>2, <2>2, <2>3 DEF Fitting, Array
  <2>5. Reset(m, r, m.freq, m.n)
    BY <2>2, <2>3, <2>4 DEF Reset
  <2>6. WithPositions(m, d) = r
    BY <1>2, <2>1 DEF WithPositions
  <2> QED  BY <2>2, <2>5, <2>6
<1> QED  BY <1>1, <1>2

LEMMA WithRadiusFits ==
    ASSUME NEW m \in Musics, Fitting(m), NEW v \in 0 .. 1, m.k.now # None => m.steers
    PROVE  Reset(m, WithRadius(m, v), m.freq, m.n) /\ CountKept(m, WithRadius(m, v))
<1>1. CASE m.radius = v
  BY <1>1, UntouchedFits DEF WithRadius
<1>2. CASE m.radius # v
  <2>1. PICK x : x = [m EXCEPT !.radius = v]
    OBVIOUS
  <2>2. x \in Musics
    BY <2>1 DEF Musics
  <2>3. /\ x.acc = m.acc /\ x.frame = m.frame /\ x.shown = m.shown /\ x.tilt = m.tilt
        /\ x.n = m.n /\ x.freq = m.freq /\ x.k = m.k /\ x.avg = m.avg /\ x.topo = m.topo
        /\ x.fb = m.fb /\ x.deep = m.deep /\ x.steer2 = m.steer2 /\ x.steers2 = m.steers2
    BY <2>1 DEF Musics
  <2>4. Unsteered(x) /\ (x.steers2 => x.steer2 = Elevation(x) /\ TwoD(x))
    BY <2>3 DEF Unsteered, Fitting, Array, Elevation, TwoD
  <2>5. PICK r : r = Steered(x)
    OBVIOUS
  <2>6. WithRadius(m, v) = r
    BY <1>2, <2>1, <2>5 DEF WithRadius
  <2>7. r \in Musics /\ Alike(x, r) /\ Fitting(r) /\ r.steers = ~(m.topo = "UCA" /\ m.n < 3)
    BY <2>2, <2>3, <2>4, <2>5, SteeredFits, SteeredIsFitting DEF Unsteered
  <2>8. Reset(m, r, m.freq, m.n)
    BY <2>3, <2>7 DEF Reset, Alike
  <2>9. m.steers => ~(m.topo = "UCA" /\ m.n < 3)
    BY DEF Fitting
  <2>10. CountKept(m, r)
    BY <2>3, <2>7, <2>9 DEF CountKept, Alike, Musics
  <2> QED  BY <2>6, <2>8, <2>10
<1> QED  BY <1>1, <1>2

LEMMA WithElevationFits ==
    ASSUME NEW m \in Musics, Fitting(m)
    PROVE  Reset(m, WithElevation(m), m.freq, m.n) /\ CountKept(m, WithElevation(m))
<1>1. PICK x : x = IF TwoD(m) THEN SteeredAnew(m) ELSE [m EXCEPT !.steers2 = FALSE]
  OBVIOUS
<1>2. /\ x \in Musics /\ Alike(m, x) /\ Fitting(x) /\ (m.k.now # None => x.steers = m.steers)
  <2>1. CASE TwoD(m)
    <3>1. x = SteeredAnew(m) /\ Unsteered(m) /\ m.steers = TRUE /\ m.topo = "CUSTOM"
      BY <1>1, <2>1 DEF Unsteered, Fitting, TwoD, Musics
    <3>2. x.steers = TRUE
      BY <3>1, SteeredAnewFits
    <3> QED  BY <3>1, <3>2, SteeredAnewFits, SteeredAnewIsFitting
  <2>2. CASE ~TwoD(m)
    <3>1. x = [m EXCEPT !.steers2 = FALSE]
      BY <1>1, <2>2
    <3>2. x \in Musics /\ x.steers2 = FALSE
      BY <3>1 DEF Musics
    <3>3. Alike(m, x) /\ x.steers = m.steers /\ x.steer = m.steer
      BY <3>1 DEF Musics, Alike
    <3>4. Array(x) = Array(m) /\ Steering(x) = Steering(m)
      BY <3>3 DEF Alike, Array, Steering
    <3>5. Fitting(x)
      BY <3>2, <3>3, <3>4 DEF Fitting, Alike
    <3> QED  BY <3>2, <3>3, <3>5
  <2> QED  BY <2>1, <2>2
<1>3. PICK r : r = [x EXCEPT !.tilt = <<>>]
  OBVIOUS
<1>4. r \in Musics /\ r.tilt = <<>>
  BY <1>2, <1>3, EmptyFits DEF Musics
<1>5. /\ r.freq = x.freq /\ r.n = x.n /\ r.topo = x.topo /\ r.fb = x.fb /\ r.radius = x.radius
      /\ r.deep = x.deep /\ r.avg = x.avg /\ r.acc = x.acc /\ r.frame = x.frame /\ r.k = x.k
      /\ r.shown = x.shown /\ r.steer = x.steer /\ r.steers = x.steers
      /\ r.steer2 = x.steer2 /\ r.steers2 = x.steers2
  BY <1>2, <1>3 DEF Musics
<1>6. Array(r) = Array(x) /\ Steering(r) = Steering(x) /\ Elevation(r) = Elevation(x)
      /\ TwoD(r) = TwoD(x)
  BY <1>5 DEF Array, Steering, Elevation, TwoD
<1>7. Fitting(r)
  BY <1>2, <1>5, <1>6 DEF Fitting
<1>8. Reset(m, r, m.freq, m.n) /\ CountKept(m, r)
  BY <1>2, <1>4, <1>5, <1>7 DEF Reset, CountKept, Alike
<1>9. WithElevation(m) = r
  BY <1>1, <1>3 DEF WithElevation
<1> QED  BY <1>8, <1>9

\* Setters that leave the steering vectors alone.
LEMMA OthersFit ==
    ASSUME NEW m \in Musics, Fitting(m), NEW b \in BOOLEAN,
           NEW r \in {WithFB(m, b), WithAlpha(m, b), WithAutoSources(m, b), WithConfig(m),
                      [m EXCEPT !.enabled = b]}
    PROVE  Reset(m, r, m.freq, m.n) /\ CountKept(m, r)
<1>1. CASE r = m
  BY <1>1, UntouchedFits
<1>2. ASSUME r \in Musics, r.freq = m.freq, r.n = m.n, r.topo = m.topo, r.radius = m.radius,
             r.deep = m.deep, r.shown = m.shown, r.tilt = m.tilt, r.steer = m.steer,
             r.steers = m.steers, r.steer2 = m.steer2, r.steers2 = m.steers2,
             \/ r.acc = m.acc /\ r.frame = m.frame
             \/ r.acc = EmptyAcc /\ r.frame = <<>>,
             r.k = m.k \/ r.k = Unknown, r.avg = {} \/ (r.avg = m.avg /\ r.fb = m.fb)
      PROVE  Reset(m, r, m.freq, m.n) /\ CountKept(m, r)
  <2>1. Steering(r) = Steering(m) /\ Elevation(r) = Elevation(m) /\ TwoD(r) = TwoD(m)
    BY <1>2 DEF Steering, Elevation, TwoD
  <2>2. r.avg \subseteq {Array(r)}
    BY <1>2 DEF Array, Fitting
  <2>3. r.k.now = None => r.k.streak = 0
    BY <1>2, EmptyFits DEF Fitting
  <2>4. Fitting(r)
    BY <1>2, <2>1, <2>2, <2>3 DEF Fitting
  <2> QED  BY <1>2, <2>4 DEF Reset, CountKept
<1>3. CASE r = [m EXCEPT !.fb = b, !.avg = {}]
  <2>1. r \in Musics
    BY <1>3 DEF Musics
  <2>2. /\ r.freq = m.freq /\ r.n = m.n /\ r.topo = m.topo /\ r.radius = m.radius
        /\ r.deep = m.deep /\ r.shown = m.shown /\ r.tilt = m.tilt /\ r.steer = m.steer
        /\ r.steers = m.steers /\ r.steer2 = m.steer2 /\ r.steers2 = m.steers2
        /\ r.acc = m.acc /\ r.frame = m.frame /\ r.k = m.k /\ r.avg = {}
    BY <1>3 DEF Musics
  <2> QED  BY <1>2, <2>1, <2>2
<1>4. CASE r = [m EXCEPT !.averages = b, !.avg = {}]
  <2>1. r \in Musics
    BY <1>4 DEF Musics
  <2>2. /\ r.freq = m.freq /\ r.n = m.n /\ r.topo = m.topo /\ r.radius = m.radius
        /\ r.deep = m.deep /\ r.shown = m.shown /\ r.tilt = m.tilt /\ r.steer = m.steer
        /\ r.steers = m.steers /\ r.steer2 = m.steer2 /\ r.steers2 = m.steers2
        /\ r.acc = m.acc /\ r.frame = m.frame /\ r.k = m.k /\ r.avg = {}
    BY <1>4 DEF Musics
  <2> QED  BY <1>2, <2>1, <2>2
<1>5. CASE r = [m EXCEPT !.autoK = b, !.k = Unknown]
  <2>1. r \in Musics
    BY <1>5, EmptyFits DEF Musics
  <2>2. /\ r.freq = m.freq /\ r.n = m.n /\ r.topo = m.topo /\ r.radius = m.radius
        /\ r.deep = m.deep /\ r.shown = m.shown /\ r.tilt = m.tilt /\ r.steer = m.steer
        /\ r.steers = m.steers /\ r.steer2 = m.steer2 /\ r.steers2 = m.steers2
        /\ r.acc = m.acc /\ r.frame = m.frame /\ r.k = Unknown /\ r.avg = m.avg /\ r.fb = m.fb
    BY <1>5 DEF Musics
  <2> QED  BY <1>2, <2>1, <2>2
<1>6. CASE r = [m EXCEPT !.acc = EmptyAcc, !.frame = <<>>, !.avg = {}, !.k = Unknown]
  <2>1. r \in Musics
    BY <1>6, EmptyFits DEF Musics
  <2>2. /\ r.freq = m.freq /\ r.n = m.n /\ r.topo = m.topo /\ r.radius = m.radius
        /\ r.deep = m.deep /\ r.shown = m.shown /\ r.tilt = m.tilt /\ r.steer = m.steer
        /\ r.steers = m.steers /\ r.steer2 = m.steer2 /\ r.steers2 = m.steers2
        /\ r.acc = EmptyAcc /\ r.frame = <<>> /\ r.k = Unknown /\ r.avg = {}
    BY <1>6 DEF Musics
  <2> QED  BY <1>2, <2>1, <2>2
<1>7. CASE r = [m EXCEPT !.enabled = b]
  <2>1. r \in Musics
    BY <1>7 DEF Musics
  <2>2. /\ r.freq = m.freq /\ r.n = m.n /\ r.topo = m.topo /\ r.radius = m.radius
        /\ r.deep = m.deep /\ r.shown = m.shown /\ r.tilt = m.tilt /\ r.steer = m.steer
        /\ r.steers = m.steers /\ r.steer2 = m.steer2 /\ r.steers2 = m.steers2
        /\ r.acc = m.acc /\ r.frame = m.frame /\ r.k = m.k /\ r.avg = m.avg /\ r.fb = m.fb
    BY <1>7 DEF Musics
  <2> QED  BY <1>2, <2>1, <2>2
<1>8. WithConfig(m) = [m EXCEPT !.acc = EmptyAcc, !.frame = <<>>, !.avg = {}, !.k = Unknown]
  BY DEF WithConfig, Forgotten
<1> QED  BY <1>1, <1>3, <1>4, <1>5, <1>6, <1>7, <1>8 DEF WithFB, WithAlpha, WithAutoSources

LEMMA SyncedFits ==
    ASSUME NEW m \in Musics, Fitting(m), NEW n \in Sizes
    PROVE  /\ Synced(m, n) \in Musics /\ Reset(m, Synced(m, n), m.freq, n)
           /\ m.n = n => Synced(m, n) = m
           /\ m.n # n => Synced(m, n).k = Unknown
<1>1. CASE m.n = n
  BY <1>1, UntouchedFits DEF Synced
<1>2. CASE m.n # n
  <2>1. PICK y : y = [m EXCEPT !.n = n, !.acc = EmptyAcc, !.frame = <<>>]
    OBVIOUS
  <2>2. y \in Musics /\ y.n = n /\ y.acc = EmptyAcc /\ y.frame = <<>>
    BY <2>1, EmptyFits DEF Musics
  <2>3. y.shown = m.shown /\ y.tilt = m.tilt /\ y.freq = m.freq
    BY <2>1 DEF Musics
  <2>4. PICK x : x = Forgotten(y)
    OBVIOUS
  <2>5. /\ x \in Musics /\ Unsteered(x) /\ x.k = Unknown /\ x.n = n
        /\ x.acc = EmptyAcc /\ x.frame = <<>> /\ x.shown = m.shown /\ x.tilt = m.tilt
        /\ x.freq = m.freq
    BY <2>2, <2>3, <2>4, ForgottenFits
  <2>6. PICK r : r = SteeredAnew(x)
    OBVIOUS
  <2>7. Synced(m, n) = r
    BY <1>2, <2>1, <2>4, <2>6 DEF Synced
  <2>8. r \in Musics /\ Alike(x, r) /\ Fitting(r)
    BY <2>5, <2>6, SteeredAnewFits, SteeredAnewIsFitting
  <2>9. Reset(m, r, m.freq, n) /\ r.k = Unknown
    BY <2>5, <2>8 DEF Reset, Alike
  <2> QED  BY <1>2, <2>7, <2>8, <2>9
<1> QED  BY <1>1, <1>2

-----------------------------------------------------------------------------
(* A block that goes through MUSIC.                                          *)

LEMMA ResolvedFits ==
    ASSUME NEW k \in Answers, NEW raw \in 0 .. 1, k.now = None => k.streak = 0
    PROVE  /\ Resolved(k, raw) \in Answers /\ Resolved(k, raw).now # None
<1>1. StableFrames \in Nat /\ StableFrames >= 1 /\ raw \in {None, 0, 1} /\ raw # None
  BY FinderGiven DEF None
<1>2. CASE k.now = None
  BY <1>1, <1>2 DEF Resolved, Answers
<1>3. CASE k.now # None /\ raw = k.now
  <2>1. Resolved(k, raw) = [k EXCEPT !.candidate = raw, !.streak = 0]
    BY <1>3 DEF Resolved
  <2>2. 0 \in 0 .. StableFrames
    BY <1>1
  <2> QED  BY <1>1, <1>3, <2>1, <2>2 DEF Answers
<1>4. CASE k.now # None /\ raw # k.now /\ raw = k.candidate
  <2>1. CASE k.streak + 1 >= StableFrames
    <3>1. Resolved(k, raw) = [k EXCEPT !.now = raw, !.streak = 0]
      BY <1>4, <2>1 DEF Resolved
    <3>2. 0 \in 0 .. StableFrames
      BY <1>1
    <3> QED  BY <1>1, <3>1, <3>2 DEF Answers
  <2>2. CASE ~(k.streak + 1 >= StableFrames)
    <3>1. k.streak + 1 \in 0 .. StableFrames
      BY <1>1, <2>2 DEF Answers
    <3>2. Resolved(k, raw) = [k EXCEPT !.streak = k.streak + 1]
      BY <1>4, <2>2 DEF Resolved
    <3> QED  BY <1>4, <3>1, <3>2 DEF Answers
  <2> QED  BY <2>1, <2>2
<1>5. CASE k.now # None /\ raw # k.now /\ raw # k.candidate
  <2>1. Resolved(k, raw) = [k EXCEPT !.candidate = raw, !.streak = 1]
    BY <1>5 DEF Resolved
  <2>2. 1 \in 0 .. StableFrames
    BY <1>1
  <2> QED  BY <1>1, <1>5, <2>1, <2>2 DEF Answers
<1> QED  BY <1>2, <1>3, <1>4, <1>5

\* A frame: what is shown is of its last snapshot, and a count is resolved only
\* with an array that is steered.
LEMMA ComputedFits ==
    ASSUME NEW m \in Musics, Fitting(m), InOrder(m.acc), SnapsOf(m.acc.avail) >= MinSnaps,
           NEW raw \in 0 .. 1, NEW ratio
    PROVE  LET c == Computed(m, raw, ratio)
           IN  /\ c \in Musics /\ Fitting(c) /\ c.freq = m.freq /\ c.n = m.n
               /\ c.steers = m.steers /\ c.autoK = m.autoK /\ FrameMade(c.frame, m.acc, c.acc)
               /\ c.k = IF m.autoK /\ m.steers THEN Resolved(m.k, raw) ELSE m.k
               /\ c.shown \in {m.shown, <<>>, Last(c.frame)}
               /\ c.tilt \in {m.tilt, Last(c.frame)}
<1>1. PICK snaps : snaps = Extracted(m.acc)
  OBVIOUS
<1>2. PICK rest : rest = Consumed(m.acc)
  OBVIOUS
<1>3. PICK avg : avg = Averaged(m)
  OBVIOUS
<1>4. PICK g : g = [m EXCEPT !.avg = avg, !.frame = snaps, !.acc = rest]
  OBVIOUS
<1>5. m.acc \in Accs /\ m.k \in Answers /\ m.autoK \in BOOLEAN /\ m.hold \in BOOLEAN
  BY DEF Musics
<1>6. FrameMade(snaps, m.acc, rest)
  BY <1>1, <1>2, <1>5, FrameIsMade
<1>7. /\ snaps \in Seq(Seq(Int)) /\ rest \in Accs
      /\ Last(snaps) \in Seq(Int)
  <2>1. snaps \in Seq(Seq(Int)) /\ rest \in Accs /\ Len(snaps) >= 1
    BY <1>6 DEF FrameMade
  <2>2. Len(snaps) \in 1 .. Len(snaps)
    BY <2>1, LenProperties
  <2> QED  BY <2>1, <2>2, ElementOfSeq DEF Last
<1>8. avg \subseteq {Array(m)} /\ avg \in SUBSET Arrays
  <2>1. Array(m) \in Arrays
    BY DEF Musics, Array, Arrays
  <2>2. m.avg \subseteq {Array(m)}
    BY DEF Fitting
  <2> QED  BY <1>3, <2>1, <2>2 DEF Averaged
<1>9. /\ g \in Musics /\ g.avg = avg /\ g.frame = snaps /\ g.acc = rest /\ g.k = m.k
      /\ g.freq = m.freq /\ g.n = m.n /\ g.topo = m.topo /\ g.radius = m.radius
      /\ g.deep = m.deep /\ g.fb = m.fb /\ g.steer = m.steer /\ g.steer2 = m.steer2
      /\ g.steers2 = m.steers2 /\ g.steers = m.steers /\ g.shown = m.shown /\ g.tilt = m.tilt
      /\ g.autoK = m.autoK
  BY <1>4, <1>7, <1>8 DEF Musics
<1>10. Fitting(g)
  <2>1. /\ Array(g) = Array(m) /\ Steering(g) = Steering(m) /\ Elevation(g) = Elevation(m)
        /\ (TwoD(m) => TwoD(g))
    BY <1>9 DEF Array, Steering, Elevation, TwoD
  <2> HIDE DEF Musics
  <2> QED  BY <1>8, <1>9, <2>1 DEF Fitting
<1>11. PICK k : k = IF m.autoK THEN Resolved(m.k, raw) ELSE m.k
  OBVIOUS
<1>12. k \in Answers /\ (k.now = None => k.streak = 0)
  <2>1. m.k.now = None => m.k.streak = 0
    BY DEF Fitting
  <2> QED  BY <1>5, <1>11, <2>1, ResolvedFits
<1>13. PICK closed \in BOOLEAN : closed = GateClosed(m, ratio)
  BY DEF GateClosed
<1>14. PICK tilt : tilt = Tilted(m, snaps) /\ tilt \in Seq(Int) /\ tilt \in {m.tilt, Last(snaps)}
  BY <1>7 DEF Tilted, Musics
<1>15. PICK c : c = Computed(m, raw, ratio)
  OBVIOUS
<1>16. CASE Planar(m) /\ ~m.steers
  <2>1. c = [g EXCEPT !.shown = <<>>]
    BY <1>1, <1>2, <1>3, <1>4, <1>15, <1>16 DEF Computed
  <2>2. /\ c \in Musics /\ c.k = m.k /\ c.avg = g.avg /\ c.shown = <<>> /\ c.tilt = m.tilt
        /\ c.frame = snaps /\ c.acc = rest
        /\ c.freq = g.freq /\ c.n = g.n /\ c.topo = g.topo /\ c.radius = g.radius
        /\ c.deep = g.deep /\ c.fb = g.fb /\ c.steer = g.steer /\ c.steer2 = g.steer2
        /\ c.steers2 = g.steers2 /\ c.steers = g.steers /\ c.autoK = g.autoK
    BY <1>9, <2>1, EmptyFits DEF Musics
  <2>3. /\ Array(c) = Array(g) /\ Steering(c) = Steering(g) /\ Elevation(c) = Elevation(g)
        /\ (TwoD(g) => TwoD(c))
    BY <2>2 DEF Array, Steering, Elevation, TwoD
  <2> HIDE DEF Musics
  <2>4. Fitting(c)
    BY <1>9, <1>10, <2>2, <2>3 DEF Fitting
  <2>5. c.k = IF m.autoK /\ m.steers THEN Resolved(m.k, raw) ELSE m.k
    BY <1>16, <2>2
  <2>6. c.shown \in {m.shown, <<>>, Last(c.frame)} /\ c.tilt \in {m.tilt, Last(c.frame)}
    BY <2>2
  <2> QED  BY <1>6, <1>9, <1>15, <2>2, <2>4, <2>5, <2>6
<1>17. CASE ~(Planar(m) /\ ~m.steers)
  <2>1. m.steers
    BY <1>17 DEF Planar, TwoD, Fitting
  <2>2. \/ c = [g EXCEPT !.k = k, !.closed = closed]
        \/ c = [g EXCEPT !.k = k, !.closed = FALSE, !.shown = Last(snaps), !.tilt = tilt]
    BY <1>1, <1>2, <1>3, <1>4, <1>11, <1>13, <1>14, <1>15, <1>17 DEF Computed
  <2>3. /\ c \in Musics /\ c.k = k /\ c.avg = g.avg /\ c.shown \in {m.shown, Last(snaps)}
        /\ c.tilt \in {m.tilt, Last(snaps)} /\ c.frame = snaps /\ c.acc = rest
        /\ c.freq = g.freq /\ c.n = g.n /\ c.topo = g.topo /\ c.radius = g.radius
        /\ c.deep = g.deep /\ c.fb = g.fb /\ c.steer = g.steer /\ c.steer2 = g.steer2
        /\ c.steers2 = g.steers2 /\ c.steers = g.steers /\ c.autoK = g.autoK
    <3>1. CASE c = [g EXCEPT !.k = k, !.closed = closed]
      BY <1>9, <1>12, <3>1 DEF Musics
    <3>2. CASE c = [g EXCEPT !.k = k, !.closed = FALSE, !.shown = Last(snaps), !.tilt = tilt]
      BY <1>7, <1>9, <1>12, <1>14, <3>2 DEF Musics
    <3> QED  BY <2>2, <3>1, <3>2
  <2>4. /\ Array(c) = Array(g) /\ Steering(c) = Steering(g) /\ Elevation(c) = Elevation(g)
        /\ (TwoD(g) => TwoD(c))
    BY <2>3 DEF Array, Steering, Elevation, TwoD
  <2> HIDE DEF Musics
  <2>5. Fitting(c)
    BY <1>9, <1>10, <1>12, <2>3, <2>4 DEF Fitting
  <2>6. c.k = IF m.autoK /\ m.steers THEN Resolved(m.k, raw) ELSE m.k
    BY <1>5, <1>11, <2>1, <2>3
  <2> QED  BY <1>6, <1>9, <1>15, <2>3, <2>5, <2>6
<1> QED  BY <1>16, <1>17

\* The three ways a block goes: past MUSIC, into the accumulator, into a frame.
LEMMA RunWays ==
    ASSUME NEW raw \in 0 .. 1, NEW ratio, NEW s, s = Synced(music, radio.n),
           NEW a, a = [s EXCEPT !.acc = Accumulated(s.acc, task.samples)]
    PROVE  \/ Frame(raw, ratio) = music
           \/ Frame(raw, ratio) = s
           \/ Frame(raw, ratio) = a
           \/ /\ SnapsOf(a.acc.avail) >= MinSnaps \/ ~(SnapsOf(a.acc.avail) < MinSnaps)
              /\ Frame(raw, ratio) = Computed(a, raw, ratio)
BY DEF Frame

LEMMA PastIsNat ==
    ASSUME FinderTypes, AtHand
    PROVE  Past \in Nat /\ Past <= budget.taken /\ budget.taken \in Nat
<1>1. budget.taken \in Nat /\ Len(task.samples) \in Nat
  BY LenProperties DEF FinderTypes
<1> QED  BY <1>1 DEF AtHand, Past

\* The accumulator after a block has been added to it.
LEMMA AddedInOrder ==
    ASSUME FinderTypes, Fitting(music), Accumulating, Framed, AtHand, task.pc = "run",
           NEW s, s = Synced(music, radio.n),
           NEW a, a = [s EXCEPT !.acc = Accumulated(s.acc, task.samples)]
    PROVE  /\ s \in Musics /\ Reset(music, s, music.freq, radio.n)
           /\ a \in Musics /\ Fitting(a) /\ a.freq = music.freq /\ a.n = radio.n
           /\ a.k = s.k /\ a.steers = s.steers /\ a.autoK = s.autoK
           /\ a.frame = s.frame /\ a.shown = s.shown /\ a.tilt = s.tilt
           /\ InOrder(a.acc) /\ a.acc.avail <= budget.taken
           /\ \A j \in 0 .. a.acc.avail - 1 : Sample(a.acc, j) \in (1 .. budget.taken) \ seen.noisy
           /\ \A k \in DOMAIN music.frame, i \in 1 .. SnapLength, j \in 0 .. a.acc.avail - 1 :
                 music.frame[k][i] < Sample(a.acc, j)
<1>1. /\ music \in Musics /\ radio.n \in Sizes /\ task.samples \in Seq(Int)
      /\ radio.noise \in BOOLEAN
  BY DEF FinderTypes
<1>2. Reset(music, s, music.freq, radio.n) /\ s \in Musics
  BY <1>1, SyncedFits DEF Reset
<1>3. Past \in Nat /\ budget.taken \in Nat /\ Len(task.samples) \in Nat
  BY <1>1, PastIsNat, LenProperties
<1>4. /\ budget.taken = Past + Len(task.samples)
      /\ \A i \in 1 .. Len(task.samples) : /\ task.samples[i] = Past + i
                                           /\ task.samples[i] \notin seen.noisy
  <2>1. task.pc \in Before
    BY DEF Before
  <2>2. ~radio.noise /\ \A i \in 1 .. Len(task.samples) : task.samples[i] = Past + i
    BY <2>1 DEF AtHand
  <2>3. seen.noisy \cap ToSet(task.samples) = {}
    BY <2>1, <2>2 DEF AtHand
  <2>4. \A i \in 1 .. Len(task.samples) : task.samples[i] \in ToSet(task.samples)
    BY <1>1, LenProperties DEF ToSet
  <2>5. budget.taken = Past + Len(task.samples)
    BY <1>3, <2>1 DEF Past
  <2> QED  BY <2>2, <2>3, <2>4, <2>5
<1>5. /\ s.acc \in Accs /\ s.acc.avail \in Nat /\ InOrder(s.acc) /\ s.acc.avail <= Past
      /\ \A j \in 0 .. s.acc.avail - 1 :
            /\ Sample(s.acc, j) \in (1 .. Past) \ seen.noisy
            /\ \A k \in DOMAIN music.frame, i \in 1 .. SnapLength :
                  music.frame[k][i] < Sample(s.acc, j)
  <2>1. s.acc \in Accs /\ s.acc.avail \in Nat
    BY <1>2 DEF Musics, Accs
  <2>2. CASE s.acc = music.acc
    BY <2>1, <2>2 DEF Accumulating, Framed
  <2>3. CASE s.acc = EmptyAcc
    BY <1>3, <2>1, <2>3, EmptyFits DEF InOrder
  <2> QED  BY <1>2, <2>2, <2>3 DEF Reset
<1>6. PICK b : b = Accumulated(s.acc, task.samples)
  OBVIOUS
<1>7. /\ b \in Accs /\ InOrder(b) /\ b.avail <= s.acc.avail + Len(task.samples)
      /\ \A j \in 0 .. b.avail - 1 :
            \/ \E p \in 0 .. s.acc.avail - 1 : Sample(b, j) = Sample(s.acc, p)
            \/ \E i \in 1 .. Len(task.samples) : Sample(b, j) = task.samples[i]
  <2>1. \A j \in 0 .. s.acc.avail - 1 : Sample(s.acc, j) <= Past
    BY <1>3, <1>5
  <2>2. PICK S \in Seq(Int) : S = task.samples
    BY <1>1
  <2>3. PICK past \in Nat : past = Past
    BY <1>3
  <2>4. /\ \A j \in 0 .. s.acc.avail - 1 : Sample(s.acc, j) <= past
        /\ \A i \in 1 .. Len(S) : S[i] = past + i
    BY <1>4, <2>1, <2>2, <2>3
  <2>5. b = Accumulated(s.acc, S)
    BY <1>6, <2>2
  <2>6. /\ b \in Accs /\ InOrder(b) /\ b.avail <= s.acc.avail + Len(S)
        /\ \A j \in 0 .. b.avail - 1 :
              \/ \E p \in 0 .. s.acc.avail - 1 : Sample(b, j) = Sample(s.acc, p)
              \/ \E i \in 1 .. Len(S) : Sample(b, j) = S[i]
    BY <1>5, <2>4, <2>5, OrderIsKept
  <2> QED  BY <2>2, <2>6
<1>8. b.avail \in Nat /\ b.avail <= budget.taken
  BY <1>3, <1>4, <1>5, <1>7 DEF Accs
<1>9. ASSUME NEW j \in 0 .. b.avail - 1
      PROVE  /\ Sample(b, j) \in (1 .. budget.taken) \ seen.noisy
             /\ \A k \in DOMAIN music.frame, i \in 1 .. SnapLength : music.frame[k][i] < Sample(b, j)
  <2>1. CASE \E p \in 0 .. s.acc.avail - 1 : Sample(b, j) = Sample(s.acc, p)
    BY <1>3, <1>4, <1>5, <2>1
  <2>2. CASE \E i \in 1 .. Len(task.samples) : Sample(b, j) = task.samples[i]
    <3>1. PICK h \in 1 .. Len(task.samples) : Sample(b, j) = task.samples[h]
      BY <2>2
    <3>2. Sample(b, j) = Past + h /\ Sample(b, j) \notin seen.noisy
      BY <1>4, <3>1
    <3>3. Sample(b, j) \in 1 .. budget.taken /\ Sample(b, j) > Past
      BY <1>3, <1>4, <3>2
    <3>4. \A k \in DOMAIN music.frame, i \in 1 .. SnapLength : music.frame[k][i] \in 1 .. Past
      BY DEF Framed
    <3> QED  BY <1>3, <3>2, <3>3, <3>4
  <2> QED  BY <1>7, <2>1, <2>2
<1>10. /\ a \in Musics /\ a.acc = b /\ a.freq = s.freq /\ a.n = s.n /\ a.k = s.k
       /\ a.steers = s.steers /\ a.autoK = s.autoK /\ a.frame = s.frame /\ a.shown = s.shown
       /\ a.tilt = s.tilt /\ a.avg = s.avg /\ a.topo = s.topo /\ a.fb = s.fb
       /\ a.radius = s.radius /\ a.deep = s.deep /\ a.steer = s.steer /\ a.steer2 = s.steer2
       /\ a.steers2 = s.steers2
  BY <1>2, <1>6, <1>7 DEF Musics
<1> HIDE DEF Musics
<1>11. Fitting(a)
  <2>1. /\ Array(a) = Array(s) /\ Steering(a) = Steering(s) /\ Elevation(a) = Elevation(s)
        /\ (TwoD(s) => TwoD(a))
    BY <1>10 DEF Array, Steering, Elevation, TwoD
  <2> QED  BY <1>2, <1>10, <2>1 DEF Fitting, Reset
<1> QED  BY <1>2, <1>7, <1>8, <1>9, <1>10, <1>11 DEF Reset

\* A frame is younger than the one before, and every snapshot is in order.
Ahead(m) ==
    \A k \in DOMAIN m.frame :
       /\ \A i, j \in 1 .. SnapLength : i < j => m.frame[k][i] < m.frame[k][j]
       /\ \A l \in DOMAIN music.frame : \A i, j \in 1 .. SnapLength :
             music.frame[l][i] < m.frame[k][j]

\* The number of sources after a block: nothing of it changed, the array is
\* another one, or it is resolved of a new frame.
Counted(m, raw) ==
    \/ m.frame = music.frame /\ m.n = music.n /\ m.k = music.k /\ m.steers = music.steers
    \/ m.n # music.n /\ m.k.streak = 0
    \/ /\ m.n = music.n /\ m.frame # music.frame /\ m.steers = music.steers
       /\ m.k = IF m.autoK /\ music.steers THEN Resolved(music.k, raw) ELSE music.k

LEMMA RunFits ==
    ASSUME FinderTypes, Fitting(music), Accumulating, Framed, AtHand, Shown, task.pc = "run",
           NEW raw \in 0 .. 1, NEW ratio, NEW m, m = Frame(raw, ratio)
    PROVE  /\ m \in Musics /\ Fitting(m)
           /\ InOrder(m.acc) /\ m.acc.avail <= budget.taken
           /\ \A j \in 0 .. m.acc.avail - 1 : Sample(m.acc, j) \in (1 .. budget.taken) \ seen.noisy
           /\ \A k \in DOMAIN m.frame :
                 /\ DOMAIN m.frame[k] = 1 .. SnapLength
                 /\ \A i \in 1 .. SnapLength :
                       /\ m.frame[k][i] \in 1 .. budget.taken
                       /\ \A j \in 0 .. m.acc.avail - 1 : m.frame[k][i] < Sample(m.acc, j)
           /\ ToSet(m.shown) \cup ToSet(m.tilt) \subseteq (1 .. budget.taken) \ seen.noisy
           /\ m.frame # music.frame => Ahead(m)
           /\ Counted(m, raw)
           /\ m.k.now # None /\ ~m.steers => music.k.now # None /\ ~music.steers
<1>1. PICK s : s = Synced(music, radio.n)
  OBVIOUS
<1>2. PICK a : a = [s EXCEPT !.acc = Accumulated(s.acc, task.samples)]
  OBVIOUS
<1>3. music \in Musics /\ radio.n \in Sizes
  BY DEF FinderTypes
<1>4. Past \in Nat /\ Past <= budget.taken /\ budget.taken \in Nat
  BY PastIsNat
<1>5. /\ s \in Musics /\ Reset(music, s, music.freq, radio.n)
      /\ a \in Musics /\ Fitting(a) /\ a.freq = music.freq /\ a.n = radio.n
      /\ a.k = s.k /\ a.steers = s.steers /\ a.autoK = s.autoK
      /\ a.frame = s.frame /\ a.shown = s.shown /\ a.tilt = s.tilt
      /\ InOrder(a.acc) /\ a.acc.avail <= budget.taken
      /\ \A j \in 0 .. a.acc.avail - 1 : Sample(a.acc, j) \in (1 .. budget.taken) \ seen.noisy
      /\ \A k \in DOMAIN music.frame, i \in 1 .. SnapLength, j \in 0 .. a.acc.avail - 1 :
            music.frame[k][i] < Sample(a.acc, j)
  BY <1>1, <1>2, AddedInOrder
<1>6. /\ music.n = radio.n => s = music
      /\ music.n # radio.n => s.k = Unknown
  BY <1>1, <1>3, SyncedFits
<1>7. \A x \in {music.shown, s.shown, a.shown, <<>>, music.tilt, s.tilt, a.tilt} :
         ToSet(x) \subseteq (1 .. budget.taken) \ seen.noisy
  <2>1. ToSet(<<>>) = {}
    BY DEF ToSet
  <2>2. {s.shown, a.shown, s.tilt, a.tilt} \subseteq {music.shown, music.tilt, <<>>}
    BY <1>5 DEF Reset
  <2> QED  BY <2>1, <2>2 DEF Shown
<1>8. \A k \in DOMAIN s.frame :
         /\ DOMAIN s.frame[k] = 1 .. SnapLength
         /\ \A i \in 1 .. SnapLength :
               /\ s.frame[k][i] \in 1 .. budget.taken
               /\ \A j \in 0 .. s.acc.avail - 1 : s.frame[k][i] < Sample(s.acc, j)
               /\ \A j \in 0 .. a.acc.avail - 1 : s.frame[k][i] < Sample(a.acc, j)
  <2>1. CASE s.acc = music.acc /\ s.frame = music.frame
    <3>1. 1 .. Past \subseteq 1 .. budget.taken
      BY <1>4
    <3> QED  BY <1>5, <2>1, <3>1 DEF Framed
  <2>2. CASE s.frame = <<>>
    BY <2>2
  <2> QED  BY <1>5, <2>1, <2>2 DEF Reset
<1>9. s.frame # music.frame => Ahead(s) /\ Ahead(a)
  BY <1>5 DEF Reset, Ahead
<1>10. CASE m = music
  <2>1. 1 .. Past \subseteq 1 .. budget.taken /\ music.acc.avail \in Nat
    BY <1>3, <1>4 DEF Musics, Accs
  <2>2. InOrder(music.acc) /\ music.acc.avail <= budget.taken
    BY <1>4, <2>1 DEF Accumulating
  <2>3. /\ \A j \in 0 .. music.acc.avail - 1 :
              Sample(music.acc, j) \in (1 .. budget.taken) \ seen.noisy
        /\ \A k \in DOMAIN music.frame :
              /\ DOMAIN music.frame[k] = 1 .. SnapLength
              /\ \A i \in 1 .. SnapLength :
                    /\ music.frame[k][i] \in 1 .. budget.taken
                    /\ \A j \in 0 .. music.acc.avail - 1 : music.frame[k][i] < Sample(music.acc, j)
    BY <2>1 DEF Accumulating, Framed
  <2> QED  BY <1>3, <1>7, <1>10, <2>2, <2>3 DEF Counted
<1>11. Counted(s, raw) /\ Counted(a, raw)
  <2>1. CASE music.n = radio.n
    BY <1>5, <1>6, <2>1 DEF Counted
  <2>2. CASE music.n # radio.n
    BY <1>5, <1>6, <2>2, EmptyFits DEF Counted, Reset
  <2> QED  BY <2>1, <2>2
<1>12. s.k.now # None /\ ~s.steers => music.k.now # None /\ ~music.steers
  BY <1>6, EmptyFits
<1>13. CASE m = s
  <2>1. CASE s.acc = music.acc
    <3>1. 1 .. Past \subseteq 1 .. budget.taken /\ music.acc.avail \in Nat
      BY <1>3, <1>4 DEF Musics, Accs
    <3>2. InOrder(s.acc) /\ s.acc.avail <= budget.taken
      BY <1>4, <2>1, <3>1 DEF Accumulating
    <3>3. \A j \in 0 .. s.acc.avail - 1 : Sample(s.acc, j) \in (1 .. budget.taken) \ seen.noisy
      BY <2>1, <3>1 DEF Accumulating
    <3> QED  BY <1>5, <1>7, <1>8, <1>9, <1>11, <1>12, <1>13, <3>2, <3>3 DEF Reset
  <2>2. CASE s.acc = EmptyAcc
    <3>1. InOrder(s.acc) /\ s.acc.avail <= budget.taken /\ 0 .. s.acc.avail - 1 = {}
      BY <1>4, <2>2, EmptyFits DEF InOrder
    <3> QED  BY <1>5, <1>7, <1>8, <1>9, <1>11, <1>12, <1>13, <3>1 DEF Reset
  <2> QED  BY <1>5, <2>1, <2>2 DEF Reset
<1>14. CASE m = a
  BY <1>5, <1>7, <1>8, <1>9, <1>11, <1>12, <1>14
<1>15. CASE SnapsOf(a.acc.avail) >= MinSnaps /\ m = Computed(a, raw, ratio)
  <2>1. /\ m \in Musics /\ Fitting(m) /\ m.freq = a.freq /\ m.n = a.n
        /\ m.steers = a.steers /\ m.autoK = a.autoK /\ FrameMade(m.frame, a.acc, m.acc)
        /\ m.k = IF a.autoK /\ a.steers THEN Resolved(a.k, raw) ELSE a.k
        /\ m.shown \in {a.shown, <<>>, Last(m.frame)}
        /\ m.tilt \in {a.tilt, Last(m.frame)}
    BY <1>5, <1>15, ComputedFits
  <2>2. /\ m.frame \in Seq(Seq(Int)) /\ Len(m.frame) >= 1 /\ DOMAIN m.frame = 1 .. Len(m.frame)
        /\ Len(m.frame) \in Nat
        /\ m.acc \in Accs /\ m.acc.avail <= a.acc.avail /\ InOrder(m.acc)
        /\ m.acc.avail \in Nat /\ a.acc.avail \in Nat
    BY <1>5, <2>1, LenProperties DEF FrameMade, Musics, Accs
  <2>3. \A k \in DOMAIN m.frame :
           /\ DOMAIN m.frame[k] = 1 .. SnapLength
           /\ \A i \in 1 .. SnapLength :
                 /\ m.frame[k][i] \in (1 .. budget.taken) \ seen.noisy
                 /\ \A j \in 0 .. m.acc.avail - 1 : m.frame[k][i] < Sample(m.acc, j)
    BY <1>5, <2>1 DEF FrameMade
  <2>4. \A j \in 0 .. m.acc.avail - 1 : Sample(m.acc, j) \in (1 .. budget.taken) \ seen.noisy
    BY <1>5, <2>1 DEF FrameMade
  <2>5. m.acc.avail <= budget.taken
    BY <1>4, <1>5, <2>2
  <2>6. Ahead(m)
    <3>1. \A k \in DOMAIN m.frame, l \in DOMAIN music.frame, i \in 1 .. SnapLength, j \in 1 .. SnapLength :
             music.frame[l][i] < m.frame[k][j]
      BY <1>5, <2>1 DEF FrameMade
    <3> QED  BY <2>1, <3>1 DEF FrameMade, Ahead
  <2>7. m.frame # music.frame
    <3> SUFFICES ASSUME m.frame = music.frame PROVE FALSE
      OBVIOUS
    <3>1. 1 \in DOMAIN m.frame /\ 1 \in 1 .. SnapLength
      BY <2>2, FinderGiven
    <3>2. m.frame[1][1] < m.frame[1][1] /\ m.frame[1][1] \in Nat
      BY <1>4, <2>3, <2>6, <3>1 DEF Ahead
    <3> QED  BY <3>2
  <2>8. ToSet(Last(m.frame)) \subseteq (1 .. budget.taken) \ seen.noisy
    <3>1. Len(m.frame) \in DOMAIN m.frame
      BY <2>2
    <3>2. \A i \in DOMAIN Last(m.frame) : Last(m.frame)[i] \in (1 .. budget.taken) \ seen.noisy
      BY <2>3, <3>1 DEF Last
    <3> QED  BY <3>2 DEF ToSet
  <2>9. ToSet(m.shown) \cup ToSet(m.tilt) \subseteq (1 .. budget.taken) \ seen.noisy
    BY <1>7, <2>1, <2>8
  <2>10. Counted(m, raw)
    <3>1. CASE music.n = radio.n
      BY <1>5, <1>6, <2>1, <2>7, <3>1 DEF Counted
    <3>2. CASE music.n # radio.n
      <4>1. a.k.streak = 0 /\ a.k.now = None
        BY <1>5, <1>6, <3>2, EmptyFits
      <4>2. Resolved(a.k, raw).streak = 0
        BY <4>1 DEF Resolved
      <4> QED  BY <1>5, <2>1, <3>2, <4>1, <4>2 DEF Counted
    <3> QED  BY <3>1, <3>2
  <2>11. m.k.now # None /\ ~m.steers => music.k.now # None /\ ~music.steers
    BY <1>5, <1>12, <2>1
  <2> QED  BY <2>1, <2>2, <2>3, <2>4, <2>5, <2>6, <2>9, <2>10, <2>11
<1>16. SnapsOf(a.acc.avail) \in Int /\ MinSnaps \in Int
  BY <1>5, SnapsFit, FinderGiven DEF Musics, Accs
<1>17. \/ m = music \/ m = s \/ m = a
       \/ /\ SnapsOf(a.acc.avail) >= MinSnaps \/ ~(SnapsOf(a.acc.avail) < MinSnaps)
          /\ m = Computed(a, raw, ratio)
  BY <1>1, <1>2, RunWays
<1>18. CASE m # music /\ m # s /\ m # a
  <2>1. SnapsOf(a.acc.avail) >= MinSnaps /\ m = Computed(a, raw, ratio)
    BY <1>16, <1>17, <1>18
  <2> QED  BY <1>15, <2>1
<1> QED  BY <1>10, <1>13, <1>14, <1>18

-----------------------------------------------------------------------------
(* What a step does to MUSIC: it takes a block, or sets it.                  *)

LEMMA ChangedFits ==
    ASSUME FinderTypes, Fitting(music), Steerable, web.pc = "idle", NEW s, NEW m \in Changed(s)
    PROVE  /\ Reset(music, m, music.freq, music.n)
           /\ IF s = "positions" THEN m.steers => music.steers ELSE CountKept(music, m)
<1>1. /\ music \in Musics /\ {~music.fb, ~music.averages, ~music.autoK, ~music.enabled} \subseteq BOOLEAN
      /\ 1 - music.radius \in 0 .. 1 /\ {"UCA", "ULA"} \subseteq Arrangements
  BY DEF FinderTypes, Musics, Arrangements
<1>2. music.k.now # None => music.steers
  BY DEF Steerable
<1>3. CASE s = "topology"
  <2>1. PICK t \in {"UCA", "ULA"} : m = WithTopology(music, t)
    BY <1>3 DEF Changed
  <2> QED  BY <1>1, <1>3, <2>1, WithTopologyFits
<1>4. CASE s = "positions"
  <2>1. PICK d \in BOOLEAN : m = WithPositions(music, d)
    BY <1>4 DEF Changed
  <2> QED  BY <1>1, <1>4, <2>1, WithPositionsFits
<1>5. CASE s = "radius"
  <2>1. m = WithRadius(music, 1 - music.radius)
    BY <1>5 DEF Changed
  <2> QED  BY <1>1, <1>2, <1>5, <2>1, WithRadiusFits
<1>6. CASE s = "elevation"
  <2>1. m = WithElevation(music)
    BY <1>6 DEF Changed
  <2> QED  BY <1>1, <1>6, <2>1, WithElevationFits
<1>7. CASE s \in {"fb", "alpha", "sources", "config", "enable"}
  <2>1. \E b \in BOOLEAN : m \in {WithFB(music, b), WithAlpha(music, b), WithAutoSources(music, b),
                                  WithConfig(music), [music EXCEPT !.enabled = b]}
    <3>1. CASE s = "fb"
      BY <1>1, <3>1 DEF Changed
    <3>2. CASE s = "alpha"
      BY <1>1, <3>2 DEF Changed
    <3>3. CASE s = "sources"
      BY <1>1, <3>3 DEF Changed
    <3>4. CASE s = "config"
      BY <1>1, <3>4 DEF Changed
    <3>5. CASE s = "enable"
      BY <1>1, <3>5 DEF Changed
    <3> QED  BY <1>7, <3>1, <3>2, <3>3, <3>4, <3>5
  <2> QED  BY <1>1, <1>7, <2>1, OthersFit
<1>8. CASE s \notin {"topology", "positions", "radius", "elevation", "fb", "alpha", "sources",
                     "config", "enable"}
  <2>1. Changed(s) = {}
    BY <1>8 DEF Changed
  <2> QED  BY <2>1
<1> QED  BY <1>3, <1>4, <1>5, <1>6, <1>7, <1>8

LEMMA MusicKept ==
    ASSUME FinderTypes, Fitting(music)
    PROVE  Reset(music, music, music.freq, music.n) /\ CountKept(music, music)
BY DEF FinderTypes, Reset, CountKept

LEMMA Tunes ==
    ASSUME FinderTypes
    PROVE  /\ \A f \in Frequencies : f \in Nat
           /\ \A o \in Offsets : o \in Nat
           /\ \A f, o \in Nat : f + o \in Nat
           /\ radio.freq \in Nat /\ set.offset \in Nat /\ web.offset \in Nat
<1>1. Offsets \cup Frequencies \subseteq Nat
  BY FinderAssumption
<1>2. radio.freq \in Nat /\ set.offset \in Nat /\ web.offset \in Nat
  BY DEF FinderTypes
<1> QED  BY <1>1, <1>2

\* Set: MUSIC is set, not run.  It follows another frequency only by itself or
\* when the decimator or the tuner is moved.
MusicSet ==
    /\ Reset(music, music', music'.freq, music.n)
    /\ \/ CountKept(music, music')
       \/ (music'.steers => music.steers) /\ web.pc = "idle" /\ web'.pc = "custom"
    /\ music'.freq = music.freq \/ TaskTune \/ seen'.dragged

LEMMA MusicStep ==
    ASSUME FinderTypes, Fitting(music), Steerable, FinderNext
    PROVE  TaskRun \/ MusicSet
<1>1. music \in Musics
  BY DEF FinderTypes
<1>2. ASSUME music' = music
      PROVE  MusicSet
  BY <1>2, MusicKept DEF MusicSet
<1>3. ASSUME NEW f \in Nat, music' = WithFrequency(music, f), TaskTune \/ seen'.dragged
      PROVE  MusicSet
  <2>1. Reset(music, music', f, music.n) /\ CountKept(music, music')
    BY <1>1, <1>3, WithFrequencyFits
  <2> QED  BY <1>3, <2>1 DEF MusicSet, Reset
<1>4. CASE TaskTune
  <2>1. CASE MayRun
    <3>1. radio.freq + set.offset \in Nat /\ music' = WithFrequency(music, radio.freq + set.offset)
      BY <1>4, <2>1, Tunes DEF TaskTune
    <3> QED  BY <1>3, <1>4, <3>1
  <2>2. CASE ~MayRun
    BY <1>2, <1>4, <2>2 DEF TaskTune
  <2> QED  BY <2>1, <2>2
<1>5. CASE TaskArm
  <2>1. PICK armed \in BOOLEAN, learned \in BOOLEAN, h \in BOOLEAN :
           music' = [music EXCEPT !.gate = [armed |-> armed, learned |-> learned], !.hold = h]
    <3>1. /\ (Eigen(task.method) /\ set.squelch) \in BOOLEAN
          /\ (task.method = "auto" => auto.threshold # None) \in BOOLEAN
          /\ (~Eigen(task.method) /\ set.beam /\ set.squelch /\ ~open) \in BOOLEAN
      OBVIOUS
    <3> QED  BY <1>5, <3>1 DEF TaskArm
  <2>2. PICK m : m = music'
    OBVIOUS
  <2>3. /\ m \in Musics /\ m.freq = music.freq /\ m.n = music.n /\ m.topo = music.topo
        /\ m.radius = music.radius /\ m.deep = music.deep /\ m.steer = music.steer
        /\ m.steer2 = music.steer2 /\ m.steers2 = music.steers2 /\ m.steers = music.steers
        /\ m.shown = music.shown /\ m.tilt = music.tilt /\ m.avg = music.avg /\ m.fb = music.fb
        /\ m.acc = music.acc /\ m.frame = music.frame /\ m.k = music.k
    BY <1>1, <2>1, <2>2 DEF Musics
  <2> HIDE DEF Musics
  <2>4. /\ Array(m) = Array(music) /\ Steering(m) = Steering(music)
        /\ Elevation(m) = Elevation(music) /\ (TwoD(music) => TwoD(m))
    BY <2>3 DEF Array, Steering, Elevation, TwoD
  <2>5. Fitting(m)
    BY <2>3, <2>4 DEF Fitting
  <2> QED  BY <2>2, <2>3, <2>5 DEF MusicSet, Reset, CountKept
<1>6. CASE SetMusic
  <2>1. radio.freq + web.offset \in Nat
    BY Tunes
  <2> QED  BY <1>3, <1>6, <2>1 DEF SetMusic, Drags, FinderTypes
<1>7. CASE SetFrequency
  <2>1. PICK f \in Frequencies : music' = WithFrequency(music, f)
    BY <1>7 DEF SetFrequency
  <2> QED  BY <1>3, <1>7, <2>1, Tunes DEF SetFrequency, Drags, FinderTypes
<1>8. CASE Retuned
  <2>1. PICK f \in Frequencies : music' = WithFrequency(music, f + set.offset)
    BY <1>8 DEF Retuned
  <2> QED  BY <1>3, <1>8, <2>1, Tunes DEF Retuned, Drags, FinderTypes
<1>9. CASE SetSetting
  <2>1. PICK s \in Settings : \E m \in Changed(s) :
           /\ music' = m /\ web' = [web EXCEPT !.pc = IF s = "positions" THEN "custom" ELSE "idle"]
    BY <1>9 DEF SetSetting
  <2>2. web.pc = "idle"
    BY <1>9 DEF SetSetting, MayChange
  <2>3. /\ Reset(music, music', music.freq, music.n)
        /\ IF s = "positions" THEN music'.steers => music.steers ELSE CountKept(music, music')
    BY <2>1, <2>2, ChangedFits
  <2>4. s = "positions" => web'.pc = "custom"
    BY <2>1 DEF FinderTypes
  <2> QED  BY <2>2, <2>3, <2>4 DEF MusicSet, Reset
<1>10. CASE SetCustom
  <2>1. music' = WithTopology(music, "CUSTOM")
    BY <1>10 DEF SetCustom
  <2>2. Reset(music, music', music.freq, music.n) /\ CountKept(music, music')
    BY <1>1, <2>1, WithTopologyFits DEF Arrangements
  <2> QED  BY <2>2 DEF MusicSet, Reset
<1> QED
  BY <1>2, <1>4, <1>5, <1>6, <1>7, <1>8, <1>9, <1>10 DEF FinderNext, TaskBegin, TaskMix,
     TaskMixChannel, TaskLabel, TaskSquelch, TaskMoved, TaskRead, TaskFloor, TaskThreshold,
     TaskTell, SetOffset, SetMixer, SetMethod, SetFloor, SetThreshold, SetSquelch, Resized,
     HoldOver, Settled

LEMMA GivenNow ==
    ASSUME FInv, FinderNext
    PROVE  music' \in Musics /\ Fitting(music')
<1>1. FinderTypes /\ Fitting(music) /\ Steerable /\ Accumulating /\ Framed /\ AtHand /\ Shown
  BY DEF FInv
<1>2. CASE TaskRun
  <2>1. PICK raw \in 0 .. 1, ratio \in {"below", "between", "above"} : music' = Frame(raw, ratio)
    BY <1>2 DEF TaskRun
  <2>2. task.pc = "run"
    BY <1>2 DEF TaskRun
  <2> QED  BY <1>1, <2>1, <2>2, RunFits
<1>3. CASE MusicSet
  BY <1>3 DEF MusicSet, Reset
<1> QED  BY <1>1, <1>2, <1>3, MusicStep

LEMMA TakingFits ==
    ASSUME FinderTypes, NEW n \in Nat
    PROVE  /\ Taking(n) \in Seq(Int) /\ Len(Taking(n)) = n
           /\ \A i \in 1 .. n : Taking(n)[i] = budget.taken + i
<1>1. budget.taken \in Nat
  BY DEF FinderTypes
<1>2. \A i \in 1 .. n : budget.taken + i \in Int
  BY <1>1
<1>3. Taking(n) \in [1 .. n -> Int] /\ \A i \in 1 .. n : Taking(n)[i] = budget.taken + i
  BY <1>2 DEF Taking
<1>4. Taking(n) \in Seq(Int) /\ DOMAIN Taking(n) = 1 .. n
  BY <1>3, SeqDef
<1> QED  BY <1>3, <1>4, LenProperties

TaskSteps ==
    \/ TaskMix \/ TaskMixChannel \/ TaskLabel \/ TaskSquelch \/ TaskTune \/ TaskArm
    \/ TaskMoved \/ TaskRead \/ TaskFloor \/ TaskThreshold \/ TaskTell

TaskType == [pc : Places, samples : Seq(Int), arg : Nat, mixed : Seq(Nat), label : Nat,
             count : 0 .. Elements, freq : Nat, method : Methods, floor : Learned]

LEMMA IdleFits == Idle \in TaskType /\ Idle.pc = "idle" /\ Idle.mixed = <<>>
<1>1. <<>> \in Seq(Int) /\ <<>> \in Seq(Nat) /\ 0 \in 0 .. Elements /\ 0 \in Nat
  BY EmptySeq, FinderGiven
<1> QED  BY <1>1 DEF Idle, TaskType, Places, Methods, Learned

LEMMA TaskTypes ==
    ASSUME FinderTypes, TaskSteps
    PROVE  task' \in TaskType
<1>1. /\ task \in TaskType /\ set.offset \in Nat /\ set.mixer \in Nat /\ set.method \in Methods
      /\ radio.freq \in Nat /\ auto.floor \in Learned /\ radio.freq + set.offset \in Nat
  BY DEF FinderTypes, TaskType
<1>2. \A arg \in Nat : MixOffset(arg) \in Nat
  BY <1>1 DEF MixOffset
<1>3. Idle \in TaskType
  BY IdleFits
<1>4. CASE TaskMix
  BY <1>1, <1>2, <1>4 DEF TaskMix, Goto, TaskType, Places
<1>5. CASE TaskMixChannel
  <2>1. Append(task.mixed, MixOffset(task.arg)) \in Seq(Nat)
    BY <1>1, <1>2, AppendProperties DEF TaskType
  <2>2. PICK pc \in Places : task' = [task EXCEPT !.mixed = Append(task.mixed, MixOffset(task.arg)), !.pc = pc]
    BY <1>5 DEF TaskMixChannel, Places
  <2> QED  BY <1>1, <2>1, <2>2 DEF TaskType
<1>6. CASE TaskLabel
  BY <1>1, <1>6 DEF TaskLabel, Goto, TaskType, Places
<1>7. CASE TaskSquelch
  <2>1. task' = [[task EXCEPT !.pc = "gate"] EXCEPT !.method = set.method] \/ task' = Idle
    BY <1>7 DEF TaskSquelch, Goto
  <2> QED  BY <1>1, <1>3, <2>1 DEF TaskType, Places
<1>8. CASE TaskTune
  <2>1. \/ task' = [[task EXCEPT !.pc = "arm"] EXCEPT !.freq = radio.freq + set.offset]
        \/ task' = Idle
    BY <1>8 DEF TaskTune, Goto
  <2> QED  BY <1>1, <1>3, <2>1 DEF TaskType, Places
<1>9. CASE TaskArm
  BY <1>1, <1>9 DEF TaskArm, Goto, TaskType, Places
<1>10. CASE TaskMoved
  BY <1>1, <1>10 DEF TaskMoved, Goto, TaskType, Places
<1>11. CASE TaskRead
  <2>1. PICK floor \in {task.freq, auto.floor} : task' = [[task EXCEPT !.pc = "floor"] EXCEPT !.floor = floor]
    BY <1>11 DEF TaskRead, Goto
  <2>2. floor \in Learned
    BY <1>1 DEF TaskType, Learned
  <2> QED  BY <1>1, <2>1, <2>2 DEF TaskType, Places
<1>12. CASE TaskFloor
  BY <1>1, <1>12 DEF TaskFloor, Goto, TaskType, Places
<1>13. CASE TaskThreshold
  BY <1>1, <1>13 DEF TaskThreshold, Goto, TaskType, Places
<1>14. CASE TaskTell
  BY <1>3, <1>14 DEF TaskTell
<1> QED
  BY <1>4, <1>5, <1>6, <1>7, <1>8, <1>9, <1>10, <1>11, <1>12, <1>13, <1>14 DEF TaskSteps

LEMMA LeastFits ==
    ASSUME NEW x \in Sizes, NEW y \in Sizes
    PROVE  Least(x, y) \in Sizes /\ Least(x, y) \in 1 .. Elements
BY FinderGiven DEF Least, Sizes

\* The last estimates, with one more.
LEMMA RecordedFits ==
    ASSUME seen.raw \in Seq(Int), Len(seen.raw) <= StableFrames, NEW raw \in Int
    PROVE  /\ Recorded(raw) \in Seq(Int) /\ Len(Recorded(raw)) \in 1 .. StableFrames
           /\ Len(Recorded(raw)) >= Len(seen.raw)
           /\ Len(Recorded(raw)) = Len(seen.raw) + 1 \/ Len(Recorded(raw)) = StableFrames
           /\ Recorded(raw)[Len(Recorded(raw))] = raw
           /\ \A i \in 1 .. Len(Recorded(raw)) - 1 :
                 Recorded(raw)[Len(Recorded(raw)) - i] = seen.raw[Len(seen.raw) + 1 - i]
<1>1. PICK S \in Seq(Int) : S = seen.raw
  OBVIOUS
<1>2. PICK L \in Nat : L = Len(S) /\ L <= StableFrames
  BY <1>1, LenProperties
<1>3. StableFrames \in Nat /\ StableFrames >= 1
  BY FinderGiven
<1>4. PICK R : R = Recorded(raw)
  OBVIOUS
<1>5. CASE L < StableFrames
  <2>1. R = Append(S, raw)
    BY <1>1, <1>2, <1>4, <1>5 DEF Recorded
  <2>2. /\ R \in Seq(Int) /\ Len(R) = L + 1 /\ \A i \in 1 .. L : R[i] = S[i]
        /\ R[L + 1] = raw
    BY <1>2, <2>1, AppendProperties
  <2>3. \A i \in 1 .. Len(R) - 1 : R[Len(R) - i] = S[L + 1 - i]
    <3> SUFFICES ASSUME NEW i \in 1 .. L PROVE R[L + 1 - i] = S[L + 1 - i]
      BY <2>2
    <3>1. L + 1 - i \in 1 .. L
      OBVIOUS
    <3> QED  BY <2>2, <3>1
  <2> QED  BY <1>1, <1>2, <1>3, <1>4, <1>5, <2>2, <2>3
<1>6. CASE ~(L < StableFrames)
  <2>1. L = StableFrames /\ S # <<>>
    BY <1>2, <1>3, <1>6, EmptySeq
  <2>7. PICK T : T = Tail(S)
    OBVIOUS
  <2>8. T \in Seq(Int) /\ Len(T) = Len(S) - 1 /\ \A i \in 1 .. Len(T) : T[i] = S[i + 1]
    BY <1>2, <2>1, <2>7, HeadTailProperties
  <2>2. /\ T \in Seq(Int) /\ T = Tail(S) /\ Len(T) = L - 1
        /\ \A i \in 1 .. L - 1 : T[i] = S[i + 1]
    BY <1>2, <2>7, <2>8
  <2>3. R = Append(T, raw)
    BY <1>1, <1>2, <1>4, <1>6, <2>2 DEF Recorded
  <2>4. /\ R \in Seq(Int) /\ Len(R) = L /\ \A i \in 1 .. L - 1 : R[i] = T[i]
        /\ R[L] = raw
    <3>1. /\ R \in Seq(Int) /\ Len(R) = Len(T) + 1 /\ \A i \in 1 .. Len(T) : R[i] = T[i]
          /\ R[Len(T) + 1] = raw
      BY <2>2, <2>3, AppendProperties
    <3> QED  BY <2>2, <3>1
  <2>5. \A i \in 1 .. Len(R) - 1 : R[Len(R) - i] = S[L + 1 - i]
    <3> SUFFICES ASSUME NEW i \in 1 .. L - 1 PROVE R[L - i] = S[L + 1 - i]
      BY <2>4
    <3>1. L - i \in 1 .. L - 1 /\ L + 1 - i = (L - i) + 1
      OBVIOUS
    <3> QED  BY <2>2, <2>4, <3>1
  <2> QED  BY <1>1, <1>2, <1>3, <1>4, <2>1, <2>4, <2>5
<1> QED  BY <1>5, <1>6

RadioType == [freq : Nat, n : Sizes, was : Sizes, noise : BOOLEAN, hold : BOOLEAN]
SetType   == [offset : Nat, mixer : Nat, method : Methods, squelch : BOOLEAN, beam : BOOLEAN]
AutoType  == [floor : Learned, threshold : Learned, at : Nat, settling : BOOLEAN]
SeenType  == [raw : Seq(Int), noisy : SUBSET Int, dragged : BOOLEAN]
BudgetType == [blocks : Int, taken : Nat, events : Int]

\* What a block begins with.
LEMMA Begun ==
    ASSUME TaskBegin, radio.noise \in BOOLEAN
    PROVE  \E n \in BlockSizes, c \in {radio.n, radio.was}, noise \in BOOLEAN :
              /\ task' = [Idle EXCEPT !.pc = "multi", !.samples = Taking(n), !.arg = set.offset,
                                      !.count = Least(c, radio.n)]
              /\ budget' = [budget EXCEPT !.blocks = @ - 1, !.taken = @ + n,
                                          !.events = IF noise = radio.noise THEN @ ELSE @ - 1]
              /\ radio' = [radio EXCEPT !.noise = noise, !.was = c]
              /\ seen' = [seen EXCEPT !.dragged = web.pc # "idle",
                                      !.noisy = IF noise THEN @ \cup ToSet(Taking(n)) ELSE @]
<1>1. PICK n \in BlockSizes, c \in {radio.n, radio.was},
           noise \in IF budget.events > 0 THEN BOOLEAN ELSE {radio.noise} :
         /\ task' = [Idle EXCEPT !.pc = "multi", !.samples = Taking(n), !.arg = set.offset,
                                 !.count = Least(c, radio.n)]
         /\ budget' = [budget EXCEPT !.blocks = @ - 1, !.taken = @ + n,
                                     !.events = IF noise = radio.noise THEN @ ELSE @ - 1]
         /\ radio' = [radio EXCEPT !.noise = noise, !.was = c]
         /\ seen' = [seen EXCEPT !.dragged = web.pc # "idle",
                                 !.noisy = IF noise THEN @ \cup ToSet(Taking(n)) ELSE @]
  BY Zenon DEF TaskBegin
<1>2. noise \in BOOLEAN
  OBVIOUS
<1> QED  BY <1>1, <1>2

LEMMA TypesStep ==
    ASSUME FInv, FinderNext
    PROVE  FinderTypes'
<1> USE DEF FInv
<1>1. /\ radio \in RadioType /\ set \in SetType /\ web \in [pc : PagePlaces, offset : Nat]
      /\ task \in TaskType /\ music \in Musics /\ auto \in AutoType /\ seen \in SeenType
      /\ budget \in BudgetType
  BY DEF FinderTypes, RadioType, SetType, TaskType, AutoType, SeenType, BudgetType
<1>2. /\ music' \in Musics /\ seen.raw \in Seq(Int) /\ Len(seen.raw) <= StableFrames
      /\ budget.events - 1 \in Int /\ None \in Learned
  BY <1>1, GivenNow DEF SeenType, Evidence, BudgetType, Learned
<1> SUFFICES /\ radio' \in RadioType /\ set' \in SetType /\ web' \in [pc : PagePlaces, offset : Nat]
             /\ task' \in TaskType /\ auto' \in AutoType /\ seen' \in SeenType
             /\ budget' \in BudgetType
  BY <1>2 DEF FinderTypes, RadioType, SetType, TaskType, AutoType, SeenType, BudgetType
<1>3. CASE TaskBegin
  <2>1. PICK n \in BlockSizes, c \in {radio.n, radio.was}, noise \in BOOLEAN :
           /\ task' = [Idle EXCEPT !.pc = "multi", !.samples = Taking(n), !.arg = set.offset,
                                   !.count = Least(c, radio.n)]
           /\ budget' = [budget EXCEPT !.blocks = @ - 1, !.taken = @ + n,
                                       !.events = IF noise = radio.noise THEN @ ELSE @ - 1]
           /\ radio' = [radio EXCEPT !.noise = noise, !.was = c]
           /\ seen' = [seen EXCEPT !.dragged = web.pc # "idle",
                                   !.noisy = IF noise THEN @ \cup ToSet(Taking(n)) ELSE @]
    <3>1. radio.noise \in BOOLEAN
      BY <1>1 DEF RadioType
    <3> QED  BY <1>3, <3>1, Begun, Zenon
  <2>2. n \in Nat
    BY FinderAssumption
  <2>3. Taking(n) \in Seq(Int) /\ ToSet(Taking(n)) \subseteq Int
    <3>1. Taking(n) \in Seq(Int)
      BY <2>2, TakingFits
    <3>2. \A i \in DOMAIN Taking(n) : Taking(n)[i] \in Int
      BY <3>1, LenProperties
    <3> QED  BY <3>1, <3>2 DEF ToSet
  <2>4. c \in Sizes /\ radio.n \in Sizes /\ set.offset \in Nat
    BY <1>1 DEF RadioType, SetType
  <2>5. Least(c, radio.n) \in 0 .. Elements
    <3>1. Least(c, radio.n) \in 1 .. Elements
      BY <2>4, LeastFits
    <3> QED  BY <3>1, FinderGiven
  <2>6. task' \in TaskType
    BY <2>1, <2>3, <2>4, <2>5, IdleFits DEF TaskType, Places
  <2>7. budget' \in BudgetType
    <3>1. /\ budget.blocks - 1 \in Int /\ budget.taken + n \in Nat /\ budget.events \in Int
          /\ budget.events - 1 \in Int
      BY <1>1, <2>2 DEF BudgetType
    <3>2. PICK e \in Int : budget' = [budget EXCEPT !.blocks = budget.blocks - 1,
                                                  !.taken = budget.taken + n, !.events = e]
      BY <2>1, <3>1
    <3> QED  BY <1>1, <3>1, <3>2 DEF BudgetType
  <2>8. radio' \in RadioType
    BY <1>1, <2>1, <2>4 DEF RadioType
  <2>9. seen' \in SeenType
    BY <1>1, <2>1, <2>3 DEF SeenType
  <2> QED  BY <1>1, <1>3, <2>6, <2>7, <2>8, <2>9 DEF TaskBegin
<1>4. CASE TaskRun
  <2>1. task' \in TaskType
    <3>1. task' \in {Idle, [task EXCEPT !.pc = "moved"], [task EXCEPT !.pc = "tell"]}
      BY <1>4 DEF TaskRun, Goto
    <3> QED  BY <1>1, <3>1, IdleFits DEF TaskType, Places
  <2>2. PICK raw \in 0 .. 1 : \E r \in {<<>>, <<raw>>, Recorded(raw), seen.raw} :
                                seen' = [seen EXCEPT !.raw = r]
    BY <1>4 DEF TaskRun
  <2>3. {<<>>, <<raw>>, Recorded(raw), seen.raw} \subseteq Seq(Int)
    <3>1. <<>> \in Seq(Int) /\ <<raw>> \in Seq(Int) /\ raw \in Int
      BY EmptySeq
    <3>2. Recorded(raw) \in Seq(Int)
      BY <1>2, <3>1, RecordedFits
    <3> QED  BY <1>2, <2>2, <3>1, <3>2
  <2>4. seen' \in SeenType
    BY <1>1, <2>2, <2>3 DEF SeenType
  <2> QED  BY <1>1, <1>4, <2>1, <2>4 DEF TaskRun
<1>5. CASE TaskSteps
  <2>1. task' \in TaskType
    BY <1>5, TaskTypes
  <2>2. auto' \in AutoType
    <3>1. task.freq \in Nat /\ task.floor \in Learned
      BY <1>1 DEF TaskType
    <3>2. \/ auto' = auto
          \/ auto' = [auto EXCEPT !.floor = None, !.at = task.freq, !.settling = TRUE]
          \/ auto' = [auto EXCEPT !.floor = task.floor]
          \/ auto' = [auto EXCEPT !.threshold = task.floor]
      BY <1>5 DEF TaskSteps, TaskMix, TaskMixChannel, TaskLabel, TaskSquelch, TaskTune, TaskArm,
         TaskMoved, TaskRead, TaskFloor, TaskThreshold, TaskTell
    <3> QED  BY <1>1, <1>2, <3>1, <3>2 DEF AutoType
  <2>3. UNCHANGED <<radio, set, web, seen, budget>>
    BY <1>5 DEF TaskSteps, TaskMix, TaskMixChannel, TaskLabel, TaskSquelch, TaskTune, TaskArm,
       TaskMoved, TaskRead, TaskFloor, TaskThreshold, TaskTell
  <2> QED  BY <1>1, <2>1, <2>2, <2>3
<1>6. ASSUME Spend
      PROVE  budget' \in BudgetType
  BY <1>1, <1>6 DEF Spend, BudgetType
<1>7. ASSUME Drags
      PROVE  seen' \in SeenType
  BY <1>1, <1>7 DEF Drags, SeenType
<1>8. CASE SetOffset
  <2>1. PICK o \in Offsets : set' = [set EXCEPT !.offset = o] /\ web' = [pc |-> "mixer", offset |-> o]
    BY <1>8 DEF SetOffset
  <2>2. o \in Nat
    BY Tunes
  <2> QED  BY <1>1, <1>6, <1>7, <1>8, <2>1, <2>2 DEF SetOffset, SetType, PagePlaces
<1>9. CASE SetMixer
  BY <1>1, <1>7, <1>9 DEF SetMixer, SetType, PagePlaces, Mixing
<1>10. CASE SetMusic
  BY <1>1, <1>7, <1>10 DEF SetMusic, PagePlaces
<1>11. CASE SetMethod
  <2>1. PICK s \in Methods, pc \in PagePlaces : set' = [set EXCEPT !.method = s] /\ web' = [web EXCEPT !.pc = pc]
    BY <1>11 DEF SetMethod, Methods, PagePlaces
  <2> QED  BY <1>1, <1>6, <1>11, <2>1 DEF SetMethod, SetType
<1>12. CASE SetFloor
  BY <1>1, <1>2, <1>12 DEF SetFloor, AutoType, PagePlaces
<1>13. CASE SetThreshold
  BY <1>1, <1>2, <1>13 DEF SetThreshold, AutoType, PagePlaces
<1>14. CASE SetSetting
  <2>1. PICK pc \in PagePlaces : web' = [web EXCEPT !.pc = pc]
    BY <1>14 DEF SetSetting, PagePlaces
  <2> QED  BY <1>1, <1>6, <1>14, <2>1 DEF SetSetting
<1>15. CASE SetCustom
  BY <1>1, <1>15 DEF SetCustom, PagePlaces
<1>16. CASE SetSquelch
  BY <1>1, <1>6, <1>16 DEF SetSquelch, SetType
<1>17. CASE SetFrequency
  BY <1>1, <1>6, <1>7, <1>17 DEF SetFrequency
<1>18. CASE Retuned
  <2>1. PICK f \in Frequencies : radio' = [radio EXCEPT !.freq = f, !.hold = TRUE]
    BY <1>18 DEF Retuned
  <2>2. radio' \in RadioType
    BY <1>1, <2>1, Tunes DEF RadioType
  <2> QED  BY <1>1, <1>6, <1>7, <1>18, <2>2 DEF Retuned
<1>19. CASE Resized
  <2>1. PICK n \in Sizes : radio' = [radio EXCEPT !.n = n]
    BY <1>19 DEF Resized, Sizes
  <2>2. radio' \in RadioType
    BY <1>1, <2>1 DEF RadioType
  <2> QED  BY <1>1, <1>6, <1>19, <2>2 DEF Resized
<1>20. CASE HoldOver
  BY <1>1, <1>20 DEF HoldOver, RadioType
<1>21. CASE Settled
  BY <1>1, <1>21 DEF Settled, AutoType
<1> QED
  BY <1>3, <1>4, <1>5, <1>8, <1>9, <1>10, <1>11, <1>12, <1>13, <1>14, <1>15, <1>16, <1>17, <1>18,
     <1>19, <1>20, <1>21 DEF FinderNext, TaskSteps

-----------------------------------------------------------------------------
(* The samples: what MUSIC holds is in order, older than the block at hand,  *)
(* and never of the noise source.                                            *)

\* Everything but a block's beginning and MUSIC itself leaves the samples alone.
Elsewhere == task' = task /\ radio'.noise = radio.noise /\ seen'.noisy = seen.noisy
             /\ budget'.taken = budget.taken

LEMMA StepKinds ==
    ASSUME FinderTypes, FinderNext
    PROVE  TaskBegin \/ TaskRun \/ TaskSteps \/ Elsewhere
<1>1. ASSUME Spend
      PROVE  budget'.taken = budget.taken
  BY <1>1 DEF Spend, FinderTypes
<1>2. ASSUME Drags
      PROVE  seen'.noisy = seen.noisy
  BY <1>2 DEF Drags, FinderTypes
<1>3. CASE SetOffset \/ SetMixer \/ SetMusic \/ SetMethod \/ SetFloor \/ SetThreshold \/ SetSetting
           \/ SetCustom \/ SetSquelch \/ SetFrequency \/ Settled
  BY <1>1, <1>2, <1>3 DEF Elsewhere, SetOffset, SetMixer, SetMusic, SetMethod, SetFloor,
     SetThreshold, SetSetting, SetCustom, SetSquelch, SetFrequency, Settled
<1>4. CASE Retuned \/ Resized \/ HoldOver
  BY <1>1, <1>2, <1>4 DEF Elsewhere, Retuned, Resized, HoldOver, FinderTypes
<1> QED  BY <1>3, <1>4 DEF FinderNext, TaskSteps

\* A step of the task keeps its block, or is the last with it.
LEMMA TaskKeepsBlock ==
    ASSUME FinderTypes, TaskSteps
    PROVE  /\ UNCHANGED <<radio, set, web, seen, budget>>
           /\ task'.pc \in Before => /\ task.pc \in Before /\ task'.samples = task.samples
                                     /\ task'.count = task.count
           /\ task'.pc \in {"arm", "run"} => task.pc = "arm" \/ (TaskTune /\ MayRun)
<1>1. task \in TaskType
  BY DEF FinderTypes, TaskType
<1>2. CASE TaskMix
  BY <1>1, <1>2 DEF TaskMix, Goto, TaskType, Before
<1>3. CASE TaskMixChannel
  BY <1>1, <1>3 DEF TaskMixChannel, TaskType, Before
<1>4. CASE TaskLabel
  BY <1>1, <1>4 DEF TaskLabel, Goto, TaskType, Before
<1>5. CASE TaskSquelch
  <2>1. task' = [[task EXCEPT !.pc = "gate"] EXCEPT !.method = set.method] \/ task' = Idle
    BY <1>5 DEF TaskSquelch, Goto
  <2>2. task.pc = "squelch" /\ UNCHANGED <<radio, set, web, seen, budget>>
    BY <1>5 DEF TaskSquelch
  <2> QED  BY <1>1, <2>1, <2>2, IdleFits DEF TaskType, Before
<1>6. CASE TaskTune
  <2>1. CASE MayRun
    BY <1>1, <1>6, <2>1 DEF TaskTune, Goto, TaskType, Before
  <2>2. CASE ~MayRun
    BY <1>6, <2>2, IdleFits DEF TaskTune, Before
  <2> QED  BY <2>1, <2>2
<1>7. CASE TaskArm
  BY <1>1, <1>7 DEF TaskArm, Goto, TaskType, Before
<1>8. CASE TaskMoved \/ TaskRead \/ TaskFloor \/ TaskThreshold
  <2>1. task'.pc \in {"read", "floor", "threshold", "tell"}
    BY <1>1, <1>8 DEF TaskMoved, TaskRead, TaskFloor, TaskThreshold, Goto, TaskType
  <2> QED  BY <1>8, <2>1 DEF Before, TaskMoved, TaskRead, TaskFloor, TaskThreshold
<1>9. CASE TaskTell
  BY <1>9, IdleFits DEF TaskTell, Before
<1> QED  BY <1>2, <1>3, <1>4, <1>5, <1>6, <1>7, <1>8, <1>9 DEF TaskSteps

LEMMA SamplesKept ==
    ASSUME FInv, MusicSet, Past' \in Nat, Past <= Past', budget'.taken \in Nat,
           budget.taken <= budget'.taken,
           seen'.noisy \subseteq seen.noisy \cup (budget.taken + 1 .. budget'.taken)
    PROVE  Accumulating' /\ Framed' /\ Shown'
<1>1. /\ FinderTypes /\ Accumulating /\ Framed /\ Shown /\ Fitting(music)
      /\ Past \in Nat /\ Past <= budget.taken /\ budget.taken \in Nat
  BY PastIsNat DEF FInv
<1>2. (1 .. Past) \ seen.noisy \subseteq (1 .. Past') \ seen'.noisy /\ 1 .. Past \subseteq 1 .. Past'
  BY <1>1
<1>3. /\ (1 .. budget.taken) \ seen.noisy \subseteq (1 .. budget'.taken) \ seen'.noisy
      /\ seen'.noisy \subseteq 1 .. budget'.taken
  BY <1>1 DEF Shown
<1>4. Reset(music, music', music'.freq, music.n)
  BY DEF MusicSet
<1>5. Shown'
  <2>1. ToSet(<<>>) = {}
    BY DEF ToSet
  <2>2. music'.shown = music.shown /\ music'.tilt \in {music.tilt, <<>>}
    BY <1>4 DEF Reset
  <2>3. ToSet(music'.shown) \cup ToSet(music'.tilt) \subseteq (1 .. budget'.taken) \ seen'.noisy
    BY <1>1, <1>3, <2>1, <2>2 DEF Shown
  <2> QED  BY <1>3, <2>3 DEF Shown
<1>6. CASE music'.acc = music.acc /\ music'.frame = music.frame
  <2>1. music.acc.avail \in Nat
    BY <1>1 DEF FinderTypes, Musics, Accs
  <2>2. InOrder(music'.acc) /\ music'.acc.avail <= Past'
    BY <1>1, <1>6, <2>1 DEF Accumulating, InOrder
  <2>3. Accumulating'
    BY <1>1, <1>2, <1>6, <2>2 DEF Accumulating, InOrder, Sample
  <2>4. Framed'
    BY <1>1, <1>2, <1>6 DEF Framed, Sample
  <2> QED  BY <1>5, <2>3, <2>4
<1>7. CASE music'.acc = EmptyAcc /\ music'.frame = <<>>
  <2>1. 0 .. music'.acc.avail - 1 = {} /\ music'.acc.avail <= Past'
    BY <1>7, EmptyFits
  <2>2. Accumulating'
    BY <2>1 DEF Accumulating, InOrder
  <2>3. Framed'
    BY <1>7 DEF Framed
  <2> QED  BY <1>5, <2>2, <2>3
<1> QED  BY <1>4, <1>6, <1>7 DEF Reset

LEMMA SamplesStep ==
    ASSUME FInv, FinderNext
    PROVE  Accumulating' /\ Framed' /\ Shown' /\ AtHand'
<1>1. /\ FinderTypes /\ Accumulating /\ Framed /\ Shown /\ AtHand /\ Fitting(music) /\ Steerable
      /\ Past \in Nat /\ Past <= budget.taken /\ budget.taken \in Nat
      /\ seen.noisy \subseteq 1 .. budget.taken
  BY PastIsNat DEF FInv, Shown
<1>2. FinderTypes'
  BY TypesStep
<1>3. CASE TaskRun
  <2>1. PICK raw \in 0 .. 1, ratio \in {"below", "between", "above"} : music' = Frame(raw, ratio)
    BY <1>3 DEF TaskRun
  <2>2. /\ task.pc = "run" /\ budget' = budget /\ seen'.noisy = seen.noisy
        /\ task'.pc \in {"idle", "moved", "tell"}
    BY <1>1, <1>3, IdleFits DEF TaskRun, Goto, FinderTypes
  <2>3. Past' = budget.taken /\ task'.pc \notin Before
    BY <2>2 DEF Past, Before
  <2>4. Accumulating'
    BY <1>1, <2>1, <2>2, <2>3, RunFits DEF Accumulating, InOrder, Sample
  <2>5. Framed'
    BY <1>1, <2>1, <2>2, <2>3, RunFits DEF Framed, Sample
  <2>6. Shown'
    BY <1>1, <2>1, <2>2, RunFits DEF Shown
  <2> QED  BY <2>3, <2>4, <2>5, <2>6 DEF AtHand
<1>4. CASE TaskBegin
  <2>1. PICK n \in BlockSizes, noise \in BOOLEAN :
           /\ task'.pc = "multi" /\ task'.samples = Taking(n)
           /\ budget'.taken = budget.taken + n
           /\ radio'.noise = noise
           /\ seen'.noisy = IF noise THEN seen.noisy \cup ToSet(Taking(n)) ELSE seen.noisy
    <3>1. PICK n \in BlockSizes, c \in {radio.n, radio.was}, noise \in BOOLEAN :
             /\ task' = [Idle EXCEPT !.pc = "multi", !.samples = Taking(n), !.arg = set.offset,
                                     !.count = Least(c, radio.n)]
             /\ budget' = [budget EXCEPT !.blocks = @ - 1, !.taken = @ + n,
                                         !.events = IF noise = radio.noise THEN @ ELSE @ - 1]
             /\ radio' = [radio EXCEPT !.noise = noise, !.was = c]
             /\ seen' = [seen EXCEPT !.dragged = web.pc # "idle",
                                     !.noisy = IF noise THEN @ \cup ToSet(Taking(n)) ELSE @]
      <4>1. radio.noise \in BOOLEAN
        BY <1>1 DEF FinderTypes
      <4> QED  BY <1>4, <4>1, Begun, Zenon
    <3>2. task'.pc = "multi" /\ task'.samples = Taking(n)
      BY <3>1 DEF Idle
    <3>3. budget'.taken = budget.taken + n /\ radio'.noise = noise
      BY <1>1, <3>1 DEF FinderTypes
    <3>4. seen'.noisy = IF noise THEN seen.noisy \cup ToSet(Taking(n)) ELSE seen.noisy
      BY <1>1, <3>1 DEF FinderTypes
    <3> QED  BY <3>2, <3>3, <3>4
  <2>2. n \in Nat /\ task.pc = "idle"
    BY <1>4, FinderAssumption DEF TaskBegin
  <2>3. /\ Taking(n) \in Seq(Int) /\ Len(Taking(n)) = n
        /\ \A i \in 1 .. n : Taking(n)[i] = budget.taken + i
    BY <1>1, <2>2, TakingFits
  <2>4. ToSet(Taking(n)) \subseteq budget.taken + 1 .. budget.taken + n
    <3>1. DOMAIN Taking(n) = 1 .. n
      BY <2>3, LenProperties
    <3> QED  BY <1>1, <2>2, <2>3, <3>1 DEF ToSet
  <2>5. Past = budget.taken /\ Past' = budget.taken /\ Past' \in Nat
    BY <1>1, <2>1, <2>2, <2>3 DEF Past, Before
  <2>6. MusicSet
    BY <1>1, <1>4, MusicKept DEF MusicSet, TaskBegin
  <2>7. Accumulating' /\ Framed' /\ Shown'
    BY <1>1, <2>1, <2>2, <2>4, <2>5, <2>6, SamplesKept
  <2>8. AtHand'
    <3>1. Len(task'.samples) <= budget'.taken
      BY <1>1, <2>1, <2>2, <2>3
    <3>2. \A i \in 1 .. Len(task'.samples) : task'.samples[i] = Past' + i
      BY <2>1, <2>3, <2>5
    <3>3. ~radio'.noise => seen'.noisy \cap ToSet(task'.samples) = {}
      BY <1>1, <2>1, <2>2, <2>4
    <3> QED  BY <2>1, <3>1, <3>2, <3>3 DEF AtHand
  <2> QED  BY <2>7, <2>8
<1>5. CASE TaskSteps
  <2>1. /\ UNCHANGED <<radio, seen, budget>>
        /\ task'.pc \in Before => task.pc \in Before /\ task'.samples = task.samples
        /\ task'.pc \in {"arm", "run"} => task.pc = "arm" \/ (TaskTune /\ MayRun)
    BY <1>1, <1>5, TaskKeepsBlock
  <2>2. task'.pc \in Before => Past' = Past
    BY <2>1 DEF Past
  <2>3. task'.pc \notin Before => Past' = budget.taken
    BY <2>1 DEF Past
  <2>4. MusicSet \/ TaskRun
    BY <1>1, MusicStep
  <2>5. Accumulating' /\ Framed' /\ Shown'
    <3>1. Past' \in Nat /\ Past <= Past'
      BY <1>1, <2>2, <2>3
    <3> QED  BY <1>1, <1>3, <2>1, <2>4, <3>1, SamplesKept
  <2>6. AtHand'
    <3> SUFFICES ASSUME task'.pc \in Before
                 PROVE  /\ Len(task'.samples) <= budget'.taken
                        /\ \A i \in 1 .. Len(task'.samples) : task'.samples[i] = Past' + i
                        /\ ~radio'.noise => seen'.noisy \cap ToSet(task'.samples) = {}
                        /\ task'.pc \in {"arm", "run"} => ~radio'.noise
      BY DEF AtHand
    <3>1. /\ Len(task'.samples) <= budget'.taken
          /\ \A i \in 1 .. Len(task'.samples) : task'.samples[i] = Past' + i
          /\ ~radio'.noise => seen'.noisy \cap ToSet(task'.samples) = {}
      BY <1>1, <2>1, <2>2 DEF AtHand
    <3>2. task'.pc \in {"arm", "run"} => ~radio'.noise
      BY <1>1, <2>1 DEF AtHand, MayRun, Before
    <3> QED  BY <3>1, <3>2
  <2> QED  BY <2>5, <2>6
<1>6. CASE Elsewhere
  <2>1. Past' = Past
    BY <1>6 DEF Elsewhere, Past
  <2>2. MusicSet \/ TaskRun
    BY <1>1, MusicStep
  <2>3. CASE MusicSet
    <3>1. Accumulating' /\ Framed' /\ Shown'
      BY <1>1, <1>6, <2>1, <2>3, SamplesKept DEF Elsewhere
    <3>2. AtHand'
      BY <1>1, <1>6, <2>1 DEF AtHand, Elsewhere
    <3> QED  BY <3>1, <3>2
  <2> QED  BY <1>3, <2>2, <2>3
<1> QED  BY <1>1, <1>3, <1>4, <1>5, <1>6, StepKinds

-----------------------------------------------------------------------------
(* The number of sources and the frames it is taken from.                    *)

LEMMA RawKept ==
    ASSUME FinderTypes, FinderNext
    PROVE  /\ TaskRun \/ seen'.raw = seen.raw
           /\ web.pc = "custom" => web'.pc = "custom" \/ SetCustom
<1>1. CASE TaskBegin
  BY <1>1 DEF TaskBegin, FinderTypes
<1>2. CASE TaskRun
  BY <1>2 DEF TaskRun
<1>3. CASE TaskSteps
  BY <1>3, TaskKeepsBlock
<1>4. ASSUME Drags
      PROVE  seen'.raw = seen.raw
  BY <1>4 DEF Drags, FinderTypes
<1>5. CASE SetOffset \/ SetMixer \/ SetMusic \/ SetMethod \/ SetFloor \/ SetThreshold
           \/ SetSetting \/ SetCustom \/ SetSquelch \/ SetFrequency
  <2>1. seen'.raw = seen.raw
    BY <1>4, <1>5 DEF SetOffset, SetMixer, SetMusic, SetMethod, SetFloor, SetThreshold,
       SetSetting, SetCustom, SetSquelch, SetFrequency
  <2>2. web.pc = "custom" => SetCustom
    BY <1>5 DEF SetOffset, SetMixer, SetMusic, SetMethod, SetFloor, SetThreshold,
       SetSetting, SetSquelch, SetFrequency, MayChange
  <2> QED  BY <2>1, <2>2
<1>6. CASE Retuned \/ Resized \/ HoldOver \/ Settled
  BY <1>4, <1>6 DEF Retuned, Resized, HoldOver, Settled
<1> QED  BY <1>1, <1>2, <1>3, <1>5, <1>6 DEF FinderNext, TaskSteps

\* What a block records of its estimate.
LEMMA RunRecords ==
    ASSUME FInv, TaskRun
    PROVE  \E raw \in 0 .. 1 :
              /\ Counted(music', raw)
              /\ seen'.raw = IF music'.k.now = None THEN <<>>
                             ELSE IF music'.n # music.n THEN <<raw>>
                             ELSE IF music'.frame # music.frame /\ music'.autoK
                             THEN Recorded(raw) ELSE seen.raw
              /\ music'.frame # music.frame => Ahead(music')
              /\ music'.k.now # None /\ ~music'.steers => music.k.now # None /\ ~music.steers
<1>1. FinderTypes /\ Fitting(music) /\ Accumulating /\ Framed /\ AtHand /\ Shown
  BY DEF FInv
<1>2. PICK raw \in 0 .. 1, ratio \in {"below", "between", "above"} :
         /\ music' = Frame(raw, ratio)
         /\ seen' = [seen EXCEPT !.raw = IF music'.k.now = None THEN <<>>
                                         ELSE IF music'.n # music.n THEN <<raw>>
                                         ELSE IF music'.frame # music.frame /\ music'.autoK
                                         THEN Recorded(raw) ELSE @]
  BY DEF TaskRun
<1>3. /\ Counted(music', raw) /\ (music'.frame # music.frame => Ahead(music'))
      /\ music'.k.now # None /\ ~music'.steers => music.k.now # None /\ ~music.steers
  <2>1. task.pc = "run"
    BY DEF TaskRun
  <2> QED  BY <1>1, <1>2, <2>1, RunFits
<1>4. seen'.raw = IF music'.k.now = None THEN <<>>
                  ELSE IF music'.n # music.n THEN <<raw>>
                  ELSE IF music'.frame # music.frame /\ music'.autoK
                  THEN Recorded(raw) ELSE seen.raw
  BY <1>1, <1>2 DEF FinderTypes
<1> QED  BY <1>3, <1>4

LEMMA SteerableStep ==
    ASSUME FInv, FinderNext
    PROVE  Steerable'
<1>1. FinderTypes /\ Fitting(music) /\ Steerable
  BY DEF FInv
<1> SUFFICES ASSUME music'.k.now # None, ~music'.steers
             PROVE  web'.pc = "custom"
  BY DEF Steerable
<1>2. CASE TaskRun
  <2>1. music.k.now # None /\ ~music.steers
    BY <1>2, RunRecords
  <2> QED  BY <1>1, <1>2, <2>1 DEF Steerable, TaskRun
<1>3. CASE MusicSet
  <2>1. music'.k = music.k /\ music'.k # Unknown
    BY <1>3, EmptyFits DEF MusicSet, Reset
  <2>2. CASE CountKept(music, music')
    <3>1. ~music.steers /\ music.k.now # None
      BY <2>1, <2>2 DEF CountKept
    <3>2. web.pc = "custom"
      BY <1>1, <3>1 DEF Steerable
    <3>3. CASE SetCustom
      <4>1. music' = WithTopology(music, "CUSTOM") /\ music \in Musics
        BY <1>1, <3>3 DEF SetCustom, FinderTypes
      <4>2. music'.topo = "CUSTOM" /\ Fitting(music')
        BY <1>1, <4>1, WithTopologyFits DEF Arrangements, Reset
      <4> QED  BY <4>2 DEF Fitting
    <3> QED  BY <1>1, <3>2, <3>3, RawKept
  <2>3. CASE ~CountKept(music, music')
    BY <1>3, <2>3 DEF MusicSet
  <2> QED  BY <2>2, <2>3
<1> QED  BY <1>1, <1>2, <1>3, MusicStep

\* A resolved count: what it came from.
LEMMA ResolvedFrom ==
    ASSUME NEW k \in Answers, NEW raw \in 0 .. 1, k.now # None
    PROVE  LET r == Resolved(k, raw)
           IN  /\ r.streak > 0 => /\ r.candidate = raw
                                  /\ \/ r.streak = 1
                                     \/ /\ r.streak = k.streak + 1 /\ r.streak < StableFrames
                                        /\ k.candidate = raw
               /\ r.now # k.now => /\ r.now = raw /\ k.candidate = raw
                                   /\ k.streak + 1 >= StableFrames
<1>1. StableFrames \in Nat /\ k.streak \in Nat /\ k.streak + 1 \in Nat
  BY FinderGiven DEF Answers
<1>2. CASE raw = k.now
  <2>1. Resolved(k, raw) = [k EXCEPT !.candidate = raw, !.streak = 0]
    BY <1>2 DEF Resolved
  <2> QED  BY <2>1 DEF Answers
<1>3. CASE raw # k.now /\ raw = k.candidate /\ k.streak + 1 >= StableFrames
  <2>1. Resolved(k, raw) = [k EXCEPT !.now = raw, !.streak = 0]
    BY <1>3 DEF Resolved
  <2> QED  BY <1>3, <2>1 DEF Answers
<1>4. CASE raw # k.now /\ raw = k.candidate /\ ~(k.streak + 1 >= StableFrames)
  <2>1. Resolved(k, raw) = [k EXCEPT !.streak = k.streak + 1]
    BY <1>4 DEF Resolved
  <2> QED  BY <1>1, <1>4, <2>1 DEF Answers
<1>5. CASE raw # k.now /\ raw # k.candidate
  <2>1. Resolved(k, raw) = [k EXCEPT !.candidate = raw, !.streak = 1]
    BY <1>5 DEF Resolved
  <2> QED  BY <2>1 DEF Answers
<1> QED  BY <1>2, <1>3, <1>4, <1>5

LEMMA EvidenceStep ==
    ASSUME FInv, FinderNext
    PROVE  Evidence'
<1>1. FinderTypes /\ Fitting(music) /\ Steerable /\ Evidence /\ seen.raw \in Seq(Int)
      /\ music.k \in Answers /\ StableFrames \in Nat /\ StableFrames >= 1
      /\ Len(seen.raw) <= StableFrames /\ 0 \in Int /\ 1 \in Int
      /\ 0 .. 1 \subseteq Int
  BY FinderGiven DEF FInv, FinderTypes, Musics, Evidence
<1>2. Fitting(music') /\ music'.k \in Answers
  BY GivenNow DEF Musics
<1>3. CASE TaskRun
  <2>1. PICK raw \in 0 .. 1 :
           /\ Counted(music', raw)
           /\ seen'.raw = IF music'.k.now = None THEN <<>>
                          ELSE IF music'.n # music.n THEN <<raw>>
                          ELSE IF music'.frame # music.frame /\ music'.autoK
                          THEN Recorded(raw) ELSE seen.raw
    BY <1>3, RunRecords
  <2>2. CASE music'.k.now = None
    <3>1. seen'.raw = <<>> /\ music'.k.streak = 0
      BY <1>2, <2>1, <2>2 DEF Fitting
    <3> QED  BY <1>1, <3>1, EmptySeq DEF Evidence
  <2>3. CASE music'.k.now # None /\ music'.n # music.n
    <3>1. seen'.raw = <<raw>> /\ music'.k.streak = 0
      BY <2>1, <2>3 DEF Counted
    <3>2. Len(<<raw>>) = 1
      OBVIOUS
    <3> QED  BY <1>1, <3>1, <3>2 DEF Evidence
  <2>4. CASE music'.k.now # None /\ music'.n = music.n /\ music'.frame # music.frame /\ music'.autoK
    <3>1. /\ seen'.raw = Recorded(raw) /\ music'.steers = music.steers
          /\ music.steers => music'.k = Resolved(music.k, raw)
      BY <2>1, <2>4 DEF Counted
    <3>2. PICK R \in Seq(Int) : R = Recorded(raw)
      <4>1. raw \in Int
        BY <1>1
      <4> QED  BY <1>1, <4>1, RecordedFits
    <3>3. PICK L \in Nat : L = Len(seen.raw)
      BY <1>1, LenProperties
    <3>4. /\ Len(R) \in Nat /\ Len(R) >= 1 /\ Len(R) <= StableFrames
          /\ Len(R) = L + 1 \/ Len(R) = StableFrames
          /\ R[Len(R)] = raw
          /\ \A i \in 1 .. Len(R) - 1 : R[Len(R) - i] = seen.raw[L + 1 - i]
      <4>1. raw \in Int
        BY <1>1
      <4>2. /\ Len(Recorded(raw)) \in 1 .. StableFrames
            /\ Len(Recorded(raw)) = Len(seen.raw) + 1 \/ Len(Recorded(raw)) = StableFrames
            /\ Recorded(raw)[Len(Recorded(raw))] = raw
            /\ \A i \in 1 .. Len(Recorded(raw)) - 1 :
                  Recorded(raw)[Len(Recorded(raw)) - i] = seen.raw[Len(seen.raw) + 1 - i]
        BY <1>1, <4>1, RecordedFits
      <4>3. Len(R) \in Nat /\ Len(R) >= 1 /\ Len(R) <= StableFrames
        BY <1>1, <3>2, <4>2
      <4> QED  BY <3>2, <3>3, <4>2, <4>3
    <3>5. ASSUME music.steers, music'.k.streak > 0
          PROVE  /\ music'.k.streak <= Len(R)
                 /\ \A i \in 1 .. music'.k.streak : R[Len(R) + 1 - i] = music'.k.candidate
      <4>1. CASE music.k.now = None
        <5>1. music'.k.streak = 0
          BY <3>1, <3>5, <4>1 DEF Resolved
        <5> QED  BY <3>5, <5>1
      <4>2. CASE music.k.now # None
        <5>1. /\ music'.k.candidate = raw
              /\ \/ music'.k.streak = 1
                 \/ /\ music'.k.streak = music.k.streak + 1 /\ music'.k.streak < StableFrames
                    /\ music.k.candidate = raw
          BY <1>1, <3>1, <3>5, <4>2, ResolvedFrom
        <5>2. CASE music'.k.streak = 1
          <6>1. \A i \in 1 .. 1 : Len(R) + 1 - i = Len(R)
            BY <3>4
          <6> QED  BY <3>4, <5>1, <5>2, <6>1
        <5>3. CASE music'.k.streak = music.k.streak + 1 /\ music'.k.streak < StableFrames
                   /\ music.k.candidate = raw
          <6>1. PICK q \in Nat : q = music.k.streak
            BY <1>1 DEF Answers
          <6>2. q <= L
            <7>1. q > 0 => q <= L
              BY <1>1, <3>3, <3>5, <6>1 DEF Evidence
            <7> QED  BY <7>1
          <6>3. music'.k.streak <= Len(R)
            BY <1>1, <3>4, <5>3, <6>1, <6>2
          <6>4. ASSUME NEW i \in 1 .. q + 1
                PROVE  R[Len(R) + 1 - i] = raw
            <7>1. CASE i = 1
              <8>1. Len(R) + 1 - i = Len(R)
                BY <3>4, <7>1
              <8> QED  BY <3>4, <8>1
            <7>2. CASE i # 1
              <8>1. PICK j \in Nat : j = i - 1 /\ j \in 1 .. q
                BY <7>2
              <8>2. j \in 1 .. Len(R) - 1 /\ Len(R) + 1 - i = Len(R) - j
                BY <3>4, <5>3, <6>1, <6>3, <8>1
              <8>3. seen.raw[L + 1 - j] = music.k.candidate
                <9>1. music.k.streak > 0
                  BY <6>1, <8>1
                <9>2. \A l \in 1 .. music.k.streak :
                         seen.raw[Len(seen.raw) + 1 - l] = music.k.candidate
                  BY <1>1, <3>5, <9>1 DEF Evidence
                <9> QED  BY <3>3, <6>1, <8>1, <9>2
              <8> QED  BY <3>4, <5>3, <8>2, <8>3
            <7> QED  BY <7>1, <7>2
          <6> QED  BY <5>1, <5>3, <6>1, <6>3, <6>4
        <5> QED  BY <5>1, <5>2, <5>3
      <4> QED  BY <4>1, <4>2
    <3> QED  BY <3>1, <3>2, <3>4, <3>5 DEF Evidence
  <2>5. CASE /\ music'.k.now # None /\ music'.n = music.n
             /\ ~(music'.frame # music.frame /\ music'.autoK)
    <3>1. seen'.raw = seen.raw /\ music'.k = music.k /\ music'.steers = music.steers
      BY <2>1, <2>5 DEF Counted
    <3> QED  BY <1>1, <3>1 DEF Evidence
  <2> QED  BY <2>2, <2>3, <2>4, <2>5
<1>4. CASE MusicSet /\ ~TaskRun
  <2>1. seen'.raw = seen.raw
    BY <1>1, <1>4, RawKept
  <2>2. ASSUME music'.steers, music'.k.streak > 0
        PROVE  music'.k = music.k /\ music.steers
    <3>1. music'.k = music.k /\ music'.k # Unknown
      BY <1>4, <2>2, EmptyFits DEF MusicSet, Reset
    <3>2. music.k.now # None
      BY <1>1, <2>2, <3>1 DEF Fitting
    <3> QED  BY <1>4, <2>2, <3>1, <3>2 DEF MusicSet, CountKept
  <2> QED  BY <1>1, <2>1, <2>2 DEF Evidence
<1> QED  BY <1>1, <1>3, <1>4, MusicStep

\* The number of sources changes on the word of the last StableFrames frames.
LEMMA StableStep ==
    ASSUME FInv, FinderNext, music.k.now # None, music'.k.now \notin {None, music.k.now},
           music'.n = music.n
    PROVE  seen'.raw = [i \in 1 .. StableFrames |-> music'.k.now]
<1>1. FinderTypes /\ Fitting(music) /\ Steerable /\ Evidence /\ seen.raw \in Seq(Int)
      /\ music.k \in Answers /\ StableFrames \in Nat /\ StableFrames >= 1
      /\ Len(seen.raw) <= StableFrames /\ 0 .. 1 \subseteq Int
  BY FinderGiven DEF FInv, FinderTypes, Musics, Evidence
<1>2. CASE TaskRun
  <2>1. PICK raw \in 0 .. 1 :
           /\ Counted(music', raw)
           /\ seen'.raw = IF music'.k.now = None THEN <<>>
                          ELSE IF music'.n # music.n THEN <<raw>>
                          ELSE IF music'.frame # music.frame /\ music'.autoK
                          THEN Recorded(raw) ELSE seen.raw
    BY <1>2, RunRecords
  <2>2. /\ music'.frame # music.frame /\ music'.autoK /\ music.steers
        /\ music'.k = Resolved(music.k, raw)
    BY <2>1 DEF Counted
  <2>3. /\ music'.k.now = raw /\ music.k.candidate = raw
        /\ music.k.streak + 1 >= StableFrames
    BY <1>1, <2>2, ResolvedFrom
  <2>4. PICK R \in Seq(Int) : R = Recorded(raw) /\ R = seen'.raw
    BY <1>1, <2>1, <2>2, RecordedFits
  <2>5. PICK L \in Nat : L = Len(seen.raw)
    BY <1>1, LenProperties
  <2>6. /\ Len(R) \in Nat /\ Len(R) >= 1 /\ Len(R) <= StableFrames
        /\ Len(R) = L + 1 \/ Len(R) = StableFrames
        /\ R[Len(R)] = raw
        /\ \A i \in 1 .. Len(R) - 1 : R[Len(R) - i] = seen.raw[L + 1 - i]
    <3>1. raw \in Int
      BY <1>1
    <3>2. /\ Len(Recorded(raw)) \in 1 .. StableFrames
          /\ Len(Recorded(raw)) = Len(seen.raw) + 1 \/ Len(Recorded(raw)) = StableFrames
          /\ Recorded(raw)[Len(Recorded(raw))] = raw
          /\ \A i \in 1 .. Len(Recorded(raw)) - 1 :
                Recorded(raw)[Len(Recorded(raw)) - i] = seen.raw[Len(seen.raw) + 1 - i]
      BY <1>1, <3>1, RecordedFits
    <3>3. Len(R) \in Nat /\ Len(R) >= 1 /\ Len(R) <= StableFrames
      BY <1>1, <2>4, <3>2
    <3> QED  BY <2>4, <2>5, <3>2, <3>3
  <2>7. PICK q \in Nat : q = music.k.streak
    BY <1>1 DEF Answers
  <2>8. /\ q > 0 => q <= L
        /\ \A i \in 1 .. q : seen.raw[L + 1 - i] = raw
    <3>1. CASE q > 0
      BY <1>1, <2>2, <2>3, <2>5, <2>7, <3>1 DEF Evidence
    <3>2. CASE ~(q > 0)
      <4>1. 1 .. q = {}
        BY <3>2
      <4> QED  BY <3>2, <4>1
    <3> QED  BY <3>1, <3>2
  <2>9. Len(R) = StableFrames
    BY <1>1, <2>3, <2>6, <2>7, <2>8
  <2>10. ASSUME NEW i \in 1 .. StableFrames
         PROVE  R[i] = raw
    <3>1. CASE i = StableFrames
      BY <2>6, <2>9, <3>1
    <3>2. CASE i # StableFrames
      <4>1. PICK j \in Nat : j = StableFrames - i
        BY <1>1
      <4>2. j \in 1 .. StableFrames - 1 /\ j \in 1 .. q /\ StableFrames - j = i
        BY <1>1, <2>3, <2>7, <3>2, <4>1
      <4>3. R[StableFrames - j] = seen.raw[L + 1 - j]
        BY <2>6, <2>9, <4>2
      <4> QED  BY <2>8, <4>2, <4>3
    <3> QED  BY <3>1, <3>2
  <2>11. DOMAIN R = 1 .. StableFrames /\ R = [i \in DOMAIN R |-> R[i]]
    BY <2>4, <2>9, LenProperties
  <2>12. R = [i \in 1 .. StableFrames |-> raw]
    BY <2>10, <2>11
  <2> QED  BY <2>3, <2>4, <2>12
<1>3. CASE MusicSet
  BY <1>3, EmptyFits DEF MusicSet, Reset
<1> QED  BY <1>1, <1>2, <1>3, MusicStep

\* A new frame is ahead of the one before.
LEMMA AheadStep ==
    ASSUME FInv, FinderNext, NEW k \in DOMAIN music'.frame, music'.frame # music.frame
    PROVE  /\ \A i, j \in 1 .. SnapLength : i < j => music'.frame[k][i] < music'.frame[k][j]
           /\ \A l \in DOMAIN music.frame : \A i, j \in 1 .. SnapLength :
                 music.frame[l][i] < music'.frame[k][j]
<1>1. FinderTypes /\ Fitting(music) /\ Steerable
  BY DEF FInv
<1>2. CASE TaskRun
  <2>1. Ahead(music')
    BY <1>2, RunRecords
  <2> QED  BY <2>1 DEF Ahead
<1>3. CASE MusicSet
  <2>1. music'.frame = <<>>
    BY <1>3 DEF MusicSet, Reset
  <2> QED  BY <2>1
<1> QED  BY <1>1, <1>2, <1>3, MusicStep

-----------------------------------------------------------------------------
(* The channels of a block, and the offsets they are mixed with.             *)

\* What a step does to the channels at hand: it takes a block, mixes one
\* channel, or leaves them (or has no block any more).
LEMMA TaskMixes ==
    ASSUME FinderTypes, FinderNext
    PROVE  \/ TaskBegin
           \/ TaskMixChannel
           \/ /\ task'.mixed = task.mixed /\ task'.count = task.count
              /\ task'.pc \in {"multi", "mix"} => task.pc \in {"multi", "mix"}
           \/ task' = Idle
<1>1. task \in TaskType
  BY DEF FinderTypes, TaskType
<1>2. CASE TaskMix
  BY <1>1, <1>2 DEF TaskMix, Goto, TaskType
<1>3. CASE TaskLabel
  BY <1>1, <1>3 DEF TaskLabel, Goto, TaskType
<1>4. CASE TaskSquelch
  <2>1. task' = [[task EXCEPT !.pc = "gate"] EXCEPT !.method = set.method] \/ task' = Idle
    BY <1>4 DEF TaskSquelch, Goto
  <2> QED  BY <1>1, <2>1 DEF TaskType
<1>5. CASE TaskTune
  <2>1. \/ task' = [[task EXCEPT !.pc = "arm"] EXCEPT !.freq = radio.freq + set.offset]
        \/ task' = Idle
    BY <1>5 DEF TaskTune, Goto
  <2> QED  BY <1>1, <2>1 DEF TaskType
<1>6. CASE TaskArm
  BY <1>1, <1>6 DEF TaskArm, Goto, TaskType
<1>7. CASE TaskMoved \/ TaskFloor \/ TaskThreshold
  BY <1>1, <1>7 DEF TaskMoved, TaskFloor, TaskThreshold, Goto, TaskType
<1>8. CASE TaskRead
  <2>1. PICK floor \in {task.freq, auto.floor} : task' = [[task EXCEPT !.pc = "floor"] EXCEPT !.floor = floor]
    BY <1>8 DEF TaskRead, Goto
  <2> QED  BY <1>1, <2>1 DEF TaskType
<1>9. CASE TaskTell
  BY <1>9 DEF TaskTell
<1>10. CASE TaskRun
  <2>1. task' \in {Idle, [task EXCEPT !.pc = "moved"], [task EXCEPT !.pc = "tell"]}
    BY <1>10 DEF TaskRun, Goto
  <2> QED  BY <1>1, <2>1 DEF TaskType
<1> QED
  BY <1>2, <1>3, <1>4, <1>5, <1>6, <1>7, <1>8, <1>9, <1>10, StepKinds DEF TaskSteps, Elsewhere

\* What a packet hands to the task.
LEMMA BeginTakes ==
    ASSUME FinderTypes, TaskBegin
    PROVE  /\ task'.pc = "multi" /\ task'.mixed = <<>> /\ task'.arg = set.offset
           /\ task'.count \in 1 .. Elements
           /\ seen'.dragged = (web.pc # "idle")
           /\ UNCHANGED <<set, web, music, auto>>
<1>1. PICK n \in BlockSizes, c \in {radio.n, radio.was}, noise \in BOOLEAN :
         /\ task' = [Idle EXCEPT !.pc = "multi", !.samples = Taking(n), !.arg = set.offset,
                                 !.count = Least(c, radio.n)]
         /\ seen' = [seen EXCEPT !.dragged = web.pc # "idle",
                                 !.noisy = IF noise THEN @ \cup ToSet(Taking(n)) ELSE @]
  BY DEF TaskBegin, FinderTypes
<1>2. c \in Sizes /\ radio.n \in Sizes
  BY DEF FinderTypes
<1>3. Least(c, radio.n) \in 1 .. Elements
  BY <1>2, LeastFits
<1>4. task'.pc = "multi" /\ task'.mixed = <<>> /\ task'.arg = set.offset
      /\ task'.count = Least(c, radio.n)
  BY <1>1 DEF Idle
<1>5. seen'.dragged = (web.pc # "idle")
  BY <1>1 DEF FinderTypes
<1> QED  BY <1>3, <1>4, <1>5 DEF TaskBegin

\* One more channel.
LEMMA MixTakes ==
    ASSUME FinderTypes, TaskMixChannel
    PROVE  /\ task.pc = "mix" /\ task'.pc \in {"mix", "label"} /\ task'.count = task.count
           /\ task'.mixed = Append(task.mixed, MixOffset(task.arg))
           /\ task'.arg = task.arg
           /\ Len(task'.mixed) = Len(task.mixed) + 1 /\ Len(task.mixed) \in Nat
           /\ ToSet(task'.mixed) = ToSet(task.mixed) \cup {MixOffset(task.arg)}
           /\ Len(task'.mixed) = task.count <=> task'.pc = "label"
<1>1. /\ task \in TaskType /\ task.mixed \in Seq(Nat) /\ MixOffset(task.arg) \in Nat
  BY DEF FinderTypes, TaskType, MixOffset
<1>2. PICK t : t = Append(task.mixed, MixOffset(task.arg))
  OBVIOUS
<1>3. PICK pc \in {"mix", "label"} :
         /\ task' = [task EXCEPT !.mixed = t, !.pc = pc]
         /\ Len(t) = task.count <=> pc = "label"
  BY <1>2 DEF TaskMixChannel
<1>4. task'.pc = pc /\ task'.mixed = t /\ task'.count = task.count /\ task'.arg = task.arg
  BY <1>1, <1>3 DEF TaskType
<1>5. /\ t \in Seq(Nat) /\ Len(t) = Len(task.mixed) + 1 /\ Len(task.mixed) \in Nat
      /\ \A i \in 1 .. Len(task.mixed) : t[i] = task.mixed[i]
      /\ t[Len(task.mixed) + 1] = MixOffset(task.arg)
      /\ DOMAIN t = 1 .. Len(task.mixed) + 1 /\ DOMAIN task.mixed = 1 .. Len(task.mixed)
  BY <1>1, <1>2, AppendProperties, LenProperties
<1>6. ToSet(t) = ToSet(task.mixed) \cup {MixOffset(task.arg)}
  <2>1. \A i \in 1 .. Len(task.mixed) + 1 : i \in 1 .. Len(task.mixed) \/ i = Len(task.mixed) + 1
    BY <1>5
  <2>2. 1 .. Len(task.mixed) \subseteq 1 .. Len(task.mixed) + 1
        /\ Len(task.mixed) + 1 \in 1 .. Len(task.mixed) + 1
    BY <1>5
  <2> QED  BY <1>5, <2>1, <2>2 DEF ToSet
<1> QED  BY <1>2, <1>3, <1>4, <1>5, <1>6 DEF TaskMixChannel

LEMMA ChannelsStep ==
    ASSUME FInv, FinderNext
    PROVE  Channels'
<1>1. FinderTypes /\ Channels /\ task \in TaskType
  BY DEF FInv, FinderTypes, TaskType
<1>2. CASE TaskBegin
  <2>1. task'.mixed = <<>> /\ task'.count \in 1 .. Elements
    BY <1>1, <1>2, BeginTakes
  <2>2. Len(<<>>) = 0
    OBVIOUS
  <2> QED  BY <2>1, <2>2, FinderGiven DEF Channels
<1>3. CASE TaskMixChannel
  <2>1. /\ task.pc = "mix" /\ task'.pc \in {"mix", "label"} /\ task'.count = task.count
        /\ Len(task'.mixed) = Len(task.mixed) + 1 /\ Len(task.mixed) \in Nat
        /\ Len(task'.mixed) = task.count <=> task'.pc = "label"
    BY <1>1, <1>3, MixTakes
  <2>2. Len(task.mixed) < task.count /\ task.count \in Int
    BY <1>1, <2>1 DEF Channels, TaskType
  <2> QED  BY <2>1, <2>2 DEF Channels
<1>4. CASE /\ task'.mixed = task.mixed /\ task'.count = task.count
           /\ task'.pc \in {"multi", "mix"} => task.pc \in {"multi", "mix"}
  BY <1>1, <1>4 DEF Channels
<1>5. CASE task' = Idle
  <2>1. Len(<<>>) = 0
    OBVIOUS
  <2> QED  BY <1>5, <2>1 DEF Channels, Idle
<1> QED  BY <1>1, <1>2, <1>3, <1>4, <1>5, TaskMixes

\* Who moves the decimator or the tuner drags the block at hand.
LEMMA OffsetsStep ==
    ASSUME FinderTypes, FinderNext
    PROVE  /\ \/ SetOffset
              \/ SetMixer
              \/ /\ set'.offset = set.offset /\ set'.mixer = set.mixer
                 /\ web' = web \/ (web.pc # "mixer" /\ web'.pc \notin {"mixer", "music"})
           /\ ~seen'.dragged =>
                 \/ TaskBegin
                 \/ /\ ~seen.dragged /\ set'.offset = set.offset /\ radio'.freq = radio.freq
                    /\ web' = web \/ web'.pc \notin {"mixer", "music"}
<1>1. /\ seen \in SeenType /\ radio \in RadioType /\ set \in SetType
      /\ web \in [pc : PagePlaces, offset : Nat]
  BY DEF FinderTypes, SeenType, RadioType, SetType
<1>2. ASSUME Drags
      PROVE  seen'.dragged
  BY <1>1, <1>2 DEF Drags, SeenType
<1>3. CASE TaskSteps
  BY <1>3, TaskKeepsBlock
<1>4. CASE TaskBegin
  BY <1>4 DEF TaskBegin
<1>5. CASE TaskRun
  <2>1. UNCHANGED <<radio, set, web>>
    BY <1>5 DEF TaskRun
  <2>2. seen'.dragged = seen.dragged
    BY <1>1, <1>5 DEF TaskRun, SeenType
  <2> QED  BY <2>1, <2>2
<1>6. CASE SetOffset \/ SetMixer
  BY <1>2, <1>6 DEF SetOffset, SetMixer
<1>7. CASE SetMusic
  BY <1>2, <1>7 DEF SetMusic
<1>8. CASE SetFrequency \/ Retuned
  BY <1>2, <1>8 DEF SetFrequency, Retuned
<1>9. CASE SetMethod
  <2>1. PICK s \in Methods, pc \in {"floor", "idle"} :
           set' = [set EXCEPT !.method = s] /\ web' = [web EXCEPT !.pc = pc]
    BY <1>9 DEF SetMethod, Methods
  <2>2. web.pc = "idle" /\ UNCHANGED <<radio, seen>>
    BY <1>9 DEF SetMethod, MayChange
  <2> QED  BY <1>1, <2>1, <2>2 DEF SetType
<1>10. CASE SetFloor \/ SetThreshold \/ SetCustom
  BY <1>1, <1>10 DEF SetFloor, SetThreshold, SetCustom
<1>11. CASE SetSetting
  <2>1. PICK pc \in {"custom", "idle"} : web' = [web EXCEPT !.pc = pc]
    BY <1>11 DEF SetSetting
  <2> QED  BY <1>1, <1>11, <2>1 DEF SetSetting, MayChange
<1>12. CASE SetSquelch
  BY <1>1, <1>12 DEF SetSquelch, SetType
<1>13. CASE Resized
  <2>1. PICK n : radio' = [radio EXCEPT !.n = n]
    BY <1>13 DEF Resized
  <2> QED  BY <1>1, <1>13, <2>1 DEF Resized, RadioType
<1>14. CASE HoldOver \/ Settled
  BY <1>1, <1>14 DEF HoldOver, Settled, RadioType
<1> QED
  BY <1>3, <1>4, <1>5, <1>6, <1>7, <1>8, <1>9, <1>10, <1>11, <1>12, <1>13, <1>14
  DEF FinderNext, TaskSteps

\* What a step does to the offset asked for and the label.
LEMMA LabelStep ==
    ASSUME FinderTypes, FinderNext
    PROVE  \/ TaskBegin \/ TaskMix \/ TaskMixChannel \/ TaskLabel
           \/ /\ task'.pc \notin {"multi", "mix"} \/ task' = task
              /\ task'.pc \in {"squelch", "gate", "arm", "run"} =>
                    task'.label = task.label /\ task.pc \in {"squelch", "gate", "arm", "run"}
              /\ task'.pc \in Before => task.pc \in Before /\ task'.mixed = task.mixed
              /\ task'.pc \in {"arm", "run"} => task.pc \in {"arm", "run"} \/ (TaskTune /\ MayRun)
<1>1. task \in TaskType
  BY DEF FinderTypes, TaskType
<1>2. CASE TaskSquelch
  <2>1. task' = [[task EXCEPT !.pc = "gate"] EXCEPT !.method = set.method] \/ task' = Idle
    BY <1>2 DEF TaskSquelch, Goto
  <2>2. task.pc = "squelch"
    BY <1>2 DEF TaskSquelch
  <2>3. CASE task' = Idle
    <3>1. task'.pc = "idle"
      BY <2>3, IdleFits
    <3> QED  BY <3>1 DEF Before
  <2>4. CASE task' = [[task EXCEPT !.pc = "gate"] EXCEPT !.method = set.method]
    <3>1. task'.pc = "gate" /\ task'.label = task.label /\ task'.mixed = task.mixed
      BY <1>1, <2>4 DEF TaskType
    <3> QED  BY <2>2, <3>1 DEF Before
  <2> QED  BY <2>1, <2>3, <2>4
<1>3. CASE TaskTune
  <2>1. CASE MayRun
    BY <1>1, <1>3, <2>1 DEF TaskTune, Goto, TaskType, Before
  <2>2. CASE ~MayRun
    BY <1>3, <2>2, IdleFits DEF TaskTune, Before
  <2> QED  BY <2>1, <2>2
<1>4. CASE TaskArm
  BY <1>1, <1>4 DEF TaskArm, Goto, TaskType, Before
<1>5. CASE TaskMoved \/ TaskRead \/ TaskFloor \/ TaskThreshold
  <2>1. task'.pc \in {"read", "floor", "threshold", "tell"}
    BY <1>1, <1>5 DEF TaskMoved, TaskRead, TaskFloor, TaskThreshold, Goto, TaskType
  <2> QED  BY <2>1 DEF Before
<1>6. CASE TaskTell
  BY <1>6, IdleFits DEF TaskTell, Before
<1>7. CASE TaskRun
  <2>1. task' \in {Idle, [task EXCEPT !.pc = "moved"], [task EXCEPT !.pc = "tell"]}
    BY <1>7 DEF TaskRun, Goto
  <2>2. task'.pc \in {"idle", "moved", "tell"}
    BY <1>1, <2>1, IdleFits DEF TaskType
  <2> QED  BY <2>2 DEF Before
<1> QED
  BY <1>2, <1>3, <1>4, <1>5, <1>6, <1>7, StepKinds DEF TaskSteps, Elsewhere

LEMMA OneOffsetStep ==
    ASSUME FInv, FinderNext
    PROVE  OneOffset'
<1>1. FinderTypes /\ OneOffset /\ task \in TaskType /\ Fitting(music) /\ Steerable
  BY DEF FInv, FinderTypes, TaskType
<1>2. IF web'.pc = "mixer" THEN web'.offset = set'.offset ELSE set'.mixer = set'.offset
  <2>1. CASE SetOffset
    BY <1>1, <2>1 DEF SetOffset, FinderTypes
  <2>2. CASE SetMixer
    BY <1>1, <2>2 DEF SetMixer, FinderTypes, OneOffset, Mixing
  <2>3. CASE /\ set'.offset = set.offset /\ set'.mixer = set.mixer
             /\ web' = web \/ (web.pc # "mixer" /\ web'.pc \notin {"mixer", "music"})
    BY <1>1, <2>3 DEF OneOffset
  <2> QED  BY <1>1, <2>1, <2>2, <2>3, OffsetsStep
<1> SUFFICES ASSUME ~seen'.dragged
             PROVE  /\ web'.pc \notin {"mixer", "music"}
                    /\ task'.pc \in {"multi", "mix"} => task'.arg = set'.offset
                    /\ task'.pc \in Before => ToSet(task'.mixed) \subseteq {set'.offset}
                    /\ task'.pc \in {"squelch", "gate", "arm", "run"} => task'.label = set'.offset
                    /\ task'.pc \in {"arm", "run"} => music'.freq = radio'.freq + set'.offset
  BY <1>2 DEF OneOffset
<1>3. CASE TaskBegin
  <2>1. /\ task'.pc = "multi" /\ task'.mixed = <<>> /\ task'.arg = set.offset
        /\ web.pc = "idle" /\ set' = set /\ web' = web
    BY <1>1, <1>3, BeginTakes
  <2>2. ToSet(task'.mixed) = {}
    BY <2>1 DEF ToSet
  <2> QED  BY <2>1, <2>2
<1>4. CASE ~TaskBegin
  <2>1. /\ ~seen.dragged /\ set'.offset = set.offset /\ radio'.freq = radio.freq
        /\ web' = web \/ web'.pc \notin {"mixer", "music"}
    BY <1>1, <1>4, OffsetsStep
  <2>2. /\ web.pc \notin {"mixer", "music"} /\ set.mixer = set.offset
        /\ task.pc \in {"multi", "mix"} => task.arg = set.offset
        /\ task.pc \in Before => ToSet(task.mixed) \subseteq {set.offset}
        /\ task.pc \in {"squelch", "gate", "arm", "run"} => task.label = set.offset
        /\ task.pc \in {"arm", "run"} => music.freq = radio.freq + set.offset
    BY <1>1, <2>1 DEF OneOffset
  <2>3. MixOffset(set.offset) = set.offset
    BY <2>2 DEF MixOffset
  <2>4. CASE TaskMix
    <3>1. /\ task.pc = "multi" /\ task'.pc = "mix" /\ task'.arg = MixOffset(task.arg)
          /\ task'.mixed = task.mixed
      BY <1>1, <2>4 DEF TaskMix, Goto, TaskType
    <3> QED  BY <2>1, <2>2, <2>3, <3>1 DEF Before
  <2>5. CASE TaskMixChannel
    <3>1. /\ task.pc = "mix" /\ task'.pc \in {"mix", "label"} /\ task'.arg = task.arg
          /\ ToSet(task'.mixed) = ToSet(task.mixed) \cup {MixOffset(task.arg)}
      BY <1>1, <2>5, MixTakes
    <3> QED  BY <2>1, <2>2, <2>3, <3>1 DEF Before
  <2>6. CASE TaskLabel
    <3>1. /\ task.pc = "label" /\ task'.pc = "squelch" /\ task'.label = set.offset
          /\ task'.mixed = task.mixed
      BY <1>1, <2>6 DEF TaskLabel, Goto, TaskType
    <3> QED  BY <2>1, <2>2, <3>1 DEF Before
  <2>7. CASE ~(TaskMix \/ TaskMixChannel \/ TaskLabel)
    <3>1. /\ task'.pc \notin {"multi", "mix"} \/ task' = task
          /\ task'.pc \in {"squelch", "gate", "arm", "run"} =>
                task'.label = task.label /\ task.pc \in {"squelch", "gate", "arm", "run"}
          /\ task'.pc \in Before => task.pc \in Before /\ task'.mixed = task.mixed
          /\ task'.pc \in {"arm", "run"} => task.pc \in {"arm", "run"} \/ (TaskTune /\ MayRun)
      BY <1>1, <1>4, <2>7, LabelStep
    <3>2. ASSUME task'.pc \in {"arm", "run"}
          PROVE  music'.freq = radio'.freq + set'.offset
      <4>1. CASE TaskTune /\ MayRun
        <5>1. /\ music' = WithFrequency(music, radio.freq + set.offset)
              /\ radio.freq + set.offset \in Nat /\ music \in Musics
          BY <1>1, <4>1, Tunes DEF TaskTune, FinderTypes
        <5>2. Reset(music, music', radio.freq + set.offset, music.n)
          BY <1>1, <5>1, WithFrequencyFits
        <5> QED  BY <2>1, <5>2 DEF Reset
      <4>2. CASE ~(TaskTune /\ MayRun)
        <5>1. task.pc \in {"arm", "run"}
          BY <3>1, <3>2, <4>2
        <5>2. ~TaskTune
          BY <5>1 DEF TaskTune
        <5>3. CASE TaskRun
          BY <1>1, <3>2, <5>3, IdleFits DEF TaskRun, Goto, TaskType
        <5>4. CASE MusicSet
          <6>1. music'.freq = music.freq
            BY <5>2, <5>4 DEF MusicSet
          <6> QED  BY <2>1, <2>2, <5>1, <6>1
        <5> QED  BY <1>1, <5>3, <5>4, MusicStep
      <4> QED  BY <4>1, <4>2
    <3> QED  BY <2>1, <2>2, <3>1, <3>2
  <2> QED  BY <2>4, <2>5, <2>6, <2>7
<1> QED  BY <1>3, <1>4

-----------------------------------------------------------------------------
(* What the squelch has learned.                                             *)

Learning == {"read", "floor", "threshold"}

LEMMA FloorsStep ==
    ASSUME FInv, FinderNext
    PROVE  Floors'
<1>1. /\ Floors /\ task \in TaskType /\ auto \in AutoType
      /\ FinderTypes
  BY DEF FInv, FinderTypes, TaskType, AutoType
<1>2. /\ auto.floor \in {None, auto.at}
      /\ task.pc \notin Learning => auto.threshold \in {None, auto.at}
      /\ task.pc \in Learning => auto.at = task.freq
      /\ task.pc \in {"floor", "threshold"} => task.floor \in {None, task.freq}
  BY <1>1 DEF Floors, FloorIsOfVfo, Learning
<1> SUFFICES /\ auto'.floor \in {None, auto'.at}
             /\ task'.pc \notin Learning => auto'.threshold \in {None, auto'.at}
             /\ task'.pc \in Learning => auto'.at = task'.freq
             /\ task'.pc \in {"floor", "threshold"} => task'.floor \in {None, task'.freq}
  BY DEF Floors, FloorIsOfVfo, Learning
<1>3. CASE TaskMoved
  <2>1. task'.pc = "read" /\ task'.freq = task.freq
    BY <1>1, <1>3 DEF TaskMoved, Goto, TaskType
  <2>2. CASE Moved(auto.at, task.freq)
    <3>1. auto'.floor = None /\ auto'.at = task.freq
      BY <1>1, <1>3, <2>2 DEF TaskMoved, AutoType
    <3> QED  BY <2>1, <3>1 DEF Learning
  <2>3. CASE ~Moved(auto.at, task.freq)
    <3>1. auto' = auto /\ auto.at = task.freq
      BY <1>3, <2>3 DEF TaskMoved, Moved
    <3> QED  BY <1>2, <2>1, <3>1 DEF Learning
  <2> QED  BY <2>2, <2>3
<1>4. CASE TaskRead
  <2>1. PICK floor \in {task.freq, auto.floor} : task' = [[task EXCEPT !.pc = "floor"] EXCEPT !.floor = floor]
    BY <1>4 DEF TaskRead, Goto
  <2>2. task'.pc = "floor" /\ task'.freq = task.freq /\ task'.floor = floor
    BY <1>1, <2>1 DEF TaskType
  <2>3. task.pc = "read" /\ auto' = auto
    BY <1>4 DEF TaskRead
  <2> QED  BY <1>2, <2>1, <2>2, <2>3 DEF Learning
<1>5. CASE TaskFloor
  <2>1. /\ task'.pc = "threshold" /\ task'.freq = task.freq /\ task'.floor = task.floor
        /\ task.pc = "floor"
    BY <1>1, <1>5 DEF TaskFloor, Goto, TaskType
  <2>2. auto'.floor = task.floor /\ auto'.at = auto.at
    BY <1>1, <1>5 DEF TaskFloor, AutoType
  <2> QED  BY <1>2, <2>1, <2>2 DEF Learning
<1>6. CASE TaskThreshold
  <2>1. task'.pc = "tell" /\ task.pc = "threshold"
    BY <1>1, <1>6 DEF TaskThreshold, Goto, TaskType
  <2>2. auto'.floor = auto.floor /\ auto'.at = auto.at /\ auto'.threshold = task.floor
    BY <1>1, <1>6 DEF TaskThreshold, AutoType
  <2> QED  BY <1>2, <2>1, <2>2 DEF Learning
<1>7. CASE SetFloor
  <2>1. auto'.floor = None /\ auto'.at = auto.at /\ auto'.threshold = auto.threshold /\ task' = task
    BY <1>1, <1>7 DEF SetFloor, AutoType
  <2> QED  BY <1>2, <2>1
<1>8. CASE SetThreshold
  <2>1. auto'.floor = auto.floor /\ auto'.at = auto.at /\ auto'.threshold = None /\ task' = task
    BY <1>1, <1>8 DEF SetThreshold, AutoType
  <2> QED  BY <1>2, <2>1
<1>9. CASE Settled
  <2>1. /\ auto'.floor = auto.floor /\ auto'.at = auto.at /\ auto'.threshold = auto.threshold
        /\ task' = task
    BY <1>1, <1>9 DEF Settled, AutoType
  <2> QED  BY <1>2, <2>1
<1>10. ASSUME auto' = auto, task' = task \/ {task.pc, task'.pc} \cap Learning = {}
       PROVE  /\ auto'.floor \in {None, auto'.at}
              /\ task'.pc \notin Learning => auto'.threshold \in {None, auto'.at}
              /\ task'.pc \in Learning => auto'.at = task'.freq
              /\ task'.pc \in {"floor", "threshold"} => task'.floor \in {None, task'.freq}
  BY <1>2, <1>10 DEF Learning
<1>11. CASE TaskBegin
  <2>1. task'.pc = "multi" /\ auto' = auto
    BY <1>1, <1>11, BeginTakes
  <2> QED  BY <1>10, <1>11, <2>1 DEF TaskBegin, Learning
<1>12. CASE TaskMix \/ TaskLabel \/ TaskArm
  <2>1. task'.pc \in {"mix", "squelch", "run"}
    BY <1>1, <1>12 DEF TaskMix, TaskLabel, TaskArm, Goto, TaskType
  <2> QED  BY <1>10, <1>12, <2>1 DEF TaskMix, TaskLabel, TaskArm, Learning
<1>13. CASE TaskMixChannel
  <2>1. task.pc = "mix" /\ task'.pc \in {"mix", "label"}
    BY <1>1, <1>13, MixTakes
  <2> QED  BY <1>10, <1>13, <2>1 DEF TaskMixChannel, Learning
<1>14. CASE TaskSquelch
  <2>1. task' = [[task EXCEPT !.pc = "gate"] EXCEPT !.method = set.method] \/ task' = Idle
    BY <1>14 DEF TaskSquelch, Goto
  <2>2. task'.pc \in {"gate", "idle"}
    BY <1>1, <2>1, IdleFits DEF TaskType
  <2> QED  BY <1>10, <1>14, <2>2 DEF TaskSquelch, Learning
<1>15. CASE TaskTune
  <2>1. \/ task' = [[task EXCEPT !.pc = "arm"] EXCEPT !.freq = radio.freq + set.offset]
        \/ task' = Idle
    BY <1>15 DEF TaskTune, Goto
  <2>2. task'.pc \in {"arm", "idle"}
    BY <1>1, <2>1, IdleFits DEF TaskType
  <2> QED  BY <1>10, <1>15, <2>2 DEF TaskTune, Learning
<1>16. CASE TaskRun
  <2>1. task' \in {Idle, [task EXCEPT !.pc = "moved"], [task EXCEPT !.pc = "tell"]}
    BY <1>16 DEF TaskRun, Goto
  <2>2. task'.pc \in {"idle", "moved", "tell"}
    BY <1>1, <2>1, IdleFits DEF TaskType
  <2> QED  BY <1>10, <1>16, <2>2 DEF TaskRun, Learning
<1>17. CASE TaskTell
  BY <1>10, <1>17, IdleFits DEF TaskTell, Learning
<1> QED
  BY <1>3, <1>4, <1>5, <1>6, <1>7, <1>8, <1>9, <1>10, <1>11, <1>12, <1>13, <1>14, <1>15, <1>16,
     <1>17 DEF FinderNext, SetOffset, SetMixer, SetMusic, SetMethod, SetSetting, SetCustom,
     SetSquelch, SetFrequency, Retuned, Resized, HoldOver

-----------------------------------------------------------------------------
(* The invariant.                                                            *)

LEMMA FinderStarts ==
    ASSUME FinderInit
    PROVE  FInv
<1>1. PICK f \in Frequencies, old \in Stored :
         /\ radio = [freq |-> f, n |-> Elements, was |-> Elements,
                     noise |-> FALSE, hold |-> FALSE]
         /\ set = [offset |-> 0, mixer |-> 0, method |-> old.method,
                  squelch |-> old.squelch, beam |-> FALSE]
         /\ web = [pc |-> "idle", offset |-> 0]
         /\ task = Idle
         /\ music = Steered([freq |-> f, topo |-> "UCA", n |-> Elements, fb |-> FALSE,
                      radius |-> 0, deep |-> FALSE, averages |-> TRUE, avg |-> {},
                      acc |-> EmptyAcc, frame |-> <<>>, k |-> Unknown, autoK |-> old.autoK,
                      steer |-> None, steers |-> FALSE, steer2 |-> None, steers2 |-> FALSE,
                      gate |-> [armed |-> FALSE, learned |-> TRUE], closed |-> FALSE,
                      hold |-> FALSE, enabled |-> TRUE, shown |-> <<>>, tilt |-> <<>>])
         /\ auto = [floor |-> None, threshold |-> None, at |-> 0, settling |-> FALSE]
         /\ seen = [raw |-> <<>>, noisy |-> {}, dragged |-> FALSE]
         /\ budget = [blocks |-> MaxBlocks, taken |-> 0, events |-> MaxEvents]
  BY DEF FinderInit
<1>2. /\ f \in Nat /\ old \in [method : Methods, squelch : BOOLEAN, autoK : BOOLEAN]
      /\ MaxBlocks \in Int /\ MaxEvents \in Int /\ Elements \in Sizes
      /\ StableFrames \in Nat /\ None \in Learned
  BY FinderAssumption, FinderGiven DEF Methods, Sizes, Learned
<1>3. PICK m : m = [freq |-> f, topo |-> "UCA", n |-> Elements, fb |-> FALSE,
                    radius |-> 0, deep |-> FALSE, averages |-> TRUE, avg |-> {},
                    acc |-> EmptyAcc, frame |-> <<>>, k |-> Unknown, autoK |-> old.autoK,
                    steer |-> None, steers |-> FALSE, steer2 |-> None, steers2 |-> FALSE,
                    gate |-> [armed |-> FALSE, learned |-> TRUE], closed |-> FALSE,
                    hold |-> FALSE, enabled |-> TRUE, shown |-> <<>>, tilt |-> <<>>]
  OBVIOUS
<1>4. /\ EmptyAcc \in Accs /\ EmptyAcc.avail = 0 /\ Unknown \in Answers /\ Unknown.now = None
      /\ <<>> \in Seq(Int) /\ <<>> \in Seq(Nat) /\ <<>> \in Seq(Seq(Int))
  BY EmptyFits, EmptySeq
<1>5. m \in Musics
  BY <1>2, <1>3, <1>4 DEF Musics, Arrangements
<1>6. music = [m EXCEPT !.steer = Steering(m), !.steers = ~(m.topo = "UCA" /\ m.n < 3)]
  BY <1>1, <1>3 DEF Steered
<1>7. music \in Musics /\ Fitting(music)
  <2>1. music = Steered(m)
    BY <1>1, <1>3
  <2>2. m.avg = {} /\ m.k = Unknown /\ m.steers2 = FALSE /\ m.topo = "UCA"
    BY <1>3
  <2>3. m.k.streak = 0
    BY <2>2, EmptyFits
  <2> HIDE DEF Musics
  <2> QED  BY <1>5, <2>1, <2>2, <2>3, SteeredFits, SteeredIsFitting
<1>8. /\ music.k = Unknown /\ music.acc = EmptyAcc /\ music.frame = <<>> /\ music.shown = <<>>
      /\ music.tilt = <<>>
  BY <1>3, <1>5, <1>6 DEF Musics
<1>9. FinderTypes
  <2>1. radio \in RadioType /\ set \in SetType /\ seen \in SeenType
    BY <1>1, <1>2, <1>4 DEF RadioType, SetType, SeenType
  <2>2. task \in TaskType /\ auto \in AutoType /\ budget \in BudgetType
    BY <1>1, <1>2, IdleFits DEF AutoType, BudgetType
  <2> QED  BY <1>1, <1>7, <2>1, <2>2 DEF FinderTypes, RadioType, SetType, SeenType, TaskType,
           AutoType, BudgetType, PagePlaces
<1>10. Steerable
  BY <1>4, <1>8 DEF Steerable
<1>11. Evidence
  <2>1. Len(<<>>) = 0 /\ Unknown.streak = 0
    BY EmptyFits DEF Unknown
  <2> QED  BY <1>1, <1>2, <1>8, <2>1 DEF Evidence
<1>12. Accumulating /\ Framed /\ Shown /\ AtHand
  <2>1. budget.taken = 0 /\ task.pc = "idle" /\ seen.noisy = {} /\ Past = 0
    BY <1>1, IdleFits DEF Past, Before
  <2>2. 0 .. music.acc.avail - 1 = {} /\ music.acc.avail = 0
    BY <1>4, <1>8
  <2>3. Accumulating
    BY <2>1, <2>2 DEF Accumulating, InOrder
  <2>4. Framed
    BY <1>8 DEF Framed
  <2>5. ToSet(<<>>) = {}
    BY DEF ToSet
  <2> QED  BY <1>8, <2>1, <2>3, <2>4, <2>5 DEF Shown, AtHand, Before
<1>13. Channels /\ OneOffset /\ Floors
  <2>1. Len(<<>>) = 0 /\ task.mixed = <<>> /\ task.count = 0 /\ task.pc = "idle"
    BY <1>1 DEF Idle
  <2>2. web.pc = "idle" /\ set.mixer = set.offset
    BY <1>1
  <2>3. auto.floor = None /\ auto.threshold = None
    BY <1>1
  <2> QED  BY <2>1, <2>2, <2>3 DEF Channels, OneOffset, Floors, FloorIsOfVfo, Before
<1> QED  BY <1>7, <1>9, <1>10, <1>11, <1>12, <1>13 DEF FInv

LEMMA FinderHolds ==
    ASSUME FInv, [FinderNext]_vars
    PROVE  FInv'
<1>1. CASE FinderNext
  <2>1. FinderTypes' /\ Fitting(music)' /\ Steerable' /\ Evidence'
    BY <1>1, TypesStep, GivenNow, SteerableStep, EvidenceStep
  <2>2. Accumulating' /\ Framed' /\ AtHand' /\ Shown'
    BY <1>1, SamplesStep
  <2>3. Channels' /\ OneOffset' /\ Floors'
    BY <1>1, ChannelsStep, OneOffsetStep, FloorsStep
  <2> QED  BY <2>1, <2>2, <2>3 DEF FInv
<1>2. CASE UNCHANGED vars
  <2>1. /\ radio' = radio /\ set' = set /\ web' = web /\ task' = task /\ music' = music
        /\ auto' = auto /\ seen' = seen /\ budget' = budget
    BY <1>2 DEF vars
  <2>2. FinderTypes' /\ Fitting(music)' /\ Steerable' /\ Evidence'
    BY <2>1 DEF FInv, FinderTypes, Fitting, Steerable, Evidence, Array, Steering, Elevation, TwoD
  <2>3. Past' = Past
    BY <2>1 DEF Past
  <2>4. Accumulating' /\ Framed' /\ AtHand' /\ Shown'
    BY <2>1, <2>3 DEF FInv, Accumulating, InOrder, Sample, Framed, AtHand, Shown
  <2>5. Channels' /\ OneOffset' /\ Floors'
    BY <2>1 DEF FInv, Channels, OneOffset, Floors, FloorIsOfVfo
  <2> QED  BY <2>2, <2>4, <2>5 DEF FInv
<1> QED  BY <1>1, <1>2

LEMMA FinderHeld ==
    ASSUME FInv
    PROVE  FinderSound
<1>1. /\ FinderTypes /\ Fitting(music) /\ Accumulating /\ Framed /\ AtHand /\ Shown
      /\ Channels /\ OneOffset /\ Floors /\ music \in Musics
      /\ Past \in Nat /\ Past <= budget.taken /\ budget.taken \in Nat
  BY PastIsNat DEF FInv, FinderTypes
<1>2. TypeOK
  <2>1. radio.n \in 2 .. Elements /\ music.n \in 2 .. Elements
    BY <1>1 DEF FinderTypes, Musics, Sizes
  <2>2. /\ music.acc.avail \in 0 .. BufferSize /\ music.acc.avail \in Nat
        /\ music.acc.at \in 0 .. BufferSize - 1
    <3>1. music.acc \in Accs
      BY <1>1 DEF Musics
    <3> QED  BY <3>1 DEF Accs, AccCells
  <2>3. music.acc.avail <= budget.taken
    BY <1>1, <2>2 DEF Accumulating
  <2>4. \A k \in DOMAIN music.frame : ToSet(music.frame[k]) \subseteq 1 .. budget.taken
    <3>1. 1 .. Past \subseteq 1 .. budget.taken
      BY <1>1
    <3> QED  BY <1>1, <3>1 DEF Framed, ToSet
  <2>5. music.k.streak \in 0 .. StableFrames /\ music.k.now \in {None, 0, 1}
    <3>1. music.k \in Answers
      BY <1>1 DEF Musics
    <3> QED  BY <3>1 DEF Answers
  <2>6. task.count \in 0 .. Elements /\ Len(task.mixed) <= task.count
    BY <1>1 DEF FinderTypes, Channels
  <2> QED  BY <2>1, <2>2, <2>3, <2>4, <2>5, <2>6 DEF TypeOK
<1>3. AverageIsOfOneArray /\ SteeringIsCurrent
  BY <1>1 DEF Fitting, AverageIsOfOneArray, SteeringIsCurrent
<1>4. FloorIsOfVfo
  BY <1>1 DEF Floors
<1>5. AlikeUnlessDragged
  <2> SUFFICES ASSUME task.pc = "run", ~seen.dragged
               PROVE  /\ ToSet(task.mixed) \subseteq {task.label}
                      /\ music.freq = radio.freq + task.label
    BY DEF AlikeUnlessDragged
  <2> QED  BY <1>1 DEF OneOffset, Before
<1>6. NoNoiseShown
  BY <1>1 DEF Shown, NoNoiseShown
<1> QED  BY <1>2, <1>3, <1>4, <1>5, <1>6 DEF FinderSound

\* The task, the processor and the web thread keep the invariant, whatever is
\* set, tuned or switched between any two steps of a block.
THEOREM FinderInvariant == FinderSpec => []FInv
<1>1. FinderInit => FInv
  BY FinderStarts
<1>2. FInv /\ [FinderNext]_vars => FInv'
  BY FinderHolds
<1> QED  BY <1>1, <1>2, PTL DEF FinderSpec

\* Nothing a bearing is computed of outlives what it was made for: the average
\* is of one array (setFrequency, setArrayTopology, syncElementCount ...), the
\* steering vectors are those of the array as set, what the squelch learned is
\* of its VFO, a block nobody dragged was mixed with the offset on its label,
\* and no bearing shown is of the noise source.
THEOREM FinderCorrect == FinderSpec => []FinderSound
<1>1. FInv => FinderSound
  BY FinderHeld
<1> QED  BY <1>1, FinderInvariant, PTL

\* extractSnapshots of whatever addToAccumulator was given: every snapshot is of
\* samples in the order they were taken, and a frame has none of the one before,
\* through any overlap, buffer size, drop and reset.
THEOREM FramesAreNew == FinderSpec => FramesAdvance
<1>1. FInv /\ [FinderNext]_vars =>
        [\A k \in DOMAIN music'.frame :
           music'.frame # music.frame =>
             /\ \A i, j \in 1 .. SnapLength : i < j => music'.frame[k][i] < music'.frame[k][j]
             /\ \A l \in DOMAIN music.frame : \A i, j \in 1 .. SnapLength :
                   music.frame[l][i] < music'.frame[k][j]]_vars
  BY AheadStep
<1> QED  BY <1>1, FinderInvariant, PTL DEF FinderSpec, FramesAdvance

\* resolveSignalDimension: the number of sources of an array changes only when
\* the last AUTO_SOURCES_STABLE_FRAMES frames all said so, although the setters
\* make MUSIC forget it, and a frame without steering vectors does not count.
THEOREM CountNeedsFrames == FinderSpec => CountIsStable
<1>1. FInv /\ [FinderNext]_vars =>
        [(music.k.now # None /\ music'.k.now \notin {None, music.k.now} /\ music'.n = music.n) =>
            seen'.raw = [i \in 1 .. StableFrames |-> music'.k.now]]_vars
  BY StableStep
<1> QED  BY <1>1, FinderInvariant, PTL DEF FinderSpec, CountIsStable

-----------------------------------------------------------------------------
(* Direction finding, audio and beam beside each other.                      *)

\* Whosever behaviour it is, it is one of direction finding and one of audio.
THEOREM SidesApart == Spec => FinderSpec /\ AudioSpec
<1>1. Init => FinderInit /\ AudioInit
  BY DEF Init
<1>2. [Next]_dspVars => [FinderNext]_vars /\ [AudioNext]_audioVars
  BY DEF Next, dspVars, Bearing, Sound, Beam
<1> QED  BY <1>1, <1>2, PTL DEF Spec, FinderSpec, AudioSpec

\* In every behaviour of the three side by side frames move on and share no
\* sample, a source count changes on evidence alone, and no removal of a
\* decimator leaves the audio without a source.
THEOREM StepsCorrect == Spec => StepsSound
BY SidesApart, FramesAreNew, CountNeedsFrames, SourceKept DEF StepsSound
=============================================================================
