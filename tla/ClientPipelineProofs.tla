------------------------ MODULE ClientPipelineProofs ------------------------
(***************************************************************************)
(* The sample path of the client is sound for every number of workers,     *)
(* channels and places, every limit of the queues and any sequence of      *)
(* packets, retunes and resizes.                                           *)
(*                                                                         *)
(* ItemGood says what an item of FFT work may rely on while its generation *)
(* is that of the persistent buffer.  SizesAgree says why no worker is in  *)
(* a context whose size the averages do not have yet.  RetuneHeld says     *)
(* which packets may carry another frequency than the last one armed:      *)
(* those of before the hold, while it is on.                               *)
(***************************************************************************)
EXTENDS ClientPipeline, FiniteSetTheorems, SequenceTheorems,
        WellFoundedInduction, TLAPS

RxType == [pc : {"header", "reset", "fill", "update", "arm", "push"},
           packet : Packets, freq : 0 .. MaxRetunes,
           lastRef : None .. MaxRetunes, wasRetuning : BOOLEAN]
SwitchType == [active : Chan, wideband : BOOLEAN, doa : BOOLEAN]
TunedType == [freq : 0 .. MaxRetunes, hold : BOOLEAN, since : {0} \cup Ids, elements : Counts]
DecType == [pc : {"pop", "gate", "music", "spectrum", "copy", "enqueue"},
            packet : Packets, elements : 0 .. Channels, active : Chan \cup {0},
            wideband : BOOLEAN, todo : SUBSET Chan]
PbufType == [at : [1 .. Places -> {None} \cup Ids], pos : 0 .. Places, gen : Nat]
WorkType == [pc : {"idle", "count", "recheck", "enter", "verify", "store"}, item : Items,
             size : {0} \cup Sizes, seen : {None} \cup Ids, reset : BOOLEAN]
CtxType == [Chan -> [size : Sizes, holder : {None} \cup Workers]]
AvgType == [size : Sizes, mix : [Chan -> SUBSET ({Floor, Reset} \cup Ids)],
            lastGen : [Chan -> Nat]]
ShownType == [gen : Nat, valid : BOOLEAN, holder : {None} \cup Workers]
ResizerType == [pc : {"idle", "wait", "contexts", "arrays"}, size : {0} \cup Sizes,
                flag : BOOLEAN, active : Nat, todo : SUBSET Chan, gaveUp : BOOLEAN]
BudgetType == [packets : 0 .. MaxPackets, switches : 0 .. MaxSwitches,
               resizes : 0 .. MaxResizes]

Counted == {w \in Workers : worker[w].pc \notin {"idle", "count"}}

\* The place of an item of the present generation holds its packet, and the
\* copy under way is behind it.
Written == IF dec.pc = "enqueue" THEN pbuf.pos - 1 ELSE pbuf.pos
GoodIn(it, buf, written) ==
    /\ it.id \in Ids /\ it.place \in 1 .. Places /\ it.gen <= buf.gen
    /\ it.gen = buf.gen => it.place <= written /\ buf.at[it.place] = it.id
ItemGood(it) == GoodIn(it, pbuf, Written)

CopyGood ==
    /\ dec.pc = "enqueue" => pbuf.pos >= 1
    /\ dec.pc \in {"copy", "enqueue"} => dec.todo # {}
QueueGood == \A i \in DOMAIN fftq : ItemGood(fftq[i])
WorkerGood(k) ==
    /\ k.pc # "idle" => ItemGood(k.item)
    /\ k.pc = "verify" /\ k.item.gen = pbuf.gen => k.seen = k.item.id
    /\ k.pc = "store" => k.seen = k.item.id

ItemsGood == CopyGood /\ QueueGood /\ \A w \in Workers : WorkerGood(worker[w])

\* A worker is in a context only while all contexts have the averages' size.
SizesAgree ==
    /\ resizer.flag <=> resizer.pc # "idle"
    /\ resizer.pc # "idle" => resizer.size \in Sizes
    /\ ~resizer.gaveUp =>
          /\ resizer.pc \in {"idle", "wait"} => \A c \in Chan : ctx[c].size = avg.size
          /\ resizer.pc \in {"contexts", "arrays"} =>
                \A w \in Workers : worker[w].pc \notin {"enter", "verify", "store"}
          /\ resizer.pc = "contexts" => \A c \in Chan \ resizer.todo : ctx[c].size = resizer.size
          /\ resizer.pc = "arrays" => \A c \in Chan : ctx[c].size = resizer.size
          /\ \A w \in Workers :
                worker[w].pc \in {"verify", "store"} => worker[w].size = avg.size

\* Packets between the receiver and the end of the decimation thread's work.
InFlight == {raw[i] : i \in DOMAIN raw} \cup (IF dec.pc = "pop" THEN {} ELSE {dec.packet})
Received == MaxPackets - budget.packets - IF rx.pc = "header" THEN 0 ELSE 1

RetuneHeld ==
    /\ rx.pc # "header" => rx.packet.id \in Ids /\ rx.packet.id = Received
    /\ \A p \in InFlight :
          /\ p.id \in Ids /\ p.id < Received
          /\ p.freq # rx.lastRef => tuned.hold /\ p.id < tuned.since
    /\ rx.lastRef = None => InFlight = {}
    /\ rx.pc = "push" => rx.lastRef = rx.packet.freq
    /\ IF rx.pc = "arm" THEN tuned.freq = rx.packet.freq
       ELSE rx.lastRef # None => tuned.freq = rx.lastRef

CInv == TypeOK /\ ItemsGood /\ SizesAgree /\ RetuneHeld /\ MemoryAccounted

-----------------------------------------------------------------------------
(* The memory of a queue of packets. *)

LEMMA GivenPipeline ==
    /\ IsFiniteSet(Workers) /\ None \notin Workers
    /\ Counts \subseteq 1 .. Channels /\ Counts # {} /\ Sizes \subseteq Nat \ {0} /\ Sizes # {}
    /\ Channels \in Nat /\ Channels > 0 /\ Places \in Nat /\ Places > 0
    /\ MaxRaw \in Nat /\ MaxRaw > 0 /\ MaxMemory \in Nat /\ MaxMemory > 0
    /\ MaxQueued \in Nat /\ MaxQueued > 0 /\ MaxPackets \in Nat /\ MaxRetunes \in Nat
    /\ MaxSwitches \in Nat /\ MaxResizes \in Nat
BY PipelineAssumption

LEMMA LeastNat ==
    ASSUME NEW T, T \subseteq Nat, T # {}
    PROVE  \E x \in T : \A y \in T : x <= y
<1> DEFINE R == OpToRel(<, Nat)
<1>1. IsWellFoundedOn(R, Nat)
  BY NatLessThanWellFounded
<1>2. \A x, y \in Nat : y < x => <<y, x>> \in R
  BY DEF OpToRel
<1> HIDE DEF R
<1>3. PICK x \in T : \A y \in T : <<y, x>> \notin R
  BY <1>1, WFMin
<1>4. ASSUME NEW y \in T
      PROVE  x <= y
  <2>1. x \in Nat /\ y \in Nat /\ ~(y < x)
    BY <1>2, <1>3
  <2> QED  BY <2>1
<1> QED  BY <1>4

LEMMA Matched ==
    ASSUME NEW S, IsFiniteSet(S), NEW T, NEW f \in [S -> T],
           \A a, b \in S : f[a] = f[b] => a = b,
           \A t \in T : \E s \in S : f[s] = t
    PROVE  IsFiniteSet(T) /\ Cardinality(T) = Cardinality(S)
<1>1. f \in Injection(S, T)
  BY DEF Injection, IsInjective
<1>2. f \in Surjection(S, T)
  BY DEF Surjection
<1>3. ExistsBijection(S, T)
  BY <1>1, <1>2 DEF Bijection, ExistsBijection
<1> QED  BY <1>3, FS_Bijection

HeldBy(q) == {x \in (1 .. Len(q)) \X Chan : x[2] \in q[x[1]].converted}

LEMMA MemoryIs == \A q : MemoryOf(q) = Cardinality(HeldBy(q))
BY DEF MemoryOf, HeldBy

LEMMA HeldFinite ==
    ASSUME NEW q, Len(q) \in Nat
    PROVE  IsFiniteSet(HeldBy(q)) /\ MemoryOf(q) \in Nat
<1> DEFINE P == (1 .. Len(q)) \X Chan
<1>1. IsFiniteSet(1 .. Len(q)) /\ IsFiniteSet(Chan)
  BY GivenPipeline, FS_Interval DEF Chan
<1>2. IsFiniteSet(P)
  BY <1>1, FS_Product
<1>3. HeldBy(q) \in SUBSET P
  BY DEF HeldBy
<1> HIDE DEF P
<1>4. IsFiniteSet(HeldBy(q))
  BY <1>2, <1>3, FS_Subset
<1> QED  BY <1>4, FS_CardinalityType, MemoryIs

\* The memory of a queue is that of its first k packets and of the others.
LEMMA MemorySplit ==
    ASSUME NEW S, NEW q \in Seq(S), NEW k \in 0 .. Len(q)
    PROVE  MemoryOf(q) = MemoryOf(SubSeq(q, 1, k)) + MemoryOf(SubSeq(q, k + 1, Len(q)))
<1> DEFINE n == Len(q)  s == SubSeq(q, 1, k)  t == SubSeq(q, k + 1, n)
           A == {x \in HeldBy(q) : x[1] <= k}  B == {x \in HeldBy(q) : ~(x[1] <= k)}
<1>1. n \in Nat /\ k \in Nat /\ k <= n /\ \A i \in 1 .. n : q[i] \in S
  BY LenProperties, ElementOfSeq
<1>2. s \in Seq(S) /\ Len(s) = k /\ \A i \in 1 .. k : s[i] = q[i]
  <2>1. \A i \in 1 .. k : q[i] \in S
    BY <1>1
  <2>2. /\ s \in Seq(S) /\ Len(s) = IF 1 <= k THEN k - 1 + 1 ELSE 0
        /\ \A i \in 1 .. k - 1 + 1 : s[i] = q[1 + i - 1]
    BY <1>1, <2>1, SubSeqProperties
  <2> HIDE DEF s
  <2>3. Len(s) = k
    BY <1>1, <2>2
  <2>4. \A i \in 1 .. k : i \in 1 .. k - 1 + 1 /\ 1 + i - 1 = i
    BY <1>1
  <2> QED  BY <2>2, <2>3, <2>4
<1>3. t \in Seq(S) /\ Len(t) = n - k /\ \A i \in 1 .. n - k : t[i] = q[i + k]
  <2>1. \A i \in k + 1 .. n : q[i] \in S
    BY <1>1
  <2>2. k + 1 \in Int /\ n \in Int
    BY <1>1
  <2>3. /\ t \in Seq(S) /\ Len(t) = IF k + 1 <= n THEN n - (k + 1) + 1 ELSE 0
        /\ \A i \in 1 .. n - (k + 1) + 1 : t[i] = q[k + 1 + i - 1]
    BY <2>1, <2>2, SubSeqProperties
  <2> HIDE DEF t, n
  <2>4. Len(t) = n - k
    BY <1>1, <2>3
  <2>5. \A i \in 1 .. n - k : i \in 1 .. n - (k + 1) + 1 /\ k + 1 + i - 1 = i + k
    BY <1>1
  <2> QED  BY <2>3, <2>4, <2>5
<1> HIDE DEF s, t, n
<1>4. IsFiniteSet(HeldBy(q)) /\ IsFiniteSet(HeldBy(s)) /\ IsFiniteSet(HeldBy(t))
  <2>1. Len(q) \in Nat /\ Len(s) \in Nat /\ Len(t) \in Nat
    BY <1>1, <1>2, <1>3 DEF n
  <2> QED  BY <2>1, HeldFinite
<1>5. A \in SUBSET HeldBy(q) /\ B \in SUBSET HeldBy(q) /\ HeldBy(q) = A \cup B /\ A \cap B = {}
  OBVIOUS
<1>6. A = HeldBy(s)
  <2>1. \A i, c : <<i, c>> \in A <=> i \in 1 .. k /\ c \in Chan /\ c \in q[i].converted
    BY <1>1 DEF HeldBy, n
  <2>2. \A i, c : <<i, c>> \in HeldBy(s) <=> i \in 1 .. k /\ c \in Chan /\ c \in q[i].converted
    BY <1>2 DEF HeldBy
  <2>3. \A x \in A \cup HeldBy(s) : x = <<x[1], x[2]>>
    BY DEF HeldBy
  <2> QED  BY <2>1, <2>2, <2>3
<1>7. Cardinality(B) = Cardinality(HeldBy(t))
  <2> DEFINE f == [x \in HeldBy(t) |-> <<x[1] + k, x[2]>>]
  <2>1. \A i, c : <<i, c>> \in B <=> i \in k + 1 .. n /\ c \in Chan /\ c \in q[i].converted
    BY <1>1 DEF HeldBy, n
  <2>2. \A i, c : <<i, c>> \in HeldBy(t) <=> i \in 1 .. n - k /\ c \in Chan /\ c \in q[i + k].converted
    BY <1>3 DEF HeldBy
  <2>3. \A x \in HeldBy(t) : x = <<x[1], x[2]>> /\ x[1] \in 1 .. n - k
    BY <1>3 DEF HeldBy
  <2>4. \A x \in B : x = <<x[1], x[2]>> /\ x[1] \in k + 1 .. n
    BY <1>1 DEF HeldBy, n
  <2> HIDE DEF B
  <2>5. f \in [HeldBy(t) -> B]
    <3> SUFFICES ASSUME NEW x \in HeldBy(t)
                 PROVE  <<x[1] + k, x[2]>> \in B
      OBVIOUS
    <3>1. x[1] \in 1 .. n - k /\ x[2] \in Chan /\ x[2] \in q[x[1] + k].converted
      BY <2>2, <2>3
    <3>2. x[1] + k \in k + 1 .. n
      BY <1>1, <3>1
    <3> QED  BY <2>1, <3>1, <3>2
  <2>6. \A x, y \in HeldBy(t) : f[x] = f[y] => x = y
    <3> SUFFICES ASSUME NEW x \in HeldBy(t), NEW y \in HeldBy(t), f[x] = f[y]
                 PROVE  x = y
      OBVIOUS
    <3>1. x[1] + k = y[1] + k /\ x[2] = y[2]
      OBVIOUS
    <3>2. x[1] \in Int /\ y[1] \in Int
      BY <2>3
    <3>3. x[1] = y[1]
      BY <1>1, <3>1, <3>2
    <3> QED  BY <2>3, <3>1, <3>3
  <2>7. \A y \in B : \E x \in HeldBy(t) : f[x] = y
    <3> SUFFICES ASSUME NEW y \in B
                 PROVE  \E x \in HeldBy(t) : f[x] = y
      OBVIOUS
    <3> DEFINE x == <<y[1] - k, y[2]>>
    <3>1. y[1] \in k + 1 .. n /\ y[2] \in Chan /\ y[2] \in q[y[1]].converted /\ y = <<y[1], y[2]>>
      BY <2>1, <2>4
    <3>2. y[1] - k \in 1 .. n - k /\ (y[1] - k) + k = y[1]
      BY <1>1, <3>1
    <3>3. x \in HeldBy(t)
      BY <2>2, <3>1, <3>2
    <3>4. f[x] = y
      BY <3>1, <3>2, <3>3
    <3> QED  BY <3>3, <3>4
  <2> HIDE DEF f
  <2> QED  BY <1>4, <2>5, <2>6, <2>7, Matched
<1> HIDE DEF A, B
<1>8. IsFiniteSet(A) /\ IsFiniteSet(B) /\ Cardinality(A) \in Nat /\ Cardinality(B) \in Nat
  BY <1>4, <1>5, FS_Subset, FS_CardinalityType
<1>9. Cardinality(HeldBy(q)) = Cardinality(A) + Cardinality(B) - 0
  BY <1>5, <1>8, FS_Union, FS_EmptySet
<1>10. MemoryOf(q) = MemoryOf(s) + MemoryOf(t)
  BY <1>6, <1>7, <1>8, <1>9, MemoryIs
<1> QED  BY <1>10 DEF s, t, n

LEMMA MemoryOne ==
    ASSUME NEW p, p.converted \subseteq Chan
    PROVE  MemoryOf(<<p>>) = MemoryUsage(p) /\ MemoryUsage(p) \in Nat
<1> DEFINE C == p.converted  f == [c \in C |-> <<1, c>>]  H == HeldBy(<<p>>)
<1>1. IsFiniteSet(C)
  <2>1. IsFiniteSet(Chan)
    BY GivenPipeline, FS_Interval DEF Chan
  <2> QED  BY <2>1, FS_Subset
<1>2. H = {x \in {1} \X Chan : x[2] \in C}
  BY DEF HeldBy
<1>3. f \in [C -> H] /\ (\A a, b \in C : f[a] = f[b] => a = b) /\ \A t \in H : \E c \in C : f[c] = t
  BY <1>2
<1> HIDE DEF f, H, C
<1>4. Cardinality(H) = Cardinality(C) /\ Cardinality(C) \in Nat
  BY <1>1, <1>3, Matched, FS_CardinalityType
<1> QED  BY <1>4, MemoryIs DEF MemoryUsage, H, C

LEMMA OneOf ==
    ASSUME NEW S, NEW s \in Seq(S), NEW i \in 1 .. Len(s)
    PROVE  SubSeq(s, i, i) = <<s[i]>>
<1> DEFINE t == SubSeq(s, i, i)  u == <<s[i]>>
<1>1. i \in Int /\ \A j \in i .. i : s[j] \in S
  BY LenProperties, ElementOfSeq
<1>2. t \in Seq(S) /\ Len(t) = (IF i <= i THEN i - i + 1 ELSE 0)
      /\ \A j \in 1 .. i - i + 1 : t[j] = s[i + j - 1]
  BY <1>1, SubSeqProperties
<1>3. i - i + 1 = 1 /\ i + 1 - 1 = i /\ i <= i
  BY <1>1
<1>4. u \in Seq(S) /\ Len(u) = 1 /\ u[1] = s[i]
  BY ElementOfSeq
<1> HIDE DEF t, u
<1>5. Len(t) = 1 /\ t[1] = s[i]
  BY <1>2, <1>3
<1>6. Len(t) = Len(u) /\ \A j \in 1 .. Len(t) : t[j] = u[j]
  BY <1>4, <1>5
<1>7. t = u
  BY <1>2, <1>4, <1>6, SeqEqual
<1> QED  BY <1>7 DEF t, u

LEMMA MemoryAppend ==
    ASSUME NEW q \in Seq(Packets), NEW p \in Packets
    PROVE  MemoryOf(Append(q, p)) = MemoryOf(q) + MemoryUsage(p)
<1> DEFINE r == Append(q, p)  n == Len(q)
<1>1. r \in Seq(Packets) /\ Len(r) = n + 1 /\ n \in Nat
  BY AppendProperties, LenProperties
<1>2. SubSeq(r, 1, n) = q
  OBVIOUS
<1>3. SubSeq(r, n + 1, Len(r)) = <<p>>
  <2>1. r[n + 1] = p
    BY AppendProperties
  <2> HIDE DEF r, n
  <2>2. n + 1 \in 1 .. Len(r)
    BY <1>1
  <2>3. SubSeq(r, n + 1, n + 1) = <<r[n + 1]>>
    BY <1>1, <2>2, OneOf
  <2> QED  BY <1>1, <2>1, <2>3
<1> HIDE DEF r
<1>4. n \in 0 .. Len(r)
  BY <1>1
<1>5. MemoryOf(r) = MemoryOf(SubSeq(r, 1, n)) + MemoryOf(SubSeq(r, n + 1, Len(r)))
  BY <1>1, <1>4, MemorySplit
<1>6. p.converted \subseteq Chan
  BY DEF Packets
<1> QED  BY <1>2, <1>3, <1>5, <1>6, MemoryOne DEF r

LEMMA MemoryTail ==
    ASSUME NEW q \in Seq(Packets), q # <<>>
    PROVE  /\ MemoryOf(Tail(q)) = MemoryOf(q) - MemoryUsage(Head(q)) /\ MemoryOf(q) \in Nat
           /\ MemoryOf(Tail(q)) \in Nat
<1>1. Len(q) \in Nat /\ Len(q) > 0 /\ Head(q) \in Packets /\ Len(Tail(q)) \in Nat
  BY EmptySeq, HeadTailProperties, LenProperties
<1>2. 1 \in 0 .. Len(q)
  BY <1>1
<1>3. MemoryOf(q) = MemoryOf(SubSeq(q, 1, 1)) + MemoryOf(SubSeq(q, 1 + 1, Len(q)))
  BY <1>2, MemorySplit
<1>4. SubSeq(q, 1, 1) = <<Head(q)>>
  <2>1. 1 \in 1 .. Len(q) /\ Head(q) = q[1]
    BY <1>1
  <2> QED  BY <2>1, OneOf
<1>5. SubSeq(q, 1 + 1, Len(q)) = Tail(q)
  BY TailIsSubSeq
<1>6. MemoryOf(<<Head(q)>>) = MemoryUsage(Head(q)) /\ MemoryUsage(Head(q)) \in Nat
  BY <1>1, MemoryOne DEF Packets
<1>7. MemoryOf(q) \in Nat /\ MemoryOf(Tail(q)) \in Nat
  BY <1>1, HeldFinite
<1> DEFINE x == MemoryOf(q)  y == MemoryOf(Tail(q))  z == MemoryUsage(Head(q))
<1>8. x = z + y /\ x \in Nat /\ y \in Nat /\ z \in Nat
  BY <1>3, <1>4, <1>5, <1>6, <1>7
<1> HIDE DEF x, y, z
<1>9. y = x - z
  BY <1>8
<1> QED  BY <1>8, <1>9 DEF x, y, z

\* The eviction by either limit ends with a queue that keeps both.
LEMMA ExcessFits ==
    ASSUME NEW q \in Seq(Packets)
    PROVE  /\ Excess(q) \in 0 .. Len(q)
           /\ MemoryOf(SubSeq(q, Excess(q) + 1, Len(q))) <= MaxMemory
           /\ Len(SubSeq(q, Excess(q) + 1, Len(q))) <= MaxRaw
<1> DEFINE fits(j) == LET rest == SubSeq(q, j + 1, Len(q)) IN
                      MemoryOf(rest) <= MaxMemory /\ Len(rest) <= MaxRaw
           T == {j \in 0 .. Len(q) : fits(j)}
<1>1. Len(q) \in Nat
  BY LenProperties
<1>2. Len(q) \in T
  <2>1. SubSeq(q, Len(q) + 1, Len(q)) = <<>>
    BY <1>1, SubSeqEmpty
  <2>2. MemoryOf(<<>>) = 0
    <3>1. HeldBy(<<>>) = {}
      BY DEF HeldBy
    <3> QED  BY <3>1, MemoryIs, FS_EmptySet
  <2>3. 0 <= MaxMemory /\ Len(<<>>) <= MaxRaw
    BY GivenPipeline
  <2>4. fits(Len(q))
    BY <2>1, <2>2, <2>3
  <2> QED  BY <1>1, <2>4
<1>3. PICK k \in T : \A j \in T : k <= j
  <2>1. T \subseteq Nat /\ T # {}
    BY <1>2
  <2> HIDE DEF T
  <2> QED  BY <2>1, LeastNat
<1>4. fits(k) /\ k \in 0 .. Len(q)
  BY <1>3
<1> HIDE DEF fits
<1>5. \A j \in 0 .. k - 1 : ~fits(j)
  <2> SUFFICES ASSUME NEW j \in 0 .. k - 1, fits(j)
               PROVE  FALSE
    OBVIOUS
  <2>1. j \in 0 .. Len(q) /\ ~(k <= j)
    BY <1>1, <1>4
  <2> QED  BY <1>3, <2>1
<1>6. Excess(q) = CHOOSE i \in 0 .. Len(q) : fits(i) /\ \A j \in 0 .. i - 1 : ~fits(j)
  BY DEF Excess, fits
<1>7. Excess(q) \in 0 .. Len(q) /\ fits(Excess(q))
  BY <1>4, <1>5, <1>6
<1> QED  BY <1>7 DEF fits

-----------------------------------------------------------------------------
(* Types, and the parts of the invariant a step leaves alone. *)

Types ==
    /\ rx \in RxType /\ raw \in Seq(Packets) /\ Len(raw) <= MaxRaw
    /\ memory \in 0 .. MaxMemory /\ switches \in SwitchType /\ tuned \in TunedType
    /\ dec \in DecType /\ pbuf \in PbufType /\ fftq \in Seq(Items) /\ Len(fftq) <= MaxQueued
    /\ worker \in [Workers -> WorkType] /\ ctx \in CtxType /\ avg \in AvgType
    /\ shown \in ShownType /\ resizer \in ResizerType /\ budget \in BudgetType
    /\ resizer.active = Cardinality(Counted)

LEMMA TypesAre == TypeOK <=> Types
BY DEF TypeOK, Types, RxType, SwitchType, TunedType, DecType, PbufType, WorkType, CtxType,
       AvgType, ShownType, ResizerType, BudgetType, Counted

LEMMA TypesNext == TypeOK' <=> Types'
BY TypesAre, PTL

LEMMA AllTogether ==
    ASSUME Types', ItemsGood', SizesAgree', RetuneHeld', MemoryAccounted'
    PROVE  CInv'
BY TypesNext DEF CInv

LEMMA AtStart ==
    /\ NoPacket \in Packets /\ NoItem \in Items /\ Popping \in DecType /\ AtRest \in WorkType
    /\ Floor # Reset /\ Popping.pc = "pop" /\ AtRest.pc = "idle"
<1>1. /\ 0 \in Chan /\ 0 \in 0 .. MaxRetunes /\ 0 \in 0 .. Channels /\ 0 \in 0 .. Places
      /\ 0 \in Nat /\ 0 - 1 \notin Nat
  BY GivenPipeline DEF Chan
<1>2. NoPacket \in Packets
  BY <1>1 DEF NoPacket, Packets
<1>3. NoItem \in Items
  BY <1>1 DEF NoItem, Items
<1>4. Popping \in DecType
  BY <1>1, <1>2 DEF Popping, DecType
<1>5. AtRest \in WorkType
  BY <1>3 DEF AtRest, WorkType
<1> QED  BY <1>2, <1>3, <1>4, <1>5 DEF Floor, Reset, Popping, AtRest

\* What a step that changes the persistent buffer owes to the items of before.
LEMMA ItemsCarried ==
    ASSUME Types, \A w \in Workers : WorkerGood(worker[w]), worker' = worker,
           \A it \in Items : ItemGood(it) =>
               GoodIn(it, pbuf', Written') /\ (it.gen = pbuf'.gen => it.gen = pbuf.gen)
    PROVE  \A w \in Workers : WorkerGood(worker[w])'
<1> SUFFICES ASSUME NEW w \in Workers
             PROVE  WorkerGood(worker[w])'
  OBVIOUS
<1>1. worker[w].item \in Items /\ WorkerGood(worker[w])
  BY DEF Types, WorkType
<1> QED  BY <1>1 DEF WorkerGood, ItemGood

LEMMA ItemsKept ==
    ASSUME ItemsGood, pbuf' = pbuf, fftq' = fftq \/ fftq' = <<>>, worker' = worker,
           dec'.pc = "enqueue" <=> dec.pc = "enqueue",
           dec'.pc \in {"copy", "enqueue"} => dec'.todo # {}
    PROVE  ItemsGood'
<1>1. Written' = Written
  BY DEF Written
<1>2. DOMAIN <<>> = {}
  OBVIOUS
<1>3. QueueGood'
  <2>1. CASE fftq' = fftq
    BY <1>1, <2>1 DEF ItemsGood, QueueGood, ItemGood
  <2>2. CASE fftq' = <<>>
    BY <1>2, <2>2 DEF QueueGood
  <2> QED  BY <2>1, <2>2
<1>4. \A w \in Workers : WorkerGood(worker[w])'
  BY <1>1 DEF ItemsGood, WorkerGood, ItemGood
<1>5. CopyGood'
  BY DEF ItemsGood, CopyGood
<1> QED  BY <1>3, <1>4, <1>5 DEF ItemsGood

LEMMA SizesKept ==
    ASSUME SizesAgree, worker' = worker, ctx' = ctx, avg'.size = avg.size, resizer' = resizer
    PROVE  SizesAgree'
BY DEF SizesAgree

LEMMA InFlightKept ==
    ASSUME raw' = raw, dec'.pc = "pop" \/ (dec.pc # "pop" /\ dec'.packet = dec.packet)
    PROVE  InFlight' \subseteq InFlight
BY DEF InFlight

LEMMA RetuneKept ==
    ASSUME RetuneHeld, rx' = rx, budget'.packets = budget.packets, tuned' = tuned,
           InFlight' \subseteq InFlight
    PROVE  RetuneHeld'
<1>1. Received' = Received
  BY DEF Received
<1>2. \A p \in InFlight' : p \in InFlight
  OBVIOUS
<1> QED  BY <1>1, <1>2 DEF RetuneHeld

LEMMA MemoryKept ==
    ASSUME MemoryAccounted, raw' = raw, memory' = memory
    PROVE  MemoryAccounted'
BY DEF MemoryAccounted

-----------------------------------------------------------------------------
(* The receiver. *)

\* What no step of the receiver touches.
LEMMA ReceiverLeaves ==
    ASSUME CInv, Receiver
    PROVE  /\ ItemsGood' /\ SizesAgree'
           /\ switches' = switches /\ dec' = dec /\ pbuf' = pbuf /\ worker' = worker
           /\ ctx' = ctx /\ resizer' = resizer /\ fftq' \in Seq(Items) /\ Len(fftq') <= MaxQueued
           /\ Counted' = Counted
<1>1. /\ switches' = switches /\ dec' = dec /\ pbuf' = pbuf /\ worker' = worker
      /\ ctx' = ctx /\ resizer' = resizer
  BY DEF Receiver, RecvHeader, RecvReset, RecvFill, RecvUpdate, RecvArm, RecvPush
<1>2. fftq' = fftq \/ fftq' = <<>>
  BY DEF Receiver, RecvHeader, RecvReset, RecvFill, RecvUpdate, RecvArm, RecvPush
<1>3. avg' = avg \/ avg' = [avg EXCEPT !.mix = [c \in Chan |-> {Reset}]]
  BY DEF Receiver, RecvHeader, RecvReset, RecvFill, RecvUpdate, RecvArm, RecvPush
<1>4. Types
  BY TypesAre DEF CInv
<1>5. avg'.size = avg.size
  BY <1>3, <1>4 DEF Types, AvgType
<1>6. ItemsGood' /\ SizesAgree'
  BY <1>1, <1>2, <1>5, ItemsKept, SizesKept DEF CInv, ItemsGood, CopyGood
<1>7. fftq' \in Seq(Items) /\ Len(fftq') <= MaxQueued
  <2>1. <<>> \in Seq(Items) /\ Len(<<>>) <= MaxQueued
    BY GivenPipeline
  <2> QED  BY <1>2, <1>4, <2>1 DEF Types
<1>8. Counted' = Counted
  BY <1>1 DEF Counted
<1> QED  BY <1>1, <1>6, <1>7, <1>8

LEMMA HeaderKeeps == CInv /\ RecvHeader => CInv'
<1> SUFFICES ASSUME CInv, RecvHeader
             PROVE  CInv'
  OBVIOUS
<1>1. /\ Types /\ Receiver /\ rx.pc = "header" /\ budget.packets > 0
      /\ budget' = [budget EXCEPT !.packets = budget.packets - 1]
      /\ raw' = raw /\ memory' = memory /\ switches' = switches /\ avg' = avg /\ shown' = shown
  BY TypesAre DEF CInv, Receiver, RecvHeader
<1>2. PICK f \in rx.freq .. Least(rx.freq + 1, MaxRetunes), r \in BOOLEAN, n \in Counts :
        LET p == [NoPacket EXCEPT !.id = MaxPackets - budget.packets,
                                    !.freq = f, !.retuning = r, !.n = n]
            completed == rx.wasRetuning /\ ~r
        IN  /\ rx' = [rx EXCEPT !.packet = p, !.freq = f, !.wasRetuning = r,
                         !.pc = IF completed /\ ~switches.wideband
                                THEN "reset" ELSE "update"]
            /\ tuned' = IF completed THEN Hold(tuned, p) ELSE tuned
  BY DEF RecvHeader
<1> DEFINE id == MaxPackets - budget.packets
           p == [NoPacket EXCEPT !.id = id, !.freq = f, !.retuning = r, !.n = n]
           pc == IF (rx.wasRetuning /\ ~r) /\ ~switches.wideband THEN "reset" ELSE "update"
<1>3. id \in Ids /\ budget.packets \in 0 .. MaxPackets /\ budget.packets - 1 \in 0 .. MaxPackets
  <2>1. budget.packets \in 0 .. MaxPackets
    BY <1>1 DEF Types, BudgetType
  <2> QED  BY <1>1, <2>1, GivenPipeline DEF Ids
<1>4. f \in 0 .. MaxRetunes
  <2>1. rx.freq \in 0 .. MaxRetunes
    BY <1>1 DEF Types, RxType
  <2> QED  BY <2>1, GivenPipeline DEF Least
<1> HIDE DEF id
<1>5. p \in Packets /\ p.id = id
  BY <1>3, <1>4, AtStart DEF Packets
<1>6. /\ rx' = [rx EXCEPT !.packet = p, !.freq = f, !.wasRetuning = r, !.pc = pc]
      /\ tuned' = tuned \/ tuned' = Hold(tuned, p)
  BY <1>2 DEF id
<1> HIDE DEF p
<1>7. pc \in {"reset", "update"}
  OBVIOUS
<1> HIDE DEF pc
<1>8. rx' \in RxType /\ rx'.pc = pc /\ rx'.packet = p /\ rx'.lastRef = rx.lastRef
  BY <1>1, <1>4, <1>5, <1>6, <1>7 DEF Types, RxType
<1>9. /\ tuned' \in TunedType /\ tuned'.freq = tuned.freq
      /\ (tuned' = tuned \/ (tuned'.hold = TRUE /\ tuned'.since = id))
  <2>1. tuned \in TunedType
    BY <1>1 DEF Types
  <2>2. CASE tuned' = tuned
    BY <2>1, <2>2
  <2>3. CASE tuned' = Hold(tuned, p)
    BY <1>3, <1>5, <2>1, <2>3 DEF Hold, TunedType
  <2> QED  BY <1>6, <2>2, <2>3
<1>10. budget' \in BudgetType /\ budget'.packets = budget.packets - 1
  BY <1>1, <1>3 DEF Types, BudgetType
<1>11. Received = id /\ Received' = id
  <2>1. Received = id - 0
    BY <1>1 DEF Received, id
  <2>2. Received' = MaxPackets - (budget.packets - 1) - 1
    BY <1>7, <1>8, <1>10 DEF Received
  <2> QED  BY <1>3, <2>1, <2>2, GivenPipeline DEF id, Ids
<1>12. InFlight' = InFlight
  BY <1>1, ReceiverLeaves DEF InFlight
<1>13. RetuneHeld'
  BY <1>1, <1>3, <1>5, <1>7, <1>8, <1>9, <1>11, <1>12 DEF CInv, RetuneHeld
<1>14. Types'
  BY <1>1, <1>8, <1>9, <1>10, ReceiverLeaves DEF Types
<1>15. MemoryAccounted'
  BY <1>1, MemoryKept DEF CInv
<1> QED  BY <1>1, <1>13, <1>14, <1>15, ReceiverLeaves, AllTogether

LEMMA ResetKeeps == CInv /\ RecvReset => CInv'
<1> SUFFICES ASSUME CInv, RecvReset
             PROVE  CInv'
  OBVIOUS
<1>1. /\ Types /\ Receiver /\ rx.pc = "reset" /\ budget' = budget /\ raw' = raw
      /\ memory' = memory /\ switches' = switches /\ avg' = avg /\ tuned' = tuned
      /\ shown' = [shown EXCEPT !.gen = shown.gen + 1, !.valid = FALSE]
      /\ rx' = [rx EXCEPT !.pc = "fill"]
  BY TypesAre DEF CInv, Receiver, RecvReset
<1>2. shown' \in ShownType
  <2> DEFINE g == shown.gen + 1
  <2>1. shown \in ShownType /\ shown' = [shown EXCEPT !.gen = g, !.valid = FALSE]
    BY <1>1 DEF Types
  <2>2. g \in Nat
    BY <2>1 DEF ShownType
  <2> HIDE DEF g
  <2> QED  BY <2>1, <2>2 DEF ShownType
<1>3. rx' \in RxType /\ rx'.pc = "fill" /\ rx'.packet = rx.packet /\ rx'.lastRef = rx.lastRef
  BY <1>1 DEF Types, RxType
<1>4. InFlight' = InFlight
  BY <1>1, ReceiverLeaves DEF InFlight
<1>5. Received' = Received
  BY <1>1, <1>3 DEF Received
<1>6. RetuneHeld'
  BY <1>1, <1>3, <1>4, <1>5 DEF CInv, RetuneHeld
<1>7. Types'
  BY <1>1, <1>2, <1>3, ReceiverLeaves DEF Types
<1>8. MemoryAccounted'
  BY <1>1, MemoryKept DEF CInv
<1> QED  BY <1>1, <1>6, <1>7, <1>8, ReceiverLeaves, AllTogether

LEMMA FillKeeps == CInv /\ RecvFill => CInv'
<1> SUFFICES ASSUME CInv, RecvFill
             PROVE  CInv'
  OBVIOUS
<1>1. /\ Types /\ Receiver /\ rx.pc = "fill" /\ budget' = budget /\ raw' = raw
      /\ memory' = memory /\ switches' = switches /\ shown' = shown /\ tuned' = tuned
      /\ avg' = [avg EXCEPT !.mix = [c \in Chan |-> {Reset}]]
      /\ rx' = [rx EXCEPT !.pc = "update"]
  BY TypesAre DEF CInv, Receiver, RecvFill
<1>2. avg' \in AvgType
  <2>1. [c \in Chan |-> {Reset}] \in [Chan -> SUBSET ({Floor, Reset} \cup Ids)]
    OBVIOUS
  <2> QED  BY <1>1, <2>1 DEF Types, AvgType
<1>3. rx' \in RxType /\ rx'.pc = "update" /\ rx'.packet = rx.packet /\ rx'.lastRef = rx.lastRef
  BY <1>1 DEF Types, RxType
<1>4. InFlight' = InFlight
  BY <1>1, ReceiverLeaves DEF InFlight
<1>5. Received' = Received
  BY <1>1, <1>3 DEF Received
<1>6. RetuneHeld'
  BY <1>1, <1>3, <1>4, <1>5 DEF CInv, RetuneHeld
<1>7. Types'
  BY <1>1, <1>2, <1>3, ReceiverLeaves DEF Types
<1>8. MemoryAccounted'
  BY <1>1, MemoryKept DEF CInv
<1> QED  BY <1>1, <1>6, <1>7, <1>8, ReceiverLeaves, AllTogether

LEMMA UpdateKeeps == CInv /\ RecvUpdate => CInv'
<1> SUFFICES ASSUME CInv, RecvUpdate
             PROVE  CInv'
  OBVIOUS
<1>1. /\ Types /\ Receiver /\ rx.pc = "update" /\ budget' = budget /\ raw' = raw
      /\ memory' = memory /\ switches' = switches /\ shown' = shown /\ avg' = avg
      /\ tuned' = [tuned EXCEPT !.freq = rx.packet.freq]
      /\ rx' = [rx EXCEPT !.pc = "arm"]
  BY TypesAre DEF CInv, Receiver, RecvUpdate
<1>2. rx.packet.freq \in 0 .. MaxRetunes
  BY <1>1 DEF Types, RxType, Packets
<1>3. rx' \in RxType /\ rx'.pc = "arm" /\ rx'.packet = rx.packet /\ rx'.lastRef = rx.lastRef
  BY <1>1 DEF Types, RxType
<1>4. /\ tuned' \in TunedType /\ tuned'.freq = rx.packet.freq /\ tuned'.hold = tuned.hold
      /\ tuned'.since = tuned.since
  BY <1>1, <1>2 DEF Types, TunedType
<1>5. InFlight' = InFlight
  BY <1>1, ReceiverLeaves DEF InFlight
<1>6. Received' = Received
  BY <1>1, <1>3 DEF Received
<1>7. RetuneHeld'
  BY <1>1, <1>3, <1>4, <1>5, <1>6 DEF CInv, RetuneHeld
<1>8. Types'
  BY <1>1, <1>3, <1>4, ReceiverLeaves DEF Types
<1>9. MemoryAccounted'
  BY <1>1, MemoryKept DEF CInv
<1> QED  BY <1>1, <1>7, <1>8, <1>9, ReceiverLeaves, AllTogether

LEMMA ArmKeeps == CInv /\ RecvArm => CInv'
<1> SUFFICES ASSUME CInv, RecvArm
             PROVE  CInv'
  OBVIOUS
<1> DEFINE pc == IF rx.packet.retuning THEN "header" ELSE "push"
           packet == IF rx.packet.retuning THEN NoPacket ELSE rx.packet
<1>1. /\ Types /\ Receiver /\ rx.pc = "arm" /\ budget' = budget /\ raw' = raw
      /\ memory' = memory /\ switches' = switches /\ shown' = shown /\ avg' = avg
      /\ tuned' = IF rx.lastRef \notin {None, rx.packet.freq}
                  THEN Hold(tuned, rx.packet) ELSE tuned
      /\ rx' = [rx EXCEPT !.lastRef = rx.packet.freq, !.pc = pc, !.packet = packet]
  BY TypesAre DEF CInv, Receiver, RecvArm
<1>2. /\ rx.packet \in Packets /\ rx.packet.freq \in 0 .. MaxRetunes /\ rx.packet.id \in Ids
      /\ rx.packet.id = Received
  BY <1>1 DEF CInv, RetuneHeld, Types, RxType, Packets
<1>3. pc \in {"header", "push"} /\ packet \in Packets /\ (pc = "push" => packet = rx.packet)
  BY <1>2, AtStart
<1> HIDE DEF pc, packet
<1>4. rx.packet.freq \in None .. MaxRetunes /\ rx.packet.freq # None
  BY <1>2, GivenPipeline DEF None
<1>5. rx' \in RxType /\ rx'.pc = pc /\ rx'.packet = packet /\ rx'.lastRef = rx.packet.freq
  BY <1>1, <1>3, <1>4 DEF Types, RxType
<1>6. tuned' \in TunedType /\ tuned'.freq = tuned.freq
  <2>1. tuned \in TunedType
    BY <1>1 DEF Types
  <2>2. Hold(tuned, rx.packet) \in TunedType /\ Hold(tuned, rx.packet).freq = tuned.freq
    BY <1>2, <2>1 DEF Hold, TunedType
  <2> QED  BY <1>1, <2>1, <2>2
<1>7. rx.lastRef \notin {None, rx.packet.freq} =>
         tuned'.hold = TRUE /\ tuned'.since = rx.packet.id
  <2>1. tuned \in TunedType
    BY <1>1 DEF Types
  <2> QED  BY <1>1, <2>1 DEF Hold, TunedType
<1>8. InFlight' = InFlight
  BY <1>1, ReceiverLeaves DEF InFlight
<1>9. Received \in Int /\ Received' \in Int /\ Received <= Received'
      /\ (pc = "push" => Received' = Received)
  <2>1. budget.packets \in 0 .. MaxPackets
    BY <1>1 DEF Types, BudgetType
  <2> QED  BY <1>1, <1>3, <1>5, <2>1, GivenPipeline DEF Received
<1>10. \A p \in InFlight :
         p.id \in Ids /\ p.id < Received' /\ (p.freq # rx'.lastRef => tuned'.hold /\ p.id < tuned'.since)
  <2> SUFFICES ASSUME NEW p \in InFlight
               PROVE  /\ p.id \in Ids /\ p.id < Received'
                      /\ (p.freq # rx'.lastRef => tuned'.hold /\ p.id < tuned'.since)
    OBVIOUS
  <2>1. /\ p.id \in Ids /\ p.id < Received /\ rx.lastRef # None
        /\ (p.freq # rx.lastRef => tuned.hold /\ p.id < tuned.since)
    BY DEF CInv, RetuneHeld
  <2>2. p.id < Received'
    BY <1>9, <2>1 DEF Ids
  <2>3. CASE rx.lastRef = rx.packet.freq
    BY <1>1, <1>5, <2>1, <2>2, <2>3
  <2>4. CASE rx.lastRef # rx.packet.freq
    BY <1>2, <1>7, <2>1, <2>2, <2>4
  <2> QED  BY <2>3, <2>4
<1>11. tuned.freq = rx.packet.freq
  BY <1>1 DEF CInv, RetuneHeld
<1>12. RetuneHeld'
  BY <1>2, <1>3, <1>4, <1>5, <1>6, <1>8, <1>9, <1>10, <1>11 DEF RetuneHeld
<1>13. Types'
  BY <1>1, <1>5, <1>6, ReceiverLeaves DEF Types
<1>14. MemoryAccounted'
  BY <1>1, MemoryKept DEF CInv
<1> QED  BY <1>1, <1>12, <1>13, <1>14, ReceiverLeaves, AllTogether

\* What the receiver converts are channels of the packet.
LEMMA ConvertsChannels ==
    ASSUME NEW n \in Counts \cup {1}, NEW e \in Counts
    PROVE  ToConvert(n, e) \subseteq Chan
<1>1. n \in 1 .. Channels /\ e \in 1 .. Channels
  BY GivenPipeline
<1> DEFINE all == 0 .. n - 1  some == 0 .. e - 1
<1>2. all \subseteq Chan /\ some \subseteq Chan
  BY <1>1, GivenPipeline DEF Chan
<1>3. ToConvert(n, e) \subseteq all \cup some
  BY DEF ToConvert
<1> QED  BY <1>2, <1>3

\* A push, with whatever is thrown away for it, keeps the books.
LEMMA PushKeepsBooks ==
    ASSUME Types, MemoryAccounted, NEW p \in Packets, NEW k \in 0 .. Len(raw), PushPacket(p, k)
    PROVE  /\ raw' \in Seq(Packets) /\ Len(raw') <= MaxRaw /\ MemoryAccounted'
           /\ memory' \in 0 .. MaxMemory
           /\ \A i \in DOMAIN raw' : raw'[i] = p \/ \E j \in DOMAIN raw : raw'[i] = raw[j]
<1> DEFINE kept == SubSeq(raw, k + 1, Len(raw))  q == Append(kept, p)  x == Excess(q)
           rest == SubSeq(q, x + 1, Len(q))
<1>1. raw \in Seq(Packets) /\ memory = MemoryOf(raw) /\ Len(raw) \in Nat /\ Packets # {}
  BY LenProperties DEF Types, MemoryAccounted
<1>2. /\ raw' = rest
      /\ memory' = memory + MemoryUsage(p) - MemoryOf(SubSeq(raw, 1, k)) - MemoryOf(SubSeq(q, 1, x))
  BY DEF PushPacket
<1>3. kept \in Seq(Packets) /\ Len(kept) = Len(raw) - k /\ \A i \in 1 .. Len(kept) : kept[i] = raw[k + i]
  <2>1. k + 1 \in Int /\ Len(raw) \in Int /\ \A i \in k + 1 .. Len(raw) : raw[i] \in Packets
    BY <1>1, ElementOfSeq
  <2>2. kept \in Seq(Packets)
        /\ Len(kept) = (IF k + 1 <= Len(raw) THEN Len(raw) - (k + 1) + 1 ELSE 0)
        /\ \A i \in 1 .. Len(raw) - (k + 1) + 1 : kept[i] = raw[(k + 1) + i - 1]
    BY <2>1, SubSeqProperties
  <2> QED  BY <1>1, <2>2
<1>4. MemoryOf(raw) = MemoryOf(SubSeq(raw, 1, k)) + MemoryOf(kept)
  BY <1>1, MemorySplit
<1> HIDE DEF kept
<1>5. /\ q \in Seq(Packets) /\ Len(q) = Len(kept) + 1 /\ q[Len(kept) + 1] = p
      /\ \A i \in 1 .. Len(kept) : q[i] = kept[i]
  BY <1>3, AppendProperties
<1>6. MemoryOf(q) = MemoryOf(kept) + MemoryUsage(p)
  BY <1>3, MemoryAppend
<1> HIDE DEF q
<1>7. x \in 0 .. Len(q) /\ MemoryOf(rest) <= MaxMemory /\ Len(rest) <= MaxRaw
  BY <1>5, ExcessFits
<1> HIDE DEF x
<1>8. MemoryOf(q) = MemoryOf(SubSeq(q, 1, x)) + MemoryOf(rest)
  BY <1>5, <1>7, MemorySplit
<1>9. Len(q) \in Nat
  BY <1>5, LenProperties
<1>10. /\ rest \in Seq(Packets) /\ Len(rest) = Len(q) - x
       /\ \A i \in 1 .. Len(rest) : rest[i] = q[x + i]
  <2>1. x + 1 \in Int /\ Len(q) \in Int /\ \A i \in x + 1 .. Len(q) : q[i] \in Packets
    BY <1>5, <1>7, <1>9, ElementOfSeq
  <2>2. rest \in Seq(Packets)
        /\ Len(rest) = (IF x + 1 <= Len(q) THEN Len(q) - (x + 1) + 1 ELSE 0)
        /\ \A i \in 1 .. Len(q) - (x + 1) + 1 : rest[i] = q[(x + 1) + i - 1]
    BY <2>1, SubSeqProperties
  <2> QED  BY <1>7, <1>9, <2>2
<1> HIDE DEF rest
<1>11. /\ MemoryOf(SubSeq(raw, 1, k)) \in Nat /\ MemoryOf(SubSeq(q, 1, x)) \in Nat
       /\ MemoryOf(rest) \in Nat /\ MemoryOf(kept) \in Nat /\ MemoryUsage(p) \in Nat
  <2>1. Len(SubSeq(raw, 1, k)) \in Nat /\ Len(SubSeq(q, 1, x)) \in Nat
    <3>1. \A i \in 1 .. k : raw[i] \in Packets
      BY <1>1, ElementOfSeq
    <3>2. SubSeq(raw, 1, k) \in Seq(Packets)
      BY <3>1, SubSeqProperties
    <3>3. \A i \in 1 .. x : q[i] \in Packets
      BY <1>5, <1>7, <1>9, ElementOfSeq
    <3>4. x \in Int
      BY <1>7, <1>9
    <3>5. SubSeq(q, 1, x) \in Seq(Packets)
      BY <3>3, <3>4, SubSeqProperties
    <3> QED  BY <3>2, <3>5, LenProperties
  <2>2. Len(rest) \in Nat /\ Len(kept) \in Nat
    BY <1>3, <1>10, LenProperties
  <2>3. p.converted \subseteq Chan
    BY DEF Packets
  <2> QED  BY <2>1, <2>2, <2>3, HeldFinite, MemoryOne
<1>12. memory' = MemoryOf(rest)
  <2> DEFINE a == MemoryOf(raw)  b == MemoryOf(SubSeq(raw, 1, k))  c == MemoryOf(kept)
             d == MemoryOf(q)    e == MemoryOf(SubSeq(q, 1, x))    f == MemoryOf(rest)
             u == MemoryUsage(p)
  <2>1. /\ a = b + c /\ d = c + u /\ d = e + f /\ b \in Nat /\ c \in Nat /\ e \in Nat
        /\ f \in Nat /\ u \in Nat
    BY <1>4, <1>6, <1>8, <1>11
  <2>2. memory' = a + u - b - e
    BY <1>1, <1>2
  <2> HIDE DEF a, b, c, d, e, f, u
  <2>3. memory' = f
    BY <2>1, <2>2
  <2> QED  BY <2>3 DEF f
<1>13. memory' \in 0 .. MaxMemory /\ MemoryAccounted'
  BY <1>2, <1>7, <1>11, <1>12, GivenPipeline DEF MemoryAccounted
<1>14. \A i \in DOMAIN rest : rest[i] = p \/ \E j \in DOMAIN raw : rest[i] = raw[j]
  <2> SUFFICES ASSUME NEW i \in DOMAIN rest, rest[i] # p
               PROVE  \E j \in DOMAIN raw : rest[i] = raw[j]
    OBVIOUS
  <2>1. DOMAIN rest = 1 .. Len(rest) /\ DOMAIN raw = 1 .. Len(raw)
    BY <1>1, <1>10, LenProperties
  <2>2. i \in 1 .. Len(rest) /\ rest[i] = q[x + i] /\ x + i \in 1 .. Len(kept) + 1
    BY <1>5, <1>7, <1>9, <1>10, <2>1
  <2>3. x + i # Len(kept) + 1
    BY <1>5, <2>2
  <2>4. x + i \in 1 .. Len(kept)
    BY <1>3, <1>1, <2>2, <2>3
  <2>5. rest[i] = kept[x + i]
    BY <1>5, <2>2, <2>4
  <2>6. kept[x + i] = raw[k + (x + i)]
    BY <1>3, <2>4
  <2>7. k + (x + i) \in 1 .. Len(raw)
    BY <1>1, <1>3, <2>4
  <2> QED  BY <2>1, <2>5, <2>6, <2>7
<1> QED  BY <1>2, <1>7, <1>10, <1>13, <1>14

LEMMA PushKeeps == CInv /\ RecvPush => CInv'
<1> SUFFICES ASSUME CInv, RecvPush
             PROVE  CInv'
  OBVIOUS
<1> DEFINE n == rx.packet.n
           elements == IF n >= 2 THEN n ELSE tuned.elements
           p == [rx.packet EXCEPT !.converted = ToConvert(n, elements)]
<1>1. /\ Types /\ Receiver /\ rx.pc = "push" /\ budget' = budget
      /\ switches' = switches /\ shown' = shown /\ avg' = avg
      /\ tuned' = [tuned EXCEPT !.elements = elements]
      /\ rx' = [rx EXCEPT !.pc = "header", !.packet = NoPacket]
  BY TypesAre DEF CInv, Receiver, RecvPush
<1>2. PICK k \in 0 .. Len(raw) : PushPacket(p, k)
  BY DEF RecvPush
<1>3. /\ rx.packet \in Packets /\ rx.packet.id \in Ids /\ rx.packet.id = Received
      /\ rx.lastRef = rx.packet.freq /\ rx.packet.freq \in 0 .. MaxRetunes
  BY <1>1 DEF CInv, RetuneHeld, Types, RxType, Packets
<1>4. n \in Counts \cup {1} /\ elements \in Counts
  <2>1. n \in Counts \cup {1} /\ tuned.elements \in Counts
    BY <1>1, <1>3 DEF Packets, Types, TunedType
  <2>2. n >= 2 => n # 1
    OBVIOUS
  <2> QED  BY <2>1, <2>2
<1>5. ToConvert(n, elements) \subseteq Chan
  BY <1>4, ConvertsChannels
<1> HIDE DEF n, elements
<1>6. p \in Packets /\ p.id = rx.packet.id /\ p.freq = rx.packet.freq
  BY <1>3, <1>5 DEF Packets
<1> HIDE DEF p
<1>7. /\ raw' \in Seq(Packets) /\ Len(raw') <= MaxRaw /\ MemoryAccounted'
      /\ memory' \in 0 .. MaxMemory
      /\ \A i \in DOMAIN raw' : raw'[i] = p \/ \E j \in DOMAIN raw : raw'[i] = raw[j]
  BY <1>1, <1>2, <1>6, PushKeepsBooks DEF CInv
<1>8. rx' \in RxType /\ rx'.pc = "header" /\ rx'.lastRef = rx.lastRef
  BY <1>1, AtStart DEF Types, RxType
<1>9. /\ tuned' \in TunedType /\ tuned'.freq = tuned.freq /\ tuned'.hold = tuned.hold
      /\ tuned'.since = tuned.since
  BY <1>1, <1>4 DEF Types, TunedType
<1>10. InFlight' \subseteq InFlight \cup {p}
  <2>1. dec' = dec
    BY <1>1, ReceiverLeaves
  <2> QED  BY <1>7, <2>1 DEF InFlight
<1>11. Received \in Int /\ Received' = Received + 1
  <2>1. budget.packets \in 0 .. MaxPackets
    BY <1>1 DEF Types, BudgetType
  <2> QED  BY <1>1, <1>8, <2>1, GivenPipeline DEF Received
<1>12. \A y \in InFlight' :
          y.id \in Ids /\ y.id < Received' /\ (y.freq # rx'.lastRef => tuned'.hold /\ y.id < tuned'.since)
  <2> SUFFICES ASSUME NEW y \in InFlight'
               PROVE  /\ y.id \in Ids /\ y.id < Received'
                      /\ (y.freq # rx'.lastRef => tuned'.hold /\ y.id < tuned'.since)
    OBVIOUS
  <2>1. CASE y = p
    BY <1>3, <1>6, <1>8, <1>11, <2>1
  <2>2. CASE y \in InFlight
    <3>1. /\ y.id \in Ids /\ y.id < Received
          /\ (y.freq # rx.lastRef => tuned.hold /\ y.id < tuned.since)
      BY <2>2 DEF CInv, RetuneHeld
    <3>2. y.id < Received'
      BY <1>11, <3>1 DEF Ids
    <3> QED  BY <1>8, <1>9, <3>1, <3>2
  <2> QED  BY <1>10, <2>1, <2>2
<1>13. rx.lastRef # None /\ tuned.freq = rx.lastRef
  <2>1. rx.lastRef # None
    BY <1>3, GivenPipeline DEF None
  <2> QED  BY <1>1, <2>1 DEF CInv, RetuneHeld
<1>14. RetuneHeld'
  BY <1>8, <1>9, <1>12, <1>13 DEF RetuneHeld
<1>15. Types'
  BY <1>1, <1>7, <1>8, <1>9, ReceiverLeaves DEF Types
<1> QED  BY <1>1, <1>7, <1>14, <1>15, ReceiverLeaves, AllTogether

LEMMA HoldKeeps == CInv /\ HoldExpires => CInv'
<1> SUFFICES ASSUME CInv, HoldExpires
             PROVE  CInv'
  OBVIOUS
<1>1. /\ Types /\ rx' = rx /\ raw' = raw /\ memory' = memory /\ switches' = switches /\ dec' = dec
      /\ pbuf' = pbuf /\ fftq' = fftq /\ worker' = worker /\ ctx' = ctx /\ avg' = avg
      /\ shown' = shown /\ resizer' = resizer /\ budget' = budget
      /\ tuned' = [tuned EXCEPT !.hold = FALSE]
      /\ \A i \in 1 .. Len(raw) : raw[i].id >= tuned.since
      /\ (dec.pc = "pop" \/ dec.packet.id >= tuned.since)
  BY TypesAre DEF CInv, HoldExpires
<1>2. tuned' \in TunedType /\ tuned'.freq = tuned.freq
  BY <1>1 DEF Types, TunedType
<1>3. InFlight' = InFlight /\ Received' = Received /\ Counted' = Counted
  BY <1>1 DEF InFlight, Received, Counted
<1>4. \A p \in InFlight : p.id >= tuned.since
  <2>1. DOMAIN raw = 1 .. Len(raw)
    BY <1>1, LenProperties DEF Types
  <2> QED  BY <1>1, <2>1 DEF InFlight
<1>5. \A p \in InFlight : ~(p.id < tuned.since)
  <2>1. tuned.since \in Int /\ \A p \in InFlight : p.id \in Int
    BY <1>1 DEF Types, TunedType, Ids, CInv, RetuneHeld
  <2> QED  BY <1>4, <2>1
<1>6. RetuneHeld'
  BY <1>1, <1>2, <1>3, <1>5 DEF CInv, RetuneHeld
<1>7. Types'
  BY <1>1, <1>2, <1>3 DEF Types
<1>8. ItemsGood' /\ SizesAgree' /\ MemoryAccounted'
  BY <1>1, ItemsKept, SizesKept, MemoryKept DEF CInv, ItemsGood, CopyGood
<1> QED  BY <1>6, <1>7, <1>8, AllTogether

LEMMA SwitchKeeps == CInv /\ Switch => CInv'
<1> SUFFICES ASSUME CInv, Switch
             PROVE  CInv'
  OBVIOUS
<1>1. /\ Types /\ rx' = rx /\ raw' = raw /\ memory' = memory /\ tuned' = tuned /\ dec' = dec
      /\ pbuf' = pbuf /\ fftq' = fftq /\ worker' = worker /\ ctx' = ctx /\ avg' = avg
      /\ shown' = shown /\ resizer' = resizer /\ budget.switches > 0
      /\ budget' = [budget EXCEPT !.switches = budget.switches - 1]
      /\ \/ \E c \in Chan : switches' = [switches EXCEPT !.active = c]
         \/ switches' = [switches EXCEPT !.wideband = ~switches.wideband]
         \/ switches' = [switches EXCEPT !.doa = ~switches.doa]
  BY TypesAre DEF CInv, Switch
<1>2. switches' \in SwitchType
  <2>1. switches \in SwitchType
    BY <1>1 DEF Types
  <2> QED  BY <1>1, <2>1 DEF SwitchType
<1>3. budget' \in BudgetType /\ budget'.packets = budget.packets
  <2> DEFINE b == budget.switches - 1
  <2>1. budget \in BudgetType /\ budget' = [budget EXCEPT !.switches = b]
    BY <1>1 DEF Types
  <2>2. b \in 0 .. MaxSwitches
    <3>1. budget.switches \in 0 .. MaxSwitches
      BY <2>1 DEF BudgetType
    <3> QED  BY <1>1, <3>1, GivenPipeline
  <2> HIDE DEF b
  <2> QED  BY <2>1, <2>2 DEF BudgetType
<1>4. Counted' = Counted
  BY <1>1 DEF Counted
<1>5. RetuneHeld'
  BY <1>1, <1>3, InFlightKept, RetuneKept DEF CInv, InFlight
<1>6. Types'
  BY <1>1, <1>2, <1>3, <1>4 DEF Types
<1>7. ItemsGood' /\ SizesAgree' /\ MemoryAccounted'
  BY <1>1, ItemsKept, SizesKept, MemoryKept DEF CInv, ItemsGood, CopyGood
<1> QED  BY <1>5, <1>6, <1>7, AllTogether

LEMMA StutterKeeps == CInv /\ UNCHANGED vars => CInv'
<1> SUFFICES ASSUME CInv, UNCHANGED vars
             PROVE  CInv'
  OBVIOUS
<1>1. /\ Types /\ rx' = rx /\ raw' = raw /\ memory' = memory /\ tuned' = tuned /\ dec' = dec
      /\ pbuf' = pbuf /\ fftq' = fftq /\ worker' = worker /\ ctx' = ctx /\ avg' = avg
      /\ shown' = shown /\ resizer' = resizer /\ budget' = budget /\ switches' = switches
  BY TypesAre DEF CInv, vars
<1>2. Counted' = Counted /\ InFlight' = InFlight
  BY <1>1 DEF Counted, InFlight
<1>3. RetuneHeld'
  BY <1>1, <1>2, RetuneKept DEF CInv
<1>4. Types'
  BY <1>1, <1>2 DEF Types
<1>5. ItemsGood' /\ SizesAgree' /\ MemoryAccounted'
  BY <1>1, ItemsKept, SizesKept, MemoryKept DEF CInv, ItemsGood, CopyGood
<1> QED  BY <1>3, <1>4, <1>5, AllTogether

-----------------------------------------------------------------------------
(* The decimation thread. *)

LEMMA PopKeeps == CInv /\ DecPop => CInv'
<1> SUFFICES ASSUME CInv, DecPop
             PROVE  CInv'
  OBVIOUS
<1> DEFINE p == Head(raw)  e == Least(tuned.elements, p.n)
<1>1. /\ Types /\ dec.pc = "pop" /\ raw # <<>> /\ raw' = Tail(raw)
      /\ memory' = memory - MemoryUsage(p)
      /\ rx' = rx /\ switches' = switches /\ tuned' = tuned /\ pbuf' = pbuf /\ fftq' = fftq
      /\ worker' = worker /\ ctx' = ctx /\ avg' = avg /\ shown' = shown /\ resizer' = resizer
      /\ budget' = budget
      /\ \/ dec' = [dec EXCEPT !.pc = "gate", !.packet = p, !.elements = e,
                      !.active = switches.active, !.wideband = switches.wideband]
         \/ dec' = dec
  BY TypesAre DEF CInv, DecPop, PopPacket
<1>2. raw \in Seq(Packets) /\ Len(raw) <= MaxRaw /\ memory \in 0 .. MaxMemory /\ memory = MemoryOf(raw)
  BY <1>1 DEF Types, CInv, MemoryAccounted
<1>3. /\ Len(raw) \in Nat /\ Len(raw) > 0 /\ p \in Packets /\ p = raw[1] /\ raw' \in Seq(Packets)
      /\ Len(raw') = Len(raw) - 1 /\ \A i \in 1 .. Len(raw') : raw'[i] = raw[i + 1]
  BY <1>1, <1>2, EmptySeq, HeadTailProperties, LenProperties
<1>4. /\ MemoryOf(raw') = MemoryOf(raw) - MemoryUsage(p) /\ MemoryOf(raw) \in Nat
      /\ MemoryOf(raw') \in Nat
  BY <1>1, <1>2, MemoryTail
<1>5. e \in 0 .. Channels
  <2>1. tuned.elements \in 1 .. Channels /\ p.n \in 1 .. Channels
    <3>1. tuned.elements \in Counts
      BY <1>1 DEF Types, TunedType
    <3>2. p.n \in Counts \cup {1}
      BY <1>3 DEF Packets
    <3>3. \A x \in Counts \cup {1} : x \in 1 .. Channels
      BY GivenPipeline
    <3> QED  BY <3>1, <3>2, <3>3
  <2> QED  BY <2>1, GivenPipeline DEF Least
<1> HIDE DEF e
<1>6. InFlight' \subseteq InFlight
  <2>1. DOMAIN raw = 1 .. Len(raw) /\ DOMAIN raw' = 1 .. Len(raw')
    BY <1>2, <1>3, LenProperties
  <2>2. {raw'[i] : i \in DOMAIN raw'} \subseteq {raw[i] : i \in DOMAIN raw}
    <3>1. \A i \in DOMAIN raw' : i + 1 \in DOMAIN raw /\ raw'[i] = raw[i + 1]
      BY <1>3, <2>1
    <3> QED  BY <3>1
  <2>3. p \in {raw[i] : i \in DOMAIN raw}
    BY <1>3, <2>1
  <2>4. dec'.pc = "pop" \/ dec'.packet = p
    BY <1>1 DEF Types, DecType
  <2> QED  BY <2>2, <2>3, <2>4 DEF InFlight
<1> HIDE DEF p
<1>7. dec' \in DecType /\ dec'.pc \in {"pop", "gate"}
  <2>1. dec \in DecType /\ switches.active \in Chan /\ switches.wideband \in BOOLEAN
    BY <1>1 DEF Types, SwitchType
  <2>2. CASE dec' = dec
    BY <1>1, <2>1, <2>2
  <2>3. CASE dec' = [dec EXCEPT !.pc = "gate", !.packet = p, !.elements = e,
                       !.active = switches.active, !.wideband = switches.wideband]
    BY <1>3, <1>5, <2>1, <2>3 DEF DecType
  <2> QED  BY <1>1, <2>2, <2>3
<1>8. raw' \in Seq(Packets) /\ Len(raw') <= MaxRaw
  BY <1>2, <1>3, GivenPipeline
<1>9. memory' \in 0 .. MaxMemory /\ MemoryAccounted'
  <2> DEFINE u == MemoryUsage(p)  m == MemoryOf(raw)  t == MemoryOf(raw')
  <2>1. memory' = m - u /\ t = m - u /\ m \in 0 .. MaxMemory /\ t \in Nat
    BY <1>1, <1>2, <1>4
  <2>2. u \in Nat
    BY <1>3, MemoryOne DEF Packets
  <2> HIDE DEF u, m, t
  <2>3. memory' = t /\ t \in 0 .. MaxMemory
    BY <2>1, <2>2, GivenPipeline
  <2> QED  BY <2>3 DEF MemoryAccounted, t
<1>10. Counted' = Counted
  BY <1>1 DEF Counted
<1>11. RetuneHeld'
  BY <1>1, <1>6, RetuneKept DEF CInv
<1>12. Types'
  BY <1>1, <1>7, <1>8, <1>9, <1>10 DEF Types
<1>13. ItemsGood' /\ SizesAgree'
  <2>1. dec'.pc # "enqueue" /\ dec.pc # "enqueue" /\ dec'.pc \notin {"copy", "enqueue"}
    BY <1>1, <1>7
  <2> QED  BY <1>1, <2>1, ItemsKept, SizesKept DEF CInv
<1> QED  BY <1>9, <1>11, <1>12, <1>13, AllTogether

LEMMA GateKeeps == CInv /\ DecGate => CInv'
<1> SUFFICES ASSUME CInv, DecGate
             PROVE  CInv'
  OBVIOUS
<1>1. /\ Types /\ dec.pc = "gate"
      /\ rx' = rx /\ raw' = raw /\ memory' = memory /\ switches' = switches /\ tuned' = tuned
      /\ pbuf' = pbuf /\ fftq' = fftq /\ worker' = worker /\ ctx' = ctx /\ avg' = avg
      /\ shown' = shown /\ resizer' = resizer /\ budget' = budget
      /\ \E pc \in {"music", "spectrum"} : dec' = [dec EXCEPT !.pc = pc]
  BY TypesAre DEF CInv, DecGate
<1>2. dec' \in DecType /\ dec'.pc \in {"music", "spectrum"} /\ dec'.packet = dec.packet
  <2>1. dec \in DecType
    BY <1>1 DEF Types
  <2> QED  BY <1>1, <2>1 DEF DecType
<1>3. Counted' = Counted
  BY <1>1 DEF Counted
<1>4. RetuneHeld'
  <2>1. InFlight' \subseteq InFlight
    BY <1>1, <1>2, InFlightKept
  <2> QED  BY <1>1, <2>1, RetuneKept DEF CInv
<1>5. Types'
  BY <1>1, <1>2, <1>3 DEF Types
<1>6. ItemsGood' /\ SizesAgree' /\ MemoryAccounted'
  <2>1. dec'.pc # "enqueue" /\ dec.pc # "enqueue" /\ dec'.pc \notin {"copy", "enqueue"}
    BY <1>1, <1>2
  <2> QED  BY <1>1, <2>1, ItemsKept, SizesKept, MemoryKept DEF CInv
<1> QED  BY <1>4, <1>5, <1>6, AllTogether

\* Where the thread goes with channels still to copy, or none.
LEMMA DecGoesOn ==
    ASSUME dec \in DecType, NEW todo \in SUBSET Chan
    PROVE  LET d == DecWith(todo) IN
           /\ d \in DecType
           /\ d.pc = "pop" \/ (d.pc = "copy" /\ d.todo # {} /\ d.packet = dec.packet)
<1>1. CASE todo = {}
  BY <1>1, AtStart DEF DecWith
<1>2. CASE todo # {}
  <2>1. DecWith(todo) = [dec EXCEPT !.pc = "copy", !.todo = todo]
    BY <1>2 DEF DecWith
  <2> QED  BY <1>2, <2>1 DEF DecType
<1> QED  BY <1>1, <1>2

LEMMA SpectrumKeeps == CInv /\ DecSpectrum => CInv'
<1> SUFFICES ASSUME CInv, DecSpectrum
             PROVE  CInv'
  OBVIOUS
<1> DEFINE todo == IF switches.wideband THEN dec.packet.converted
                   ELSE dec.packet.converted \cap {dec.active}
<1>1. /\ Types /\ dec.pc \in {"music", "spectrum"}
      /\ rx' = rx /\ raw' = raw /\ memory' = memory /\ switches' = switches /\ tuned' = tuned
      /\ pbuf' = pbuf /\ fftq' = fftq /\ worker' = worker /\ ctx' = ctx /\ avg' = avg
      /\ shown' = shown /\ resizer' = resizer /\ budget' = budget
      /\ dec' = DecWith(todo)
  BY TypesAre DEF CInv, DecSpectrum
<1>2. dec \in DecType /\ todo \in SUBSET Chan
  BY <1>1 DEF Types, DecType, Packets
<1> HIDE DEF todo
<1>3. dec' \in DecType /\ (dec'.pc = "pop" \/ (dec'.pc = "copy" /\ dec'.todo # {} /\ dec'.packet = dec.packet))
  BY <1>1, <1>2, DecGoesOn
<1>4. Counted' = Counted
  BY <1>1 DEF Counted
<1>5. RetuneHeld'
  <2>1. InFlight' \subseteq InFlight
    BY <1>1, <1>3, InFlightKept
  <2> QED  BY <1>1, <2>1, RetuneKept DEF CInv
<1>6. Types'
  BY <1>1, <1>3, <1>4 DEF Types
<1>7. ItemsGood' /\ SizesAgree' /\ MemoryAccounted'
  <2>1. dec'.pc # "enqueue" /\ dec.pc # "enqueue" /\ (dec'.pc \in {"copy", "enqueue"} => dec'.todo # {})
    BY <1>1, <1>3
  <2> QED  BY <1>1, <2>1, ItemsKept, SizesKept, MemoryKept DEF CInv
<1> QED  BY <1>5, <1>6, <1>7, AllTogether

\* The items of before are as good after a step of the copy.
LEMMA CopyKeeps == CInv /\ DecCopy => CInv'
<1> SUFFICES ASSUME CInv, DecCopy
             PROVE  CInv'
  OBVIOUS
<1> DEFINE wrap == pbuf.pos + 1 > Places
           place == IF wrap THEN 1 ELSE pbuf.pos + 1
           gen == pbuf.gen + (IF wrap THEN 1 ELSE 0)
           at == [pbuf.at EXCEPT ![place] = None]
<1>1. /\ Types /\ dec.pc = "copy"
      /\ rx' = rx /\ raw' = raw /\ memory' = memory /\ switches' = switches /\ tuned' = tuned
      /\ fftq' = fftq /\ worker' = worker /\ ctx' = ctx /\ avg' = avg
      /\ shown' = shown /\ resizer' = resizer /\ budget' = budget
      /\ dec' = [dec EXCEPT !.pc = "enqueue"]
      /\ pbuf' = [at |-> at, pos |-> place, gen |-> gen]
  BY TypesAre DEF CInv, DecCopy
<1>2. dec' \in DecType /\ dec'.pc = "enqueue" /\ dec'.packet = dec.packet /\ dec'.todo = dec.todo
  <2>1. dec \in DecType
    BY <1>1 DEF Types
  <2> QED  BY <1>1, <2>1 DEF DecType
<1>3. pbuf.pos \in 0 .. Places /\ pbuf.gen \in Nat /\ pbuf.at \in [1 .. Places -> {None} \cup Ids]
  BY <1>1 DEF Types, PbufType
<1>4. /\ place \in 1 .. Places /\ gen \in Nat /\ gen >= pbuf.gen
      /\ gen = pbuf.gen => place = pbuf.pos + 1
  BY <1>3, GivenPipeline
<1> HIDE DEF place, gen
<1>5. at \in [1 .. Places -> {None} \cup Ids] /\ \A i \in 1 .. Places : i # place => at[i] = pbuf.at[i]
  BY <1>3, <1>4
<1> HIDE DEF at
<1>6. pbuf'.at = at /\ pbuf'.pos = place /\ pbuf'.gen = gen /\ pbuf' \in PbufType
  BY <1>1, <1>4, <1>5 DEF PbufType
<1>7. Written = pbuf.pos /\ Written' = place - 1
  BY <1>1, <1>2, <1>6 DEF Written
<1>8. \A it \in Items : ItemGood(it) =>
         GoodIn(it, pbuf', Written') /\ (it.gen = pbuf'.gen => it.gen = pbuf.gen)
  <2> SUFFICES ASSUME NEW it \in Items, ItemGood(it)
               PROVE  GoodIn(it, pbuf', Written') /\ (it.gen = pbuf'.gen => it.gen = pbuf.gen)
    OBVIOUS
  <2>1. /\ it.id \in Ids /\ it.place \in 1 .. Places /\ it.gen <= pbuf.gen /\ it.gen \in Nat
        /\ (it.gen = pbuf.gen => it.place <= pbuf.pos /\ pbuf.at[it.place] = it.id)
    BY <1>7 DEF ItemGood, GoodIn, Items
  <2>2. it.gen <= pbuf'.gen
    BY <1>3, <1>4, <1>6, <2>1
  <2>3. ASSUME it.gen = pbuf'.gen
        PROVE  it.gen = pbuf.gen /\ it.place <= place - 1 /\ pbuf'.at[it.place] = it.id
    <3>1. it.gen = pbuf.gen /\ gen = pbuf.gen
      BY <1>3, <1>4, <1>6, <2>1, <2>3
    <3>2. place = pbuf.pos + 1 /\ it.place <= pbuf.pos /\ pbuf.at[it.place] = it.id
      BY <1>4, <2>1, <3>1
    <3>3. it.place <= place - 1 /\ it.place # place
      BY <1>3, <2>1, <3>2, GivenPipeline
    <3> QED  BY <1>5, <1>6, <2>1, <3>1, <3>2, <3>3
  <2> QED  BY <1>7, <2>1, <2>2, <2>3 DEF GoodIn
<1>9. ItemsGood'
  <2>1. \A i \in DOMAIN fftq : fftq[i] \in Items
    BY <1>1, ElementOfSeq, LenProperties DEF Types
  <2>2. QueueGood'
    BY <1>1, <1>8, <2>1 DEF CInv, ItemsGood, QueueGood, ItemGood
  <2>3. \A w \in Workers : WorkerGood(worker[w])'
    BY <1>1, <1>8, ItemsCarried DEF CInv, ItemsGood
  <2>4. CopyGood'
    BY <1>1, <1>2, <1>4, <1>6 DEF CInv, ItemsGood, CopyGood
  <2> QED  BY <2>2, <2>3, <2>4 DEF ItemsGood
<1>10. Counted' = Counted
  BY <1>1 DEF Counted
<1>11. RetuneHeld'
  <2>1. InFlight' \subseteq InFlight
    BY <1>1, <1>2, InFlightKept
  <2> QED  BY <1>1, <2>1, RetuneKept DEF CInv
<1>12. Types'
  BY <1>1, <1>2, <1>6, <1>10 DEF Types
<1>13. SizesAgree' /\ MemoryAccounted'
  BY <1>1, SizesKept, MemoryKept DEF CInv
<1> QED  BY <1>9, <1>11, <1>12, <1>13, AllTogether

LEMMA EnqueueKeeps == CInv /\ DecEnqueue => CInv'
<1> SUFFICES ASSUME CInv, DecEnqueue
             PROVE  CInv'
  OBVIOUS
<1>1. /\ Types /\ dec.pc = "enqueue"
      /\ rx' = rx /\ raw' = raw /\ memory' = memory /\ switches' = switches /\ tuned' = tuned
      /\ worker' = worker /\ ctx' = ctx /\ avg' = avg
      /\ shown' = shown /\ resizer' = resizer /\ budget' = budget
      /\ pbuf' = [pbuf EXCEPT !.at[pbuf.pos] = dec.packet.id]
  BY TypesAre DEF CInv, DecEnqueue
<1>2. PICK ch \in dec.todo :
         /\ fftq' = IF Len(fftq) < MaxQueued
                    THEN Append(fftq, [ch |-> ch, place |-> pbuf.pos,
                                       gen |-> pbuf.gen, id |-> dec.packet.id])
                    ELSE fftq
         /\ dec' = DecWith(dec.todo \ {ch})
  BY DEF DecEnqueue
<1> DEFINE new == [ch |-> ch, place |-> pbuf.pos, gen |-> pbuf.gen, id |-> dec.packet.id]
           at == [pbuf.at EXCEPT ![pbuf.pos] = dec.packet.id]
<1>3. /\ dec \in DecType /\ dec.todo \in SUBSET Chan /\ dec.packet \in Packets
      /\ dec.packet.id \in Ids /\ ch \in Chan
  <2>1. dec \in DecType
    BY <1>1 DEF Types
  <2>2. dec.packet \in InFlight
    BY <1>1 DEF InFlight
  <2> QED  BY <2>1, <2>2 DEF DecType, CInv, RetuneHeld
<1>4. dec' \in DecType /\ (dec'.pc = "pop" \/ (dec'.pc = "copy" /\ dec'.todo # {} /\ dec'.packet = dec.packet))
  BY <1>2, <1>3, DecGoesOn
<1>5. /\ pbuf.pos \in 1 .. Places /\ pbuf.gen \in Nat /\ pbuf.at \in [1 .. Places -> {None} \cup Ids]
      /\ pbuf \in PbufType
  <2>1. pbuf \in PbufType /\ pbuf.pos >= 1
    BY <1>1 DEF Types, CInv, ItemsGood, CopyGood
  <2> QED  BY <2>1, GivenPipeline DEF PbufType
<1>6. /\ at \in [1 .. Places -> {None} \cup Ids] /\ at[pbuf.pos] = dec.packet.id
      /\ \A i \in 1 .. Places : i # pbuf.pos => at[i] = pbuf.at[i]
  BY <1>3, <1>5
<1>7. pbuf' = [pbuf EXCEPT !.at = at]
  BY <1>1
<1> HIDE DEF at
<1>8. pbuf'.at = at /\ pbuf'.pos = pbuf.pos /\ pbuf'.gen = pbuf.gen /\ pbuf' \in PbufType
  BY <1>5, <1>6, <1>7 DEF PbufType
<1>9. Written = pbuf.pos - 1 /\ Written' = pbuf.pos
  BY <1>1, <1>4, <1>8 DEF Written
<1>10. \A it \in Items : ItemGood(it) =>
         GoodIn(it, pbuf', Written') /\ (it.gen = pbuf'.gen => it.gen = pbuf.gen)
  <2> SUFFICES ASSUME NEW it \in Items, ItemGood(it)
               PROVE  GoodIn(it, pbuf', Written') /\ (it.gen = pbuf'.gen => it.gen = pbuf.gen)
    OBVIOUS
  <2>1. /\ it.id \in Ids /\ it.place \in 1 .. Places /\ it.gen <= pbuf.gen
        /\ (it.gen = pbuf.gen => it.place <= pbuf.pos - 1 /\ pbuf.at[it.place] = it.id)
    BY <1>9 DEF ItemGood, GoodIn
  <2>2. it.gen = pbuf.gen => it.place <= pbuf.pos /\ at[it.place] = it.id
    BY <1>5, <1>6, <2>1, GivenPipeline
  <2> QED  BY <1>8, <1>9, <2>1, <2>2 DEF GoodIn
<1>11. /\ new \in Items /\ new.place = pbuf.pos /\ new.gen = pbuf.gen
       /\ new.id = dec.packet.id /\ fftq' = IF Len(fftq) < MaxQueued THEN Append(fftq, new) ELSE fftq
  BY <1>2, <1>3, <1>5, GivenPipeline DEF Items
<1> HIDE DEF new
<1>12. GoodIn(new, pbuf', Written')
  BY <1>3, <1>5, <1>6, <1>8, <1>9, <1>11 DEF GoodIn
<1>13. fftq \in Seq(Items) /\ Len(fftq) \in Nat /\ \A i \in DOMAIN fftq : fftq[i] \in Items
  BY <1>1, ElementOfSeq, LenProperties DEF Types
<1>14. /\ fftq' \in Seq(Items) /\ Len(fftq') <= MaxQueued
       /\ \A i \in DOMAIN fftq' : fftq'[i] = new \/ (i \in DOMAIN fftq /\ fftq'[i] = fftq[i])
  <2>1. CASE Len(fftq) < MaxQueued
    <3>1. fftq' = Append(fftq, new)
      BY <1>11, <2>1
    <3>2. /\ fftq' \in Seq(Items) /\ Len(fftq') = Len(fftq) + 1 /\ fftq'[Len(fftq) + 1] = new
          /\ \A i \in 1 .. Len(fftq) : fftq'[i] = fftq[i]
      BY <1>11, <1>13, <3>1, AppendProperties
    <3>3. DOMAIN fftq = 1 .. Len(fftq) /\ DOMAIN fftq' = 1 .. Len(fftq')
      BY <1>13, <3>2, LenProperties
    <3> QED  BY <1>13, <2>1, <3>2, <3>3, GivenPipeline
  <2>2. CASE ~(Len(fftq) < MaxQueued)
    BY <1>1, <1>11, <1>13, <2>2 DEF Types
  <2> QED  BY <2>1, <2>2
<1>15. QueueGood'
  BY <1>10, <1>12, <1>13, <1>14 DEF CInv, ItemsGood, QueueGood, ItemGood
<1>16. \A w \in Workers : WorkerGood(worker[w])'
  BY <1>1, <1>10, ItemsCarried DEF CInv, ItemsGood
<1>17. CopyGood'
  BY <1>4 DEF CopyGood
<1>18. Counted' = Counted
  BY <1>1 DEF Counted
<1>19. RetuneHeld'
  <2>1. InFlight' \subseteq InFlight
    BY <1>1, <1>4, InFlightKept
  <2> QED  BY <1>1, <2>1, RetuneKept DEF CInv
<1>20. Types'
  BY <1>1, <1>4, <1>8, <1>14, <1>18 DEF Types
<1>21. SizesAgree' /\ MemoryAccounted'
  BY <1>1, SizesKept, MemoryKept DEF CInv
<1> QED  BY <1>15, <1>16, <1>17, <1>19, <1>20, <1>21, AllTogether DEF ItemsGood

-----------------------------------------------------------------------------
(* The FFT workers. *)

LEMMA CountedFinite == IsFiniteSet(Counted) /\ Cardinality(Counted) \in Nat
<1>1. Counted \subseteq Workers
  BY DEF Counted
<1>2. IsFiniteSet(Counted)
  BY <1>1, GivenPipeline, FS_Subset
<1> QED  BY <1>2, FS_CardinalityType

\* A worker w becomes k and its queue is as before or one item shorter.
LEMMA WorkerMoves ==
    ASSUME CInv, Types, NEW w \in Workers, NEW k \in WorkType, WorkerGood(k),
           worker' = [worker EXCEPT ![w] = k],
           rx' = rx, raw' = raw, memory' = memory, tuned' = tuned, dec' = dec, pbuf' = pbuf,
           budget' = budget, fftq' = fftq \/ (fftq # <<>> /\ fftq' = Tail(fftq))
    PROVE  /\ worker' \in [Workers -> WorkType] /\ worker'[w] = k
           /\ \A v \in Workers : v # w => worker'[v] = worker[v]
           /\ fftq' \in Seq(Items) /\ Len(fftq') <= MaxQueued
           /\ ItemsGood' /\ RetuneHeld' /\ MemoryAccounted'
<1>1. worker \in [Workers -> WorkType] /\ fftq \in Seq(Items) /\ Len(fftq) <= MaxQueued
  BY DEF Types
<1>2. /\ worker' \in [Workers -> WorkType] /\ worker'[w] = k
      /\ \A v \in Workers : v # w => worker'[v] = worker[v]
  BY <1>1
<1>3. /\ fftq' \in Seq(Items) /\ Len(fftq') <= MaxQueued
      /\ \A i \in DOMAIN fftq' : \E j \in DOMAIN fftq : fftq'[i] = fftq[j]
  <2>1. CASE fftq' = fftq
    BY <1>1, <2>1
  <2>2. CASE fftq # <<>> /\ fftq' = Tail(fftq)
    <3>1. /\ fftq' \in Seq(Items) /\ Len(fftq') = Len(fftq) - 1 /\ Len(fftq) \in Nat
          /\ \A i \in 1 .. Len(fftq') : fftq'[i] = fftq[i + 1]
      BY <1>1, <2>2, HeadTailProperties, LenProperties
    <3>2. DOMAIN fftq' = 1 .. Len(fftq') /\ DOMAIN fftq = 1 .. Len(fftq)
      BY <1>1, <3>1, LenProperties
    <3>3. \A i \in DOMAIN fftq' : i + 1 \in DOMAIN fftq /\ fftq'[i] = fftq[i + 1]
      BY <3>1, <3>2
    <3>4. Len(fftq') <= MaxQueued
      BY <1>1, <3>1, GivenPipeline
    <3> QED  BY <3>1, <3>3, <3>4
  <2> QED  BY <2>1, <2>2
<1>4. Written' = Written
  BY DEF Written
<1>5. QueueGood'
  BY <1>3, <1>4 DEF CInv, ItemsGood, QueueGood, ItemGood
<1>6. \A v \in Workers : WorkerGood(worker[v])'
  <2> SUFFICES ASSUME NEW v \in Workers
               PROVE  WorkerGood(worker[v])'
    OBVIOUS
  <2>1. CASE v = w
    BY <1>2, <1>4, <2>1 DEF WorkerGood, ItemGood
  <2>2. CASE v # w
    <3>1. WorkerGood(worker[v])
      BY DEF CInv, ItemsGood
    <3> QED  BY <1>2, <1>4, <2>2, <3>1 DEF WorkerGood, ItemGood
  <2> QED  BY <2>1, <2>2
<1>7. CopyGood'
  BY DEF CInv, ItemsGood, CopyGood
<1>8. RetuneHeld'
  <2>1. InFlight' \subseteq InFlight
    BY DEF InFlight
  <2> QED  BY <2>1, RetuneKept DEF CInv
<1>9. MemoryAccounted'
  BY MemoryKept DEF CInv
<1> QED  BY <1>2, <1>3, <1>5, <1>6, <1>7, <1>8, <1>9 DEF ItemsGood

LEMMA SizesMove ==
    ASSUME SizesAgree, NEW w \in Workers, \A v \in Workers : v # w => worker'[v] = worker[v],
           \A c \in Chan : ctx'[c].size = ctx[c].size, avg'.size = avg.size,
           resizer'.pc = resizer.pc, resizer'.size = resizer.size, resizer'.flag = resizer.flag,
           resizer'.todo = resizer.todo, resizer'.gaveUp = resizer.gaveUp,
           ~resizer.gaveUp =>
              /\ resizer.pc \in {"contexts", "arrays"} => worker'[w].pc \notin {"enter", "verify", "store"}
              /\ worker'[w].pc \in {"verify", "store"} => worker'[w].size = avg.size
    PROVE  SizesAgree'
<1>1. resizer'.flag <=> resizer'.pc # "idle"
  BY DEF SizesAgree
<1>2. resizer'.pc # "idle" => resizer'.size \in Sizes
  BY DEF SizesAgree
<1>3. ASSUME ~resizer'.gaveUp
      PROVE  /\ resizer'.pc \in {"idle", "wait"} => \A c \in Chan : ctx'[c].size = avg'.size
             /\ resizer'.pc \in {"contexts", "arrays"} =>
                   \A v \in Workers : worker'[v].pc \notin {"enter", "verify", "store"}
             /\ resizer'.pc = "contexts" => \A c \in Chan \ resizer'.todo : ctx'[c].size = resizer'.size
             /\ resizer'.pc = "arrays" => \A c \in Chan : ctx'[c].size = resizer'.size
             /\ \A v \in Workers : worker'[v].pc \in {"verify", "store"} => worker'[v].size = avg'.size
  <2>1. ~resizer.gaveUp
    BY <1>3
  <2>2. resizer'.pc \in {"contexts", "arrays"} =>
             \A v \in Workers : worker'[v].pc \notin {"enter", "verify", "store"}
    BY <2>1 DEF SizesAgree
  <2>3. \A v \in Workers : worker'[v].pc \in {"verify", "store"} => worker'[v].size = avg'.size
    BY <2>1 DEF SizesAgree
  <2> QED  BY <2>1, <2>2, <2>3 DEF SizesAgree
<1> QED  BY <1>1, <1>2, <1>3 DEF SizesAgree

\* The steps that change the count of workers, and those that do not.
LEMMA CountSame ==
    ASSUME NEW w \in Workers, \A v \in Workers : v # w => worker'[v] = worker[v],
           worker'[w].pc \in {"idle", "count"} <=> worker[w].pc \in {"idle", "count"}
    PROVE  Counted' = Counted
BY DEF Counted

LEMMA CountUp ==
    ASSUME NEW w \in Workers, \A v \in Workers : v # w => worker'[v] = worker[v],
           worker'[w].pc \notin {"idle", "count"}, worker[w].pc \in {"idle", "count"}
    PROVE  Cardinality(Counted') = Cardinality(Counted) + 1
<1>1. Counted' = Counted \cup {w} /\ w \notin Counted
  BY DEF Counted
<1> QED  BY <1>1, CountedFinite, FS_AddElement

LEMMA CountDown ==
    ASSUME NEW w \in Workers, \A v \in Workers : v # w => worker'[v] = worker[v],
           worker'[w].pc \in {"idle", "count"}, worker[w].pc \notin {"idle", "count"}
    PROVE  Cardinality(Counted') = Cardinality(Counted) - 1 /\ Cardinality(Counted) > 0
<1>1. Counted' = Counted \ {w} /\ w \in Counted
  BY DEF Counted
<1>2. Cardinality(Counted') = Cardinality(Counted) - 1
  BY <1>1, CountedFinite, FS_RemoveElement
<1>3. Cardinality(Counted) # 0
  BY <1>1, CountedFinite, FS_EmptySet
<1> QED  BY <1>2, <1>3, CountedFinite

\* What a worker that leaves does, whatever it did before.
LEMMA LeaveKeeps ==
    ASSUME CInv, NEW w \in Workers, Leave(w), worker[w].pc \notin {"idle", "count"},
           avg' \in AvgType, shown' \in ShownType, avg'.size = avg.size
    PROVE  CInv'
<1>1. /\ Types /\ rx' = rx /\ raw' = raw /\ memory' = memory /\ switches' = switches
      /\ tuned' = tuned /\ dec' = dec /\ pbuf' = pbuf /\ fftq' = fftq /\ budget' = budget
      /\ worker' = [worker EXCEPT ![w] = AtRest]
      /\ ctx' = [c \in Chan |-> IF ctx[c].holder = w THEN [ctx[c] EXCEPT !.holder = None] ELSE ctx[c]]
      /\ resizer' = [resizer EXCEPT !.active = resizer.active - 1]
  BY TypesAre DEF CInv, Leave
<1>2. AtRest \in WorkType /\ AtRest.pc = "idle" /\ WorkerGood(AtRest)
  BY AtStart DEF WorkerGood
<1>3. /\ worker' \in [Workers -> WorkType] /\ worker'[w] = AtRest
      /\ \A v \in Workers : v # w => worker'[v] = worker[v]
      /\ fftq' \in Seq(Items) /\ Len(fftq') <= MaxQueued
      /\ ItemsGood' /\ RetuneHeld' /\ MemoryAccounted'
  BY <1>1, <1>2, WorkerMoves
<1>4. ctx' \in CtxType /\ \A c \in Chan : ctx'[c].size = ctx[c].size
  <2>1. ctx \in CtxType
    BY <1>1 DEF Types
  <2>2. \A c \in Chan : /\ ctx'[c] \in [size : Sizes, holder : {None} \cup Workers]
                        /\ ctx'[c].size = ctx[c].size
    BY <1>1, <2>1 DEF CtxType
  <2> QED  BY <1>1, <2>2 DEF CtxType
<1>5. Cardinality(Counted') = Cardinality(Counted) - 1 /\ Cardinality(Counted) > 0
  BY <1>2, <1>3, CountDown
<1>6. /\ resizer \in ResizerType /\ resizer.active = Cardinality(Counted) /\ resizer.active \in Nat
      /\ resizer.active > 0
  BY <1>1, <1>5 DEF Types, ResizerType
<1> DEFINE a == resizer.active - 1
<1>7. a \in Nat /\ a = Cardinality(Counted')
  BY <1>5, <1>6
<1>8. resizer' = [resizer EXCEPT !.active = a]
  BY <1>1
<1> HIDE DEF a
<1>9. /\ resizer' \in ResizerType /\ resizer'.active = a
      /\ resizer'.pc = resizer.pc /\ resizer'.size = resizer.size /\ resizer'.flag = resizer.flag
      /\ resizer'.todo = resizer.todo /\ resizer'.gaveUp = resizer.gaveUp
  BY <1>6, <1>7, <1>8 DEF ResizerType
<1>10. SizesAgree'
  <2>1. worker'[w].pc = "idle"
    BY <1>2, <1>3
  <2> QED  BY <1>3, <1>4, <1>9, <2>1, SizesMove DEF CInv
<1>11. Types'
  BY <1>1, <1>3, <1>4, <1>7, <1>9 DEF Types
<1> QED  BY <1>3, <1>10, <1>11, AllTogether

LEMMA TakeKeeps == ASSUME CInv, NEW w \in Workers, WorkerTake(w) PROVE CInv'
<1>1. /\ Types /\ worker[w].pc = "idle" /\ fftq # <<>> /\ fftq' = Tail(fftq)
      /\ rx' = rx /\ raw' = raw /\ memory' = memory /\ switches' = switches
      /\ tuned' = tuned /\ dec' = dec /\ pbuf' = pbuf /\ ctx' = ctx /\ avg' = avg
      /\ shown' = shown /\ resizer' = resizer /\ budget' = budget
      /\ (worker' = worker \/ worker' = [worker EXCEPT ![w].pc = "count", ![w].item = Head(fftq)])
  BY TypesAre DEF CInv, WorkerTake
<1>2. worker \in [Workers -> WorkType] /\ worker[w] \in WorkType /\ fftq \in Seq(Items)
  BY <1>1 DEF Types
<1>3. Head(fftq) \in Items /\ ItemGood(Head(fftq))
  <2>1. Head(fftq) \in Items /\ Head(fftq) = fftq[1] /\ 1 \in DOMAIN fftq
    BY <1>1, <1>2, HeadTailProperties, LenProperties, EmptySeq
  <2> QED  BY <2>1 DEF CInv, ItemsGood, QueueGood
<1> DEFINE k == [worker[w] EXCEPT !.pc = "count", !.item = Head(fftq)]
<1>4. k \in WorkType /\ k.pc = "count" /\ k.item = Head(fftq)
  BY <1>2, <1>3 DEF WorkType
<1>5. WorkerGood(k) /\ WorkerGood(worker[w])
  <2>1. WorkerGood(worker[w])
    BY DEF CInv, ItemsGood
  <2> HIDE DEF k
  <2> QED  BY <1>3, <1>4, <2>1 DEF WorkerGood
<1>6. PICK r \in WorkType : /\ WorkerGood(r) /\ worker' = [worker EXCEPT ![w] = r]
                            /\ r.pc \in {"idle", "count"}
  <2>1. CASE worker' = worker
    <3>1. worker' = [worker EXCEPT ![w] = worker[w]]
      BY <1>2, <2>1
    <3> QED  BY <1>1, <1>2, <1>5, <3>1
  <2>2. CASE worker' = [worker EXCEPT ![w].pc = "count", ![w].item = Head(fftq)]
    <3>1. worker' = [worker EXCEPT ![w] = k]
      BY <1>2, <2>2
    <3> QED  BY <1>4, <1>5, <3>1
  <2> QED  BY <1>1, <2>1, <2>2
<1>7. /\ worker' \in [Workers -> WorkType] /\ worker'[w] = r
      /\ \A v \in Workers : v # w => worker'[v] = worker[v]
      /\ fftq' \in Seq(Items) /\ Len(fftq') <= MaxQueued
      /\ ItemsGood' /\ RetuneHeld' /\ MemoryAccounted'
  BY <1>1, <1>6, WorkerMoves
<1>8. Counted' = Counted
  BY <1>1, <1>6, <1>7, CountSame
<1>9. SizesAgree'
  <2>1. worker'[w].pc \notin {"enter", "verify", "store"}
    BY <1>6, <1>7
  <2> QED  BY <1>1, <1>7, <2>1, SizesMove DEF CInv
<1>10. Types'
  BY <1>1, <1>7, <1>8 DEF Types
<1> QED  BY <1>7, <1>9, <1>10, AllTogether

LEMMA CountKeeps == ASSUME CInv, NEW w \in Workers, WorkerCount(w) PROVE CInv'
<1> DEFINE k == [worker[w] EXCEPT !.pc = "recheck"]  a == resizer.active + 1
<1>1. /\ Types /\ worker[w].pc = "count" /\ fftq' = fftq
      /\ rx' = rx /\ raw' = raw /\ memory' = memory /\ switches' = switches
      /\ tuned' = tuned /\ dec' = dec /\ pbuf' = pbuf /\ ctx' = ctx /\ avg' = avg
      /\ shown' = shown /\ budget' = budget
      /\ worker' = [worker EXCEPT ![w].pc = "recheck"]
      /\ resizer' = [resizer EXCEPT !.active = a]
  BY TypesAre DEF CInv, WorkerCount, Goto
<1>2. worker \in [Workers -> WorkType] /\ worker[w] \in WorkType
  BY <1>1 DEF Types
<1>3. k \in WorkType /\ k.pc = "recheck" /\ k.item = worker[w].item
  BY <1>2 DEF WorkType
<1>4. worker' = [worker EXCEPT ![w] = k]
  BY <1>1, <1>2
<1> HIDE DEF k
<1>5. WorkerGood(k)
  <2>1. WorkerGood(worker[w])
    BY DEF CInv, ItemsGood
  <2> QED  BY <1>1, <1>3, <2>1 DEF WorkerGood
<1>6. /\ worker' \in [Workers -> WorkType] /\ worker'[w] = k
      /\ \A v \in Workers : v # w => worker'[v] = worker[v]
      /\ fftq' \in Seq(Items) /\ Len(fftq') <= MaxQueued
      /\ ItemsGood' /\ RetuneHeld' /\ MemoryAccounted'
  BY <1>1, <1>3, <1>4, <1>5, WorkerMoves
<1>7. Cardinality(Counted') = Cardinality(Counted) + 1
  BY <1>1, <1>3, <1>6, CountUp
<1>8. resizer \in ResizerType /\ resizer.active = Cardinality(Counted) /\ resizer.active \in Nat
  BY <1>1 DEF Types, ResizerType
<1>9. a \in Nat /\ a = Cardinality(Counted')
  BY <1>7, <1>8
<1> HIDE DEF a
<1>10. /\ resizer' \in ResizerType /\ resizer'.active = a
       /\ resizer'.pc = resizer.pc /\ resizer'.size = resizer.size /\ resizer'.flag = resizer.flag
       /\ resizer'.todo = resizer.todo /\ resizer'.gaveUp = resizer.gaveUp
  BY <1>1, <1>8, <1>9 DEF ResizerType
<1>11. SizesAgree'
  <2>1. worker'[w].pc = "recheck"
    BY <1>3, <1>6
  <2> QED  BY <1>1, <1>6, <1>10, <2>1, SizesMove DEF CInv
<1>12. Types'
  BY <1>1, <1>6, <1>9, <1>10 DEF Types
<1> QED  BY <1>6, <1>11, <1>12, AllTogether

LEMMA RecheckKeeps == ASSUME CInv, NEW w \in Workers, WorkerRecheck(w) PROVE CInv'
<1>1. /\ Types /\ worker[w].pc = "recheck" /\ avg' = avg /\ shown' = shown
  BY TypesAre DEF CInv, WorkerRecheck
<1>2. CASE resizer.flag
  <2>1. Leave(w)
    BY <1>2 DEF WorkerRecheck
  <2> QED  BY <1>1, <2>1, LeaveKeeps DEF Types
<1>3. CASE ~resizer.flag
  <2> DEFINE k == [worker[w] EXCEPT !.pc = "enter"]
  <2>1. /\ fftq' = fftq /\ rx' = rx /\ raw' = raw /\ memory' = memory /\ switches' = switches
        /\ tuned' = tuned /\ dec' = dec /\ pbuf' = pbuf /\ ctx' = ctx /\ resizer' = resizer
        /\ budget' = budget /\ worker' = [worker EXCEPT ![w].pc = "enter"]
    BY <1>3 DEF WorkerRecheck, Goto
  <2>2. worker \in [Workers -> WorkType] /\ worker[w] \in WorkType
    BY <1>1 DEF Types
  <2>3. k \in WorkType /\ k.pc = "enter" /\ k.item = worker[w].item
    BY <2>2 DEF WorkType
  <2>4. worker' = [worker EXCEPT ![w] = k]
    BY <2>1, <2>2
  <2> HIDE DEF k
  <2>5. WorkerGood(k)
    <3>1. WorkerGood(worker[w])
      BY DEF CInv, ItemsGood
    <3> QED  BY <1>1, <2>3, <3>1 DEF WorkerGood
  <2>6. /\ worker' \in [Workers -> WorkType] /\ worker'[w] = k
        /\ \A v \in Workers : v # w => worker'[v] = worker[v]
        /\ fftq' \in Seq(Items) /\ Len(fftq') <= MaxQueued
        /\ ItemsGood' /\ RetuneHeld' /\ MemoryAccounted'
    BY <1>1, <2>1, <2>3, <2>4, <2>5, WorkerMoves
  <2>7. Counted' = Counted
    BY <1>1, <2>3, <2>6, CountSame
  <2>8. SizesAgree'
    <3>1. worker'[w].pc = "enter" /\ resizer.pc = "idle"
      BY <1>3, <2>3, <2>6 DEF CInv, SizesAgree
    <3> QED  BY <1>1, <2>1, <2>6, <3>1, SizesMove DEF CInv
  <2>9. Types'
    BY <1>1, <2>1, <2>6, <2>7 DEF Types
  <2> QED  BY <2>6, <2>8, <2>9, AllTogether
<1> QED  BY <1>2, <1>3

LEMMA EnterKeeps == ASSUME CInv, NEW w \in Workers, WorkerEnter(w) PROVE CInv'
<1> DEFINE item == worker[w].item  size == ctx[item.ch].size  seen == pbuf.at[item.place]
           k == [worker[w] EXCEPT !.pc = "verify", !.size = size, !.seen = seen]
<1>1. /\ Types /\ worker[w].pc = "enter" /\ fftq' = fftq
      /\ rx' = rx /\ raw' = raw /\ memory' = memory /\ switches' = switches
      /\ tuned' = tuned /\ dec' = dec /\ pbuf' = pbuf /\ avg' = avg
      /\ shown' = shown /\ budget' = budget /\ resizer' = resizer
      /\ ctx' = [ctx EXCEPT ![item.ch].holder = w]
      /\ worker' = [worker EXCEPT ![w].pc = "verify", ![w].size = size, ![w].seen = seen]
  BY TypesAre DEF CInv, WorkerEnter
<1>2. /\ worker \in [Workers -> WorkType] /\ worker[w] \in WorkType /\ item \in Items
      /\ item.ch \in Chan /\ ctx \in CtxType /\ pbuf \in PbufType
  BY <1>1 DEF Types, WorkType, Items
<1>3. ItemGood(item) /\ WorkerGood(worker[w])
  BY <1>1 DEF CInv, ItemsGood, WorkerGood
<1>4. size \in Sizes /\ seen \in {None} \cup Ids /\ (item.gen = pbuf.gen => seen = item.id)
  <2>1. item.place \in 1 .. Places /\ (item.gen = pbuf.gen => seen = item.id)
    BY <1>3 DEF ItemGood, GoodIn
  <2> QED  BY <1>2, <2>1 DEF CtxType, PbufType
<1>5. worker' = [worker EXCEPT ![w] = k]
  BY <1>1, <1>2
<1> HIDE DEF seen
<1>6. k \in WorkType /\ k.pc = "verify" /\ k.item = item /\ k.size = size /\ k.seen = seen
  BY <1>2, <1>4 DEF WorkType
<1> HIDE DEF k
<1>7. WorkerGood(k)
  BY <1>3, <1>4, <1>6 DEF WorkerGood
<1>8. /\ worker' \in [Workers -> WorkType] /\ worker'[w] = k
      /\ \A v \in Workers : v # w => worker'[v] = worker[v]
      /\ fftq' \in Seq(Items) /\ Len(fftq') <= MaxQueued
      /\ ItemsGood' /\ RetuneHeld' /\ MemoryAccounted'
  BY <1>1, <1>5, <1>6, <1>7, WorkerMoves
<1>9. Counted' = Counted
  BY <1>1, <1>6, <1>8, CountSame
<1>10. ctx' \in CtxType /\ \A c \in Chan : ctx'[c].size = ctx[c].size
  BY <1>1, <1>2 DEF CtxType
<1>11. SizesAgree'
  <2>1. worker'[w].pc = "verify" /\ worker'[w].size = size
    BY <1>6, <1>8
  <2>2. ~resizer.gaveUp => resizer.pc \notin {"contexts", "arrays"}
    BY <1>1 DEF CInv, SizesAgree
  <2>3. resizer.pc \in {"idle", "wait", "contexts", "arrays"}
    BY <1>1 DEF Types, ResizerType
  <2>4. ~resizer.gaveUp => size = avg.size
    BY <1>2, <2>2, <2>3 DEF CInv, SizesAgree
  <2> QED  BY <1>1, <1>8, <1>10, <2>1, <2>2, <2>4, SizesMove DEF CInv
<1>12. Types'
  BY <1>1, <1>8, <1>9, <1>10 DEF Types
<1> QED  BY <1>8, <1>11, <1>12, AllTogether

LEMMA ExecuteKeeps == ASSUME CInv, NEW w \in Workers, WorkerExecute(w) PROVE CInv'
<1> DEFINE item == worker[w].item
           seen == IF pbuf.at[item.place] = worker[w].seen THEN worker[w].seen ELSE None
           reset == avg.lastGen[item.ch] < shown.gen
           k == [worker[w] EXCEPT !.pc = "store", !.seen = seen, !.reset = reset]
<1>1. /\ Types /\ worker[w].pc = "verify" /\ Trusted(w) /\ fftq' = fftq
      /\ rx' = rx /\ raw' = raw /\ memory' = memory /\ switches' = switches
      /\ tuned' = tuned /\ dec' = dec /\ pbuf' = pbuf /\ ctx' = ctx
      /\ budget' = budget /\ resizer' = resizer
      /\ shown' = [shown EXCEPT !.holder = w]
      /\ avg' = [avg EXCEPT !.lastGen[item.ch] = shown.gen]
      /\ worker' = [worker EXCEPT ![w].pc = "store", ![w].seen = seen, ![w].reset = reset]
  BY TypesAre DEF CInv, WorkerExecute
<1>2. /\ worker \in [Workers -> WorkType] /\ worker[w] \in WorkType /\ item \in Items
      /\ item.ch \in Chan /\ pbuf \in PbufType /\ avg \in AvgType /\ shown \in ShownType
  BY <1>1 DEF Types, WorkType, Items
<1>3. ItemGood(item) /\ WorkerGood(worker[w])
  BY <1>1 DEF CInv, ItemsGood, WorkerGood
<1>4. seen = item.id /\ item.id \in Ids /\ reset \in BOOLEAN
  <2>1. item.gen = pbuf.gen
    BY <1>1 DEF Trusted
  <2>2. pbuf.at[item.place] = item.id /\ worker[w].seen = item.id /\ item.id \in Ids
    BY <1>1, <1>3, <2>1 DEF ItemGood, GoodIn, WorkerGood
  <2> QED  BY <2>2
<1>5. worker' = [worker EXCEPT ![w] = k]
  BY <1>1, <1>2
<1> HIDE DEF seen, reset
<1>6. k \in WorkType /\ k.pc = "store" /\ k.item = item /\ k.size = worker[w].size /\ k.seen = item.id
  BY <1>2, <1>4 DEF WorkType
<1> HIDE DEF k
<1>7. WorkerGood(k)
  BY <1>3, <1>6 DEF WorkerGood
<1>8. /\ worker' \in [Workers -> WorkType] /\ worker'[w] = k
      /\ \A v \in Workers : v # w => worker'[v] = worker[v]
      /\ fftq' \in Seq(Items) /\ Len(fftq') <= MaxQueued
      /\ ItemsGood' /\ RetuneHeld' /\ MemoryAccounted'
  BY <1>1, <1>5, <1>6, <1>7, WorkerMoves
<1>9. Counted' = Counted
  BY <1>1, <1>6, <1>8, CountSame
<1>10. shown' \in ShownType /\ avg' \in AvgType /\ avg'.size = avg.size
  <2>1. shown' \in ShownType /\ shown.gen \in Nat
    BY <1>1, <1>2 DEF ShownType
  <2> HIDE DEF item
  <2>2. avg' \in AvgType /\ avg'.size = avg.size
    BY <1>1, <1>2, <2>1 DEF AvgType
  <2> QED  BY <2>1, <2>2
<1>11. SizesAgree'
  <2>1. worker'[w].pc = "store" /\ worker'[w].size = worker[w].size
    BY <1>6, <1>8
  <2>2. ~resizer.gaveUp => resizer.pc \notin {"contexts", "arrays"} /\ worker[w].size = avg.size
    BY <1>1 DEF CInv, SizesAgree
  <2> QED  BY <1>1, <1>8, <1>10, <2>1, <2>2, SizesMove DEF CInv
<1>12. Types'
  BY <1>1, <1>8, <1>9, <1>10 DEF Types
<1> QED  BY <1>8, <1>11, <1>12, AllTogether

LEMMA DiscardKeeps == ASSUME CInv, NEW w \in Workers, WorkerDiscard(w) PROVE CInv'
<1>1. Types /\ worker[w].pc = "verify" /\ Leave(w) /\ avg' = avg /\ shown' = shown
  BY TypesAre DEF CInv, WorkerDiscard
<1> QED  BY <1>1, LeaveKeeps DEF Types

LEMMA StoreKeeps == ASSUME CInv, NEW w \in Workers, WorkerStore(w) PROVE CInv'
<1> DEFINE item == worker[w].item
           mix == {item.id} \cup (IF worker[w].reset THEN {} ELSE avg.mix[item.ch])
<1>1. /\ Types /\ worker[w].pc = "store" /\ Leave(w)
      /\ avg' = [avg EXCEPT !.mix[item.ch] = mix]
      /\ shown' = [shown EXCEPT !.valid = TRUE, !.holder = None]
  BY TypesAre DEF CInv, WorkerStore
<1>2. item \in Items /\ item.ch \in Chan /\ avg \in AvgType /\ shown \in ShownType
  BY <1>1 DEF Types, WorkType, Items
<1>3. item.id \in Ids
  BY <1>1 DEF CInv, ItemsGood, WorkerGood, ItemGood, GoodIn
<1>4. mix \in SUBSET ({Floor, Reset} \cup Ids)
  <2>1. avg.mix[item.ch] \subseteq {Floor, Reset} \cup Ids
    BY <1>2 DEF AvgType
  <2> QED  BY <1>3, <2>1
<1> HIDE DEF item, mix
<1>5. avg' \in AvgType /\ avg'.size = avg.size
  BY <1>1, <1>2, <1>4 DEF AvgType
<1>6. shown' \in ShownType
  BY <1>1, <1>2 DEF ShownType
<1> QED  BY <1>1, <1>5, <1>6, LeaveKeeps

-----------------------------------------------------------------------------
(* The resize of the FFT. *)

\* What no step of the resize touches.
LEMMA ResizeLeaves ==
    ASSUME CInv, worker' = worker, rx' = rx, raw' = raw, memory' = memory, tuned' = tuned,
           dec' = dec, pbuf' = pbuf, fftq' = fftq, budget'.packets = budget.packets
    PROVE  ItemsGood' /\ RetuneHeld' /\ MemoryAccounted' /\ Counted' = Counted
<1>1. RetuneHeld'
  <2>1. InFlight' \subseteq InFlight
    BY DEF InFlight
  <2> QED  BY <2>1, RetuneKept DEF CInv
<1>2. ItemsGood' /\ MemoryAccounted'
  BY ItemsKept, MemoryKept DEF CInv, ItemsGood, CopyGood
<1> QED  BY <1>1, <1>2 DEF Counted

LEMMA BeginKeeps == CInv /\ ResizeBegin => CInv'
<1> SUFFICES ASSUME CInv, ResizeBegin
             PROVE  CInv'
  OBVIOUS
<1> DEFINE b == budget.resizes - 1
<1>1. /\ Types /\ resizer.pc = "idle" /\ budget.resizes > 0
      /\ budget' = [budget EXCEPT !.resizes = b]
      /\ rx' = rx /\ raw' = raw /\ memory' = memory /\ switches' = switches /\ tuned' = tuned
      /\ dec' = dec /\ pbuf' = pbuf /\ fftq' = fftq /\ worker' = worker /\ ctx' = ctx
      /\ avg' = avg /\ shown' = shown
  BY TypesAre DEF CInv, ResizeBegin
<1>2. PICK s \in Sizes : resizer' = [resizer EXCEPT !.pc = "wait", !.size = s, !.flag = TRUE]
  BY DEF ResizeBegin
<1>3. budget' \in BudgetType /\ budget'.packets = budget.packets
  <2>1. budget \in BudgetType
    BY <1>1 DEF Types
  <2>2. b \in 0 .. MaxResizes
    <3>1. budget.resizes \in 0 .. MaxResizes
      BY <2>1 DEF BudgetType
    <3> QED  BY <1>1, <3>1, GivenPipeline
  <2> HIDE DEF b
  <2> QED  BY <1>1, <2>1, <2>2 DEF BudgetType
<1>4. /\ resizer' \in ResizerType /\ resizer'.pc = "wait" /\ resizer'.size = s
      /\ resizer'.flag = TRUE /\ resizer'.active = resizer.active /\ resizer'.gaveUp = resizer.gaveUp
  BY <1>1, <1>2 DEF Types, ResizerType
<1>5. ItemsGood' /\ RetuneHeld' /\ MemoryAccounted' /\ Counted' = Counted
  BY <1>1, <1>3, ResizeLeaves
<1>6. SizesAgree'
  BY <1>1, <1>4 DEF CInv, SizesAgree
<1>7. Types'
  BY <1>1, <1>3, <1>4, <1>5 DEF Types
<1> QED  BY <1>5, <1>6, <1>7, AllTogether

LEMMA DrainedKeeps == CInv /\ ResizeDrained => CInv'
<1> SUFFICES ASSUME CInv, ResizeDrained
             PROVE  CInv'
  OBVIOUS
<1> DEFINE g == resizer.gaveUp \/ resizer.active > 0
<1>1. /\ Types /\ resizer.pc = "wait"
      /\ resizer' = [resizer EXCEPT !.pc = "contexts", !.todo = Chan, !.gaveUp = g]
      /\ rx' = rx /\ raw' = raw /\ memory' = memory /\ switches' = switches /\ tuned' = tuned
      /\ dec' = dec /\ pbuf' = pbuf /\ fftq' = fftq /\ worker' = worker /\ ctx' = ctx
      /\ avg' = avg /\ shown' = shown /\ budget' = budget
  BY TypesAre DEF CInv, ResizeDrained
<1>2. /\ resizer \in ResizerType /\ resizer.active \in Nat
      /\ resizer.active = Cardinality(Counted)
  BY <1>1 DEF Types, ResizerType
<1>3. ~g => ~resizer.gaveUp /\ \A w \in Workers : worker[w].pc \in {"idle", "count"}
  <2> SUFFICES ASSUME ~g
               PROVE  \A w \in Workers : worker[w].pc \in {"idle", "count"}
    OBVIOUS
  <2>1. Cardinality(Counted) = 0
    BY <1>2
  <2>2. Counted = {}
    BY <2>1, CountedFinite, FS_EmptySet
  <2> QED  BY <2>2 DEF Counted
<1>4. g \in BOOLEAN
  OBVIOUS
<1> HIDE DEF g
<1>5. /\ resizer' \in ResizerType /\ resizer'.pc = "contexts" /\ resizer'.todo = Chan
      /\ resizer'.gaveUp = g /\ resizer'.size = resizer.size /\ resizer'.flag = resizer.flag
      /\ resizer'.active = resizer.active
  BY <1>1, <1>2, <1>4 DEF ResizerType
<1>6. ItemsGood' /\ RetuneHeld' /\ MemoryAccounted' /\ Counted' = Counted
  BY <1>1, ResizeLeaves
<1>7. SizesAgree'
  BY <1>1, <1>3, <1>5 DEF CInv, SizesAgree
<1>8. Types'
  BY <1>1, <1>5, <1>6 DEF Types
<1> QED  BY <1>6, <1>7, <1>8, AllTogether

LEMMA ContextKeeps == CInv /\ ResizeContext => CInv'
<1> SUFFICES ASSUME CInv, ResizeContext
             PROVE  CInv'
  OBVIOUS
<1>1. /\ Types /\ resizer.pc = "contexts"
      /\ rx' = rx /\ raw' = raw /\ memory' = memory /\ switches' = switches /\ tuned' = tuned
      /\ dec' = dec /\ pbuf' = pbuf /\ fftq' = fftq /\ worker' = worker
      /\ avg' = avg /\ shown' = shown /\ budget' = budget
  BY TypesAre DEF CInv, ResizeContext
<1>2. PICK c \in resizer.todo :
         /\ ctx' = [ctx EXCEPT ![c].size = resizer.size]
         /\ resizer' = [resizer EXCEPT !.todo = resizer.todo \ {c},
               !.pc = IF resizer.todo = {c} THEN "arrays" ELSE resizer.pc]
  BY DEF ResizeContext
<1> DEFINE pc == IF resizer.todo = {c} THEN "arrays" ELSE resizer.pc
<1>3. resizer \in ResizerType /\ resizer.size \in Sizes /\ resizer.todo \subseteq Chan /\ ctx \in CtxType
  BY <1>1 DEF Types, CInv, SizesAgree, ResizerType
<1>4. pc \in {"contexts", "arrays"} /\ (pc = "arrays" => resizer.todo = {c})
  BY <1>1
<1> HIDE DEF pc
<1>5. resizer' = [resizer EXCEPT !.todo = resizer.todo \ {c}, !.pc = pc]
  BY <1>2 DEF pc
<1>6. /\ resizer' \in ResizerType /\ resizer'.pc = pc /\ resizer'.todo = resizer.todo \ {c}
      /\ resizer'.gaveUp = resizer.gaveUp /\ resizer'.size = resizer.size
      /\ resizer'.flag = resizer.flag /\ resizer'.active = resizer.active
  BY <1>3, <1>4, <1>5 DEF ResizerType
<1>7. /\ ctx' \in CtxType /\ ctx'[c].size = resizer.size
      /\ \A d \in Chan : d # c => ctx'[d].size = ctx[d].size
  BY <1>2, <1>3 DEF CtxType
<1>8. ItemsGood' /\ RetuneHeld' /\ MemoryAccounted' /\ Counted' = Counted
  BY <1>1, ResizeLeaves
<1>9. SizesAgree'
  <2>1. (resizer'.flag <=> resizer'.pc # "idle") /\ resizer'.size \in Sizes
    BY <1>1, <1>3, <1>4, <1>6 DEF CInv, SizesAgree
  <2>2. ASSUME ~resizer.gaveUp
        PROVE  /\ \A w \in Workers : worker[w].pc \notin {"enter", "verify", "store"}
               /\ \A d \in Chan \ resizer.todo : ctx[d].size = resizer.size
    BY <1>1, <2>2 DEF CInv, SizesAgree
  <2>3. ~resizer.gaveUp => \A d \in Chan \ resizer'.todo : ctx'[d].size = resizer'.size
    BY <1>6, <1>7, <2>2
  <2>4. pc = "arrays" => resizer'.todo = {}
    BY <1>4, <1>6
  <2> QED  BY <1>1, <1>4, <1>6, <2>1, <2>2, <2>3, <2>4 DEF SizesAgree
<1>10. Types'
  BY <1>1, <1>6, <1>7, <1>8 DEF Types
<1> QED  BY <1>8, <1>9, <1>10, AllTogether

LEMMA ArraysKeeps == CInv /\ ResizeArrays => CInv'
<1> SUFFICES ASSUME CInv, ResizeArrays
             PROVE  CInv'
  OBVIOUS
<1>1. /\ Types /\ resizer.pc = "arrays"
      /\ rx' = rx /\ raw' = raw /\ memory' = memory /\ switches' = switches /\ tuned' = tuned
      /\ dec' = dec /\ pbuf' = pbuf /\ fftq' = fftq /\ worker' = worker /\ ctx' = ctx
      /\ shown' = shown /\ budget' = budget
      /\ avg' = [avg EXCEPT !.size = resizer.size, !.mix = [c \in Chan |-> {Floor}]]
      /\ resizer' = [resizer EXCEPT !.pc = "idle", !.flag = FALSE]
  BY TypesAre DEF CInv, ResizeArrays
<1>2. resizer \in ResizerType /\ resizer.size \in Sizes /\ avg \in AvgType
  BY <1>1 DEF Types, CInv, SizesAgree, ResizerType
<1>3. /\ resizer' \in ResizerType /\ resizer'.pc = "idle" /\ resizer'.flag = FALSE
      /\ resizer'.gaveUp = resizer.gaveUp /\ resizer'.active = resizer.active
  BY <1>1, <1>2 DEF ResizerType
<1>4. avg' \in AvgType /\ avg'.size = resizer.size
  <2>1. [c \in Chan |-> {Floor}] \in [Chan -> SUBSET ({Floor, Reset} \cup Ids)]
    OBVIOUS
  <2> QED  BY <1>1, <1>2, <2>1 DEF AvgType
<1>5. ItemsGood' /\ RetuneHeld' /\ MemoryAccounted' /\ Counted' = Counted
  BY <1>1, ResizeLeaves
<1>6. SizesAgree'
  BY <1>1, <1>3, <1>4 DEF CInv, SizesAgree
<1>7. Types'
  BY <1>1, <1>3, <1>4, <1>5 DEF Types
<1> QED  BY <1>5, <1>6, <1>7, AllTogether

-----------------------------------------------------------------------------
(* The invariant, and what follows from it. *)

LEMMA StartsWell == Init => CInv
<1> SUFFICES ASSUME Init
             PROVE  CInv
  OBVIOUS
<1>1. PICK s \in Sizes :
         /\ ctx = [c \in Chan |-> [size |-> s, holder |-> None]]
         /\ avg = [size |-> s, mix |-> [c \in Chan |-> {Floor}], lastGen |-> [c \in Chan |-> 0]]
  BY DEF Init
<1>2. /\ 0 \in Chan /\ 0 \in 0 .. MaxRetunes /\ None \in None .. MaxRetunes /\ 0 \in 0 .. Channels
      /\ 0 \in 0 .. MaxMemory /\ 0 <= MaxRaw /\ 0 <= MaxQueued /\ MaxPackets \in 0 .. MaxPackets
      /\ MaxSwitches \in 0 .. MaxSwitches /\ MaxResizes \in 0 .. MaxResizes /\ 0 \in 0 .. Places
  BY GivenPipeline DEF Chan, None
<1>3. rx \in RxType /\ rx.pc = "header" /\ rx.lastRef = None
  BY <1>2, AtStart DEF Init, RxType
<1>4. raw = <<>> /\ raw \in Seq(Packets) /\ Len(raw) = 0 /\ DOMAIN raw = {}
  BY DEF Init
<1>5. fftq = <<>> /\ fftq \in Seq(Items) /\ Len(fftq) = 0 /\ DOMAIN fftq = {}
  BY DEF Init
<1>6. memory = 0 /\ switches \in SwitchType
  BY <1>2 DEF Init, SwitchType
<1>7. tuned \in TunedType
  <2>1. (CHOOSE n \in Counts : TRUE) \in Counts
    BY GivenPipeline
  <2> QED  BY <1>2, <2>1 DEF Init, TunedType
<1>8. dec \in DecType /\ dec.pc = "pop"
  BY AtStart DEF Init
<1>9. pbuf \in PbufType
  BY <1>2 DEF Init, PbufType
<1>10. worker \in [Workers -> WorkType] /\ \A w \in Workers : worker[w].pc = "idle"
  BY AtStart DEF Init
<1>11. ctx \in CtxType /\ avg \in AvgType /\ \A c \in Chan : ctx[c].size = avg.size
  BY <1>1 DEF CtxType, AvgType
<1>12. shown \in ShownType
  BY DEF Init, ShownType
<1>13. resizer \in ResizerType /\ resizer.pc = "idle" /\ resizer.flag = FALSE /\ resizer.active = 0
  BY DEF Init, ResizerType
<1>14. budget \in BudgetType /\ budget.packets = MaxPackets
  BY <1>2 DEF Init, BudgetType
<1>15. Cardinality(Counted) = 0
  <2>1. Counted = {}
    BY <1>10 DEF Counted
  <2> QED  BY <2>1, FS_EmptySet
<1>16. Types
  BY <1>2, <1>3, <1>4, <1>5, <1>6, <1>7, <1>8, <1>9, <1>10, <1>11, <1>12, <1>13, <1>14, <1>15 DEF Types
<1>17. ItemsGood
  BY <1>5, <1>8, <1>10 DEF ItemsGood, CopyGood, QueueGood, WorkerGood
<1>18. SizesAgree
  BY <1>10, <1>11, <1>13 DEF SizesAgree
<1>19. RetuneHeld
  <2>1. InFlight = {}
    BY <1>4, <1>8 DEF InFlight
  <2> QED  BY <1>3, <2>1 DEF RetuneHeld
<1>20. MemoryAccounted
  <2>1. HeldBy(raw) = {}
    BY <1>4 DEF HeldBy
  <2> QED  BY <1>6, <2>1, MemoryIs, FS_EmptySet DEF MemoryAccounted
<1> QED  BY <1>16, <1>17, <1>18, <1>19, <1>20, TypesAre DEF CInv

LEMMA StepsKeep == CInv /\ [Next]_vars => CInv'
<1> SUFFICES ASSUME CInv, [Next]_vars
             PROVE  CInv'
  OBVIOUS
<1>1. CASE Receiver
  BY <1>1, HeaderKeeps, ResetKeeps, FillKeeps, UpdateKeeps, ArmKeeps, PushKeeps DEF Receiver
<1>2. CASE Decimation
  BY <1>2, PopKeeps, GateKeeps, SpectrumKeeps, CopyKeeps, EnqueueKeeps DEF Decimation
<1>3. CASE \E w \in Workers : Work(w)
  BY <1>3, TakeKeeps, CountKeeps, RecheckKeeps, EnterKeeps, ExecuteKeeps, DiscardKeeps,
     StoreKeeps DEF Work
<1>4. CASE Resize
  BY <1>4, BeginKeeps, DrainedKeeps, ContextKeeps, ArraysKeeps DEF Resize
<1>5. CASE HoldExpires
  BY <1>5, HoldKeeps
<1>6. CASE Switch
  BY <1>6, SwitchKeeps
<1>7. CASE UNCHANGED vars
  BY <1>7, StutterKeeps
<1> QED  BY <1>1, <1>2, <1>3, <1>4, <1>5, <1>6, <1>7 DEF Next

\* The inductive invariant: types and limits, what queued work may rely on, the
\* sizes of contexts and averages, and which packets may have an old frequency.
THEOREM PipelineInvariant == Spec => []CInv
BY StartsWell, StepsKeep, PTL DEF Spec

\* The counters are right, every frame that reaches an average was read from one
\* packet, no worker writes past the averages unless the resize gave up waiting,
\* and the memory count is that of the queued packets.
THEOREM PipelineCorrect == Spec => []PipelineSound
<1>1. CInv => PipelineSound
  <2> SUFFICES ASSUME CInv
               PROVE  PipelineSound
    OBVIOUS
  <2>1. TypeOK /\ MemoryAccounted
    BY DEF CInv
  <2>2. FramesWhole
    BY DEF CInv, ItemsGood, WorkerGood, FramesWhole
  <2>3. WritesInBounds
    <3> SUFFICES ASSUME NEW w \in Workers, worker[w].pc = "store", ~resizer.gaveUp
                 PROVE  worker[w].size <= avg.size
      BY DEF WritesInBounds
    <3>1. worker[w].size = avg.size
      BY DEF CInv, SizesAgree
    <3>2. avg.size \in Nat
      BY TypesAre, GivenPipeline DEF CInv, Types, AvgType
    <3> QED  BY <3>1, <3>2
  <2> QED  BY <2>1, <2>2, <2>3 DEF PipelineSound
<1> QED  BY <1>1, PipelineInvariant, PTL

\* A packet that goes to MUSIC has the frequency of the label, or the receiver is
\* between the label and the hold.
THEOREM HoldKept == Spec => HoldCoversOldPackets
<1> DEFINE Labelled == dec.pc = "gate" /\ dec'.pc = "music" =>
                          dec.packet.freq = tuned.freq \/ rx.pc = "arm"
<1>1. CInv /\ [Next]_vars => [Labelled]_vars
  <2> SUFFICES ASSUME CInv, Next, dec.pc = "gate", dec'.pc = "music", rx.pc # "arm"
               PROVE  dec.packet.freq = tuned.freq
    OBVIOUS
  <2>1. dec' # dec
    OBVIOUS
  <2>2. ~Receiver
    BY <2>1, ReceiverLeaves
  <2>3. ~\E w \in Workers : Work(w)
    BY <2>1 DEF Work, WorkerTake, WorkerCount, WorkerRecheck, WorkerEnter, WorkerExecute,
                WorkerDiscard, WorkerStore, Leave
  <2>4. ~Resize /\ ~HoldExpires /\ ~Switch
    BY <2>1 DEF Resize, ResizeBegin, ResizeDrained, ResizeContext, ResizeArrays, HoldExpires, Switch
  <2>5. DecGate
    BY <2>2, <2>3, <2>4 DEF Next, Decimation, DecPop, DecSpectrum, DecCopy, DecEnqueue
  <2>6. ~tuned.hold
    <3>1. dec \in DecType
      BY TypesAre DEF CInv, Types
    <3>2. dec'.pc = IF /\ ~dec.wideband /\ dec.elements >= 2
                       /\ dec.packet.n >= tuned.elements /\ switches.doa
                       /\ ~tuned.hold
                       /\ 0 .. dec.elements - 1 \subseteq dec.packet.converted
                    THEN "music" ELSE "spectrum"
      BY <2>5, <3>1 DEF DecGate, DecType
    <3> QED  BY <3>2
  <2>7. dec.packet \in InFlight
    BY DEF InFlight
  <2>8. dec.packet.freq = rx.lastRef /\ rx.lastRef # None
    BY <2>6, <2>7 DEF CInv, RetuneHeld
  <2> QED  BY <2>8 DEF CInv, RetuneHeld
<1>2. Spec => [][Labelled]_vars
  BY <1>1, PipelineInvariant, PTL DEF Spec
<1> QED  BY <1>2 DEF HoldCoversOldPackets

=============================================================================
