------------------------------- MODULE ScanProofs -------------------------------
(***************************************************************************)
(* The discrete scanner for any lists of frequencies, any commands of the  *)
(* user and any number of them.                                            *)
(*                                                                         *)
(* The commands between client and heimdall are under way in order.  Ends  *)
(* says what a switch will be at once they have all been carried out; what *)
(* the client believes of heimdall is related to that, not to what heimdall *)
(* is at now.  ComesTo says that all that is under way, the hop included,  *)
(* leaves the tuners on one frequency.                                     *)
(*                                                                         *)
(* The second half is about the continuous scanner, for any plan of bands, *)
(* any signals and decimators.  Where says when what the client has is of  *)
(* the band heimdall is on, Clean what is in the average and which of the  *)
(* clocks and flags keep the scan from looking at it.                      *)
(***************************************************************************)
EXTENDS DiscreteScan, ContinuousScan, SequenceTheorems, FiniteSetTheorems, NaturalsInduction,
        WellFoundedInduction, TLAPS

-----------------------------------------------------------------------------
(* Sets of numbers. *)

LEMMA LeastNat ==
    ASSUME NEW T \in SUBSET Nat, T # {}
    PROVE  \E i \in T : \A j \in T : i <= j
<1>1. PICK i \in T : \A j \in T : ~(<<j, i>> \in OpToRel(<, Nat))
  BY NatLessThanWellFounded, WFMin, Zenon
<1>2. \A j \in T : ~(j < i)
  BY <1>1 DEF OpToRel
<1> QED  BY <1>2

\* A finite set of numbers has a greatest.
LEMMA GreatestNat ==
    ASSUME NEW T \in SUBSET Nat, T # {}, IsFiniteSet(T)
    PROVE  \E i \in T : \A j \in T : j <= i
<1>1. ExistsBijection(1 .. Cardinality(T), T) /\ Cardinality(T) \in Nat
  BY FS_CardinalityType
<1>2. PICK s \in Surjection(1 .. Cardinality(T), T) : TRUE
  BY <1>1 DEF ExistsBijection, Bijection
<1>3. s \in [1 .. Cardinality(T) -> T] /\ \A t \in T : \E i \in 1 .. Cardinality(T) : s[i] = t
  BY <1>2 DEF Surjection
<1> DEFINE Bounds(n) == {m \in Nat : \A i \in 1 .. n : s[i] <= m}
           Unbounded == {n \in 0 .. Cardinality(T) : Bounds(n) = {}}
<1>4. Unbounded = {}
  <2>1. SUFFICES ASSUME Unbounded # {} PROVE FALSE
    OBVIOUS
  <2>2. PICK n \in Unbounded : \A k \in Unbounded : n <= k
    <3>1. Unbounded \in SUBSET Nat
      BY <1>1
    <3> QED  BY <2>1, <3>1, LeastNat
  <2>3. 0 \in Bounds(0)
    OBVIOUS
  <2>4. n \in 1 .. Cardinality(T) /\ n - 1 \in 0 .. Cardinality(T)
    BY <1>1, <2>2, <2>3
  <2>5. n - 1 \notin Unbounded
    BY <2>2, <2>4
  <2>6. PICK m \in Nat : \A i \in 1 .. n - 1 : s[i] <= m
    BY <2>4, <2>5
  <2>7. s[n] \in Nat
    BY <1>3, <2>4
  <2>8. CASE s[n] <= m
    <3>1. \A i \in 1 .. n : s[i] <= m
      BY <2>4, <2>6, <2>8
    <3> QED  BY <2>2, <3>1
  <2>9. CASE ~(s[n] <= m)
    <3>1. ASSUME NEW i \in 1 .. n PROVE s[i] <= s[n]
      <4>1. i \in 1 .. Cardinality(T)
        BY <1>1, <2>4
      <4>2. s[i] \in Nat
        BY <1>3, <4>1
      <4> QED  BY <2>4, <2>6, <2>7, <2>9, <4>2
    <3> QED  BY <2>2, <2>7, <3>1
  <2> QED  BY <2>8, <2>9
<1>5. PICK m \in Nat : \A i \in 1 .. Cardinality(T) : s[i] <= m
  <2>1. Cardinality(T) \in 0 .. Cardinality(T)
    BY <1>1
  <2>2. Bounds(Cardinality(T)) # {}
    BY <1>4, <2>1
  <2> QED  BY <2>2
<1> DEFINE Gaps == {m - t : t \in T}
<1>6. \A t \in T : t <= m
  BY <1>3, <1>5
<1>7. Gaps \in SUBSET Nat /\ Gaps # {}
  <2>1. \A t \in T : m - t \in Nat
    BY <1>6
  <2> QED  BY <2>1
<1>8. PICK g \in Gaps : \A h \in Gaps : g <= h
  BY <1>7, LeastNat
<1>9. PICK t \in T : g = m - t
  OBVIOUS
<1>10. \A u \in T : m - t <= m - u
  BY <1>8, <1>9
<1> QED  BY <1>10

\* A finite set of numbers can be listed in ascending order.
LEMMA CanBeListed ==
    ASSUME NEW T \in SUBSET Nat, IsFiniteSet(T)
    PROVE  \E s \in [1 .. Cardinality(T) -> T] :
              \A i, k \in 1 .. Cardinality(T) : i < k => s[i] < s[k]
<1> DEFINE Listings(S) == {s \in [1 .. Cardinality(S) -> S] :
                             \A i, k \in 1 .. Cardinality(S) : i < k => s[i] < s[k]}
           Unlisted == {Cardinality(S) : S \in {S \in SUBSET Nat : IsFiniteSet(S) /\ Listings(S) = {}}}
<1>1. SUFFICES Unlisted = {}
  OBVIOUS
<1>2. SUFFICES ASSUME Unlisted # {} PROVE FALSE
  OBVIOUS
<1>3. Unlisted \in SUBSET Nat
  BY FS_CardinalityType
<1>4. PICK n \in Unlisted : \A k \in Unlisted : n <= k
  BY <1>2, <1>3, LeastNat
<1>5. PICK S \in SUBSET Nat : IsFiniteSet(S) /\ Listings(S) = {} /\ n = Cardinality(S)
  BY <1>4
<1>6. Cardinality(S) \in Nat
  BY <1>5, FS_CardinalityType
<1>7. S # {}
  <2>1. SUFFICES ASSUME S = {} PROVE FALSE
    OBVIOUS
  <2>2. Cardinality(S) = 0
    BY <2>1, FS_EmptySet
  <2>3. [i \in 1 .. Cardinality(S) |-> 0] \in Listings(S)
    BY <2>2
  <2> QED  BY <1>5, <2>3
<1>8. PICK m \in S : \A j \in S : j <= m
  BY <1>5, <1>7, GreatestNat
<1> DEFINE R == S \ {m}
<1>9. R \in SUBSET Nat /\ IsFiniteSet(R) /\ Cardinality(R) = Cardinality(S) - 1
  BY <1>5, <1>8, FS_RemoveElement
<1>10. Cardinality(R) \notin Unlisted
  <2>1. Cardinality(R) < n /\ Cardinality(R) \in Int /\ n \in Int
    BY <1>5, <1>6, <1>9
  <2> QED  BY <1>4, <2>1
<1>11. PICK r \in [1 .. Cardinality(R) -> R] :
            \A i, k \in 1 .. Cardinality(R) : i < k => r[i] < r[k]
  BY <1>9, <1>10
<1> DEFINE c == Cardinality(S)
           s == [i \in 1 .. c |-> IF i = c THEN m ELSE r[i]]
<1>12. \A i \in 1 .. c : i # c => i \in 1 .. Cardinality(R)
  BY <1>6, <1>9
<1>13. s \in [1 .. c -> S]
  <2>1. ASSUME NEW i \in 1 .. c, i # c PROVE r[i] \in S
    <3>1. r[i] \in R
      BY <1>11, <1>12, <2>1
    <3> QED  BY <3>1
  <2> QED  BY <2>1
<1>14. ASSUME NEW i \in 1 .. c, NEW k \in 1 .. c, i < k PROVE s[i] < s[k]
  <2>0. i # c
    BY <1>6, <1>14
  <2>1. i \in 1 .. Cardinality(R) /\ s[i] = r[i]
    BY <1>12, <2>0
  <2>2. CASE k = c
    <3>1. r[i] \in R
      BY <1>11, <2>1
    <3>2. r[i] <= m /\ r[i] # m /\ r[i] \in Nat /\ m \in Nat
      BY <1>8, <3>1
    <3> QED  BY <2>1, <2>2, <3>2
  <2>3. CASE k # c
    BY <1>11, <1>12, <1>14, <2>1, <2>3
  <2> QED  BY <2>2, <2>3
<1>15. s \in Listings(S)
  BY <1>13, <1>14
<1> QED  BY <1>5, <1>15

LEMMA AscendingLists ==
    ASSUME NEW T \in SUBSET Nat, IsFiniteSet(T)
    PROVE  LET s == Ascending(T) IN
           /\ Cardinality(T) \in Nat /\ s \in [1 .. Cardinality(T) -> T]
           /\ \A i, k \in 1 .. Cardinality(T) : i < k => s[i] < s[k]
           /\ \A f \in T : \E i \in 1 .. Cardinality(T) : s[i] = f
<1> DEFINE s == Ascending(T)
           c == Cardinality(T)
<1>1. s \in [1 .. c -> T] /\ \A i, k \in 1 .. c : i < k => s[i] < s[k]
  BY CanBeListed DEF Ascending
<1>2. c \in Nat
  BY FS_CardinalityType
<1>3. ASSUME NEW i \in 1 .. c, NEW k \in 1 .. c, s[i] = s[k] PROVE i = k
  <2>1. s[i] \in Nat /\ s[k] \in Nat
    BY <1>1
  <2>2. ~(i < k) /\ ~(k < i)
    BY <1>1, <1>3, <2>1
  <2> QED  BY <1>2, <2>2
<1>4. s \in Injection(1 .. c, T)
  BY <1>1, <1>3 DEF Injection, IsInjective
<1>5. Cardinality(1 .. c) = c
  BY <1>2, FS_Interval
<1>6. s \in Surjection(1 .. c, T)
  BY <1>4, <1>5, FS_Injection
<1>7. \A f \in T : \E i \in 1 .. c : s[i] = f
  BY <1>6 DEF Surjection
<1> QED  BY <1>1, <1>2, <1>7

-----------------------------------------------------------------------------
(* The groups of a list, one frequency after the other.                      *)

LEMMA Foldable ==
    ASSUME NEW n \in Nat, NEW s
    PROVE  \E a : a = [i \in 0 .. n |-> IF i = 0 THEN <<>> ELSE Grouped(a[i - 1], s[i])]
<1> DEFINE Fits(a, k) == a = [i \in 0 .. k |-> IF i = 0 THEN <<>> ELSE Grouped(a[i - 1], s[i])]
           Bad == {k \in 0 .. n : ~ \E a : Fits(a, k)}
<1>1. SUFFICES Bad = {}
  OBVIOUS
<1>2. SUFFICES ASSUME Bad # {} PROVE FALSE
  OBVIOUS
<1>3. PICK k \in Bad : \A j \in Bad : k <= j
  <2>1. Bad \in SUBSET Nat
    OBVIOUS
  <2> QED  BY <1>2, <2>1, LeastNat
<1>4. k \in 0 .. n /\ ~ \E a : Fits(a, k)
  OBVIOUS
<1>5. k # 0
  <2>1. ASSUME k = 0 PROVE Fits([i \in 0 .. k |-> <<>>], k)
    BY <2>1
  <2> QED  BY <1>4, <2>1
<1>6. k - 1 \in 0 .. n /\ k - 1 < k
  BY <1>4, <1>5
<1>7. k - 1 \notin Bad
  <2>1. ~(k <= k - 1)
    BY <1>4
  <2> HIDE DEF Bad
  <2> QED  BY <1>3, <2>1
<1>8. PICK b : Fits(b, k - 1)
  BY <1>6, <1>7
<1> DEFINE a == [i \in 0 .. k |-> IF i = k THEN Grouped(b[k - 1], s[k]) ELSE b[i]]
<1>9. ASSUME NEW i \in 0 .. k
      PROVE  a[i] = IF i = 0 THEN <<>> ELSE Grouped(a[i - 1], s[i])
  <2>1. CASE i = k
    <3>1. a[k - 1] = b[k - 1]
      BY <1>4, <1>5, <1>6
    <3> QED  BY <1>5, <2>1, <3>1
  <2>2. CASE i # k
    BY <1>4, <2>2, <1>8
  <2> QED  BY <2>1, <2>2
<1>10. Fits(a, k)
  BY <1>9
<1> QED  BY <1>4, <1>10

Groups == [min : Nat, max : Nat]

\* Groups of frequencies up to `last`, each within the span and the next beyond it.
Tight(gs, fs, last) ==
    /\ gs \in Seq(Groups)
    /\ \A k \in 1 .. Len(gs) :
          /\ gs[k].min \in fs /\ gs[k].max \in fs /\ gs[k].max <= last
          /\ gs[k].min <= gs[k].max /\ gs[k].max - gs[k].min <= MaxSpan
    /\ gs # <<>> => gs[Len(gs)].max = last
    /\ \A i, k \in 1 .. Len(gs) : i < k => gs[k].min - gs[i].min > MaxSpan
Holds(gs, f) == \E k \in 1 .. Len(gs) : gs[k].min <= f /\ f <= gs[k].max

LEMMA GroupedIsTight ==
    ASSUME NEW fs \in SUBSET Nat, NEW gs, NEW last \in Nat, Tight(gs, fs, last),
           NEW f \in fs, last <= f
    PROVE  LET hs == Grouped(gs, f) IN
           /\ Tight(hs, fs, f) /\ hs # <<>> /\ Holds(hs, f)
           /\ \A g \in fs : g <= last /\ Holds(gs, g) => Holds(hs, g)
<1> DEFINE hs == Grouped(gs, f)
           n == Len(gs)
<1>0. f \in Nat /\ MaxSpan \in Nat /\ n \in Nat /\ gs \in Seq(Groups) /\ DOMAIN gs = 1 .. n
  <2>1. gs \in Seq(Groups)
    BY DEF Tight
  <2>2. n \in Nat /\ DOMAIN gs = 1 .. n
    BY <2>1
  <2>3. f \in Nat /\ MaxSpan \in Nat
    BY ScanAssumption
  <2> QED  BY <2>1, <2>2, <2>3
<1>1. \A k \in 1 .. n : gs[k] \in Groups /\ gs[k].min \in Nat /\ gs[k].max \in Nat
  <2>1. ASSUME NEW k \in 1 .. n PROVE gs[k] \in Groups
    BY <1>0, <2>1, ElementOfSeq
  <2> QED  BY <2>1 DEF Groups
<1>2. CASE gs # <<>> /\ Joins(gs[Len(gs)], f)
  <2> DEFINE g == [gs[n] EXCEPT !.max = f]
  <2>1. n \in 1 .. n
    BY <1>0, <1>2
  <2>2. hs = [gs EXCEPT ![n] = g]
    BY <1>2 DEF Grouped
  <2>3. g \in Groups /\ g.min = gs[n].min /\ g.max = f
    BY <1>0, <1>1, <2>1 DEF Groups
  <2>4. hs \in Seq(Groups) /\ Len(hs) = n /\ hs[n] = g /\ \A k \in 1 .. n : k # n => hs[k] = gs[k]
    BY <1>0, <2>1, <2>2, <2>3, ExceptSeq
  <2>5. f - gs[n].min <= MaxSpan
    BY <1>2 DEF Joins
  <2>6. gs[n].max = last /\ gs[n].min <= gs[n].max
    BY <1>2, <2>1 DEF Tight
  <2>7. \A k \in 1 .. n : hs[k].min = gs[k].min
    BY <2>3, <2>4
  <2>8. ASSUME NEW k \in 1 .. n
        PROVE  /\ hs[k].min \in fs /\ hs[k].max \in fs /\ hs[k].max <= f
               /\ hs[k].min <= hs[k].max /\ hs[k].max - hs[k].min <= MaxSpan
    <3>1. CASE k = n
      <4>1. hs[k].min = gs[n].min /\ hs[k].max = f
        BY <2>3, <2>4, <3>1
      <4>2. gs[n].min \in fs /\ gs[n].min \in Nat
        BY <1>1, <2>1 DEF Tight
      <4>3. gs[n].min <= last
        BY <2>6
      <4> QED  BY <1>0, <2>5, <4>1, <4>2, <4>3
    <3>2. CASE k # n
      BY <2>4, <3>2, <1>0, <1>1 DEF Tight
    <3> QED  BY <3>1, <3>2
  <2>9. Tight(hs, fs, f)
    BY <2>3, <2>4, <2>7, <2>8 DEF Tight
  <2>10. Holds(hs, f)
    <3>1. hs[n].min <= f /\ f <= hs[n].max
      BY <1>1, <2>1, <2>3, <2>4, <1>0, <2>6
    <3> QED  BY <2>1, <2>4, <3>1 DEF Holds
  <2>11. ASSUME NEW x \in fs, x <= last, Holds(gs, x) PROVE Holds(hs, x)
    <3>1. PICK k \in 1 .. n : gs[k].min <= x /\ x <= gs[k].max
      BY <2>11 DEF Holds
    <3>2. hs[k].min <= x /\ x <= hs[k].max
      <4>1. CASE k = n
        <5>1. hs[k].min = gs[k].min /\ hs[k].max = f
          BY <2>3, <2>4, <4>1
        <5>2. x \in Nat
          OBVIOUS
        <5> QED  BY <1>0, <2>11, <3>1, <5>1, <5>2
      <4>2. CASE k # n
        BY <2>4, <3>1, <4>2
      <4> QED  BY <4>1, <4>2
    <3> QED  BY <2>4, <3>2 DEF Holds
  <2> QED  BY <2>1, <2>4, <2>9, <2>10, <2>11
<1>3. CASE ~(gs # <<>> /\ Joins(gs[Len(gs)], f))
  <2> DEFINE g == [min |-> f, max |-> f]
  <2>1. hs = Append(gs, g) /\ g \in Groups
    BY <1>0, <1>3 DEF Grouped, Groups
  <2>2. hs \in Seq(Groups) /\ Len(hs) = n + 1 /\ hs[n + 1] = g /\ \A k \in 1 .. n : hs[k] = gs[k]
    BY <1>0, <2>1
  <2>3. ASSUME NEW i \in 1 .. n PROVE f - gs[i].min > MaxSpan
    <3>1. n \in 1 .. n /\ gs # <<>>
      BY <1>0, <2>3
    <3>2. f - gs[n].min > MaxSpan
      BY <1>0, <1>1, <1>3, <3>1 DEF Joins
    <3>3. i = n \/ gs[n].min - gs[i].min > MaxSpan
      <4>1. i = n \/ i < n
        <5>1. n \in Nat
          BY <1>0
        <5> HIDE DEF n
        <5> QED  BY <5>1
      <4> QED  BY <3>1, <4>1 DEF Tight
    <3>4. gs[n].min \in Nat /\ gs[i].min \in Nat
      BY <1>1, <3>1
    <3>5. f \in Nat /\ MaxSpan \in Nat
      BY <1>0
    <3> HIDE DEF n, g, hs
    <3> QED  BY <3>2, <3>3, <3>4, <3>5
  <2>4. ASSUME NEW k \in 1 .. n + 1
        PROVE  /\ hs[k].min \in fs /\ hs[k].max \in fs /\ hs[k].max <= f
               /\ hs[k].min <= hs[k].max /\ hs[k].max - hs[k].min <= MaxSpan
    <3>1. CASE k = n + 1
      BY <1>0, <2>2, <3>1
    <3>2. CASE k # n + 1
      BY <1>0, <2>2, <3>2, <1>1 DEF Tight
    <3> QED  BY <3>1, <3>2
  <2>5. ASSUME NEW i \in 1 .. n + 1, NEW k \in 1 .. n + 1, i < k
        PROVE  hs[k].min - hs[i].min > MaxSpan
    <3>1. i \in 1 .. n /\ hs[i] = gs[i]
      BY <1>0, <2>2, <2>5
    <3>2. CASE k = n + 1
      BY <2>2, <2>3, <3>1, <3>2
    <3>3. CASE k # n + 1
      BY <1>0, <2>2, <2>5, <3>1, <3>3 DEF Tight
    <3> QED  BY <3>2, <3>3
  <2>6. Tight(hs, fs, f)
    BY <1>0, <2>2, <2>4, <2>5 DEF Tight
  <2>7. Holds(hs, f) /\ hs # <<>>
    BY <1>0, <2>2 DEF Holds
  <2>8. ASSUME NEW x \in fs, x <= last, Holds(gs, x) PROVE Holds(hs, x)
    <3>1. PICK k \in 1 .. n : gs[k].min <= x /\ x <= gs[k].max
      BY <2>8 DEF Holds
    <3>2. k \in 1 .. Len(hs)
      BY <1>0, <2>2
    <3> QED  BY <2>2, <3>1, <3>2 DEF Holds
  <2> QED  BY <2>6, <2>7, <2>8
<1> QED  BY <1>2, <1>3

\* Every frequency is in a group, each group within the span of its first
\* frequency, and the next begins beyond it (buildFrequencyGroups).
LEMMA GroupsTight ==
    ASSUME NEW fs \in SUBSET Nat, IsFiniteSet(fs)
    PROVE  /\ \E last \in Nat : Tight(GroupsOf(fs), fs, last)
           /\ \A f \in fs : Holds(GroupsOf(fs), f)
           /\ fs # {} => GroupsOf(fs) # <<>>
<1> DEFINE n == Cardinality(fs)
           s == Ascending(fs)
           a == CHOOSE a : a = [i \in 0 .. n |-> IF i = 0 THEN <<>> ELSE Grouped(a[i - 1], s[i])]
<1>1. /\ n \in Nat /\ s \in [1 .. n -> fs]
      /\ \A i, k \in 1 .. n : i < k => s[i] < s[k]
      /\ \A f \in fs : \E i \in 1 .. n : s[i] = f
  BY AscendingLists
<1>2. a = [i \in 0 .. n |-> IF i = 0 THEN <<>> ELSE Grouped(a[i - 1], s[i])]
  BY <1>1, Foldable
<1>3. GroupsOf(fs) = a[n]
  BY DEF GroupsOf
<1> HIDE DEF a
<1> DEFINE at(i) == IF i = 0 THEN 0 ELSE s[i]
           Done(i) == /\ Tight(a[i], fs, at(i)) /\ (i > 0 => a[i] # <<>>)
                      /\ \A k \in 1 .. i : Holds(a[i], s[k])
           Bad == {i \in 0 .. n : ~Done(i)}
<1>4. Bad = {}
  <2>1. SUFFICES ASSUME Bad # {} PROVE FALSE
    OBVIOUS
  <2>2. PICK m \in Bad : \A j \in Bad : m <= j
    <3>1. Bad \in SUBSET Nat
      BY <1>1
    <3> QED  BY <2>1, <3>1, LeastNat
  <2>3. Done(0)
    <3>1. a[0] = <<>>
      BY <1>1, <1>2
    <3>2. Tight(<<>>, fs, 0)
      BY EmptySeq DEF Tight
    <3> QED  BY <3>1, <3>2
  <2>4. m \in 0 .. n /\ ~Done(m)
    OBVIOUS
  <2>5. m # 0
    BY <2>3, <2>4
  <2>6. m \in 1 .. n /\ m - 1 \in 0 .. n
    BY <1>1, <2>4, <2>5
  <2> DEFINE p == m - 1
  <2>7. Done(p)
    <3>1. p \notin Bad
      BY <1>1, <2>2, <2>6
    <3> QED  BY <2>6, <3>1
  <2>8. a[m] = Grouped(a[p], s[m])
    BY <1>2, <2>4, <2>5
  <2>9. s[m] \in fs /\ at(p) \in Nat /\ at(p) <= s[m] /\ at(m) = s[m]
    <3>1. s[m] \in fs /\ s[m] \in Nat
      BY <1>1, <2>6
    <3>2. CASE p = 0
      BY <2>5, <3>1, <3>2
    <3>3. CASE p # 0
      <4>1. p \in 1 .. n /\ p < m
        BY <1>1, <2>6, <3>3
      <4>2. s[p] \in fs /\ s[p] < s[m]
        BY <1>1, <2>6, <4>1
      <4>3. s[p] \in Nat
        BY <4>2
      <4> QED  BY <2>5, <3>1, <3>3, <4>2, <4>3
    <3> QED  BY <3>2, <3>3
  <2>10. \A k \in 1 .. p : s[k] \in fs /\ s[k] <= at(p)
    <3>1. ASSUME NEW k \in 1 .. p PROVE s[k] \in fs /\ s[k] <= at(p)
      <4>1. k \in 1 .. n /\ p \in 1 .. n /\ p # 0
        BY <1>1, <2>6
      <4>2. s[k] \in fs /\ s[p] \in fs /\ s[k] \in Nat /\ s[p] \in Nat
        BY <1>1, <4>1
      <4>3. k = p \/ k < p
        BY <2>6
      <4>4. k = p \/ s[k] < s[p]
        BY <1>1, <4>1, <4>3
      <4> QED  BY <4>1, <4>2, <4>4
    <3> QED  BY <3>1
  <2> DEFINE b == a[p]
             l == at(p)
             f == s[m]
  <2>11. Tight(b, fs, l) /\ \A k \in 1 .. p : Holds(b, s[k])
    BY <2>7
  <2>12. /\ Tight(a[m], fs, f) /\ a[m] # <<>> /\ Holds(a[m], f)
         /\ \A g \in fs : g <= l /\ Holds(b, g) => Holds(a[m], g)
    <3>1. a[m] = Grouped(b, f) /\ l \in Nat /\ f \in fs /\ l <= f
      BY <2>8, <2>9
    <3> HIDE DEF b, l, f
    <3> QED  BY <2>11, <3>1, GroupedIsTight
  <2>13. ASSUME NEW k \in 1 .. m PROVE Holds(a[m], s[k])
    <3>1. CASE k = m
      BY <2>12, <3>1
    <3>2. CASE k # m
      <4>1. k \in 1 .. p
        BY <2>6, <3>2
      <4> QED  BY <2>10, <2>11, <2>12, <4>1
    <3> QED  BY <3>1, <3>2
  <2>14. Done(m)
    BY <2>9, <2>12, <2>13
  <2> QED  BY <2>4, <2>14
<1>5. n \in 0 .. n /\ Done(n)
  <2>1. n \in 0 .. n
    BY <1>1
  <2> QED  BY <1>4, <2>1
<1>6. \E last \in Nat : Tight(a[n], fs, last)
  <2>1. at(n) \in Nat
    <3>1. CASE n = 0
      BY <3>1
    <3>2. CASE n # 0
      <4>1. n \in 1 .. n
        BY <1>1, <3>2
      <4>2. s[n] \in fs
        BY <1>1, <4>1
      <4> QED  BY <3>2, <4>2
    <3> QED  BY <3>1, <3>2
  <2> QED  BY <1>5, <2>1
<1>7. \A f \in fs : Holds(a[n], f)
  BY <1>1, <1>5
<1>8. fs # {} => a[n] # <<>>
  <2>1. ASSUME fs # {} PROVE n > 0
    <3>1. PICK f \in fs : TRUE
      BY <2>1
    <3>2. PICK i \in 1 .. n : s[i] = f
      BY <1>1
    <3> QED  BY <1>1, <3>2
  <2> QED  BY <1>5, <2>1
<1> QED  BY <1>3, <1>6, <1>7, <1>8

-----------------------------------------------------------------------------
(* The inductive invariant. *)

\* What the last of the commands on their way that concern a switch leaves it at.
Asks(ch, on, off) == {i \in DOMAIN ch : ch[i].op \in {on, off}}
LastAsk(ch, on, off) == CHOOSE i \in Asks(ch, on, off) : \A j \in Asks(ch, on, off) : j <= i
Ends(ch, on, off, now) ==
    IF Asks(ch, on, off) = {} THEN now ELSE ch[LastAsk(ch, on, off)].op = on

Ops == {"wide", "coherent", "frequency", "configure", "start", "stop"}
CommandSet == [op : Ops, f : Nat, list : Seq(Nat)]

\* A list of centres, as start() makes it of a configuration.
IsPlan(list) == \E c \in Configs : list = Centers(GroupsOf(Enabled(c))) /\ list # <<>>

ClientSet == [running : BOOLEAN, state : {"idle", "scanning", "locked"}, wide : BOOLEAN,
              locked : Nat, settling : BOOLEAN, groups : Seq(Nat), fm : BOOLEAN,
              fmBefore : BOOLEAN, doa : BOOLEAN, doaBefore : BOOLEAN]
WorkerSet == [pc : {"idle", "lock", "coherent", "frequency", "locked", "resume", "configure", "start"},
              index : Nat \ {0}, f : Nat, groups : Seq(Nat)]
ServerSet == [enabled : BOOLEAN, list : Seq(Nat), index : Nat, wide : BOOLEAN, freq : Nat,
              base : Nat, hw : [wide : BOOLEAN, f : Nat]]
HopSet == [pc : {"top", "read", "tune", "dwell"}, n : Nat \ {0}, index : Nat, f : Nat]

ScanTypes ==
    /\ conf \in Configs /\ web \in {"idle", "start"} /\ ctl \in {"idle", "coherent", "spread"}
    /\ client \in ClientSet /\ worker \in WorkerSet /\ chan \in Seq(CommandSet)
    /\ server \in ServerSet /\ hop \in HopSet /\ crossed \in BOOLEAN

\* The lists that are about, and the indices into them.
Index(i) == i > 0 => \E c \in Configs : i < Len(GroupsOf(Enabled(c)))
Length(n) == \E c \in Configs : n = Len(GroupsOf(Enabled(c)))
PlansOnly(ch) == \A i \in DOMAIN ch : ch[i].op = "configure" => IsPlan(ch[i].list)
Lists ==
    /\ client.groups = <<>> \/ IsPlan(client.groups)
    /\ server.list = <<>> \/ IsPlan(server.list)
    /\ worker.pc = "configure" => IsPlan(worker.groups)
    /\ PlansOnly(chan)
    /\ Index(server.index) /\ Index(hop.index)
    /\ hop.pc = "top" \/ Length(hop.n)
    /\ server.enabled => server.list # <<>>
    /\ web = "start" \/ client.running => IsPlan(client.groups)

\* A start finds a list at heimdall, for one is there or on its way before it.
Configures(ch) == \E i \in DOMAIN ch : ch[i].op = "configure"
Preceded(ch, listed) ==
    \A i \in DOMAIN ch : ch[i].op = "start" => listed \/ \E j \in 1 .. i - 1 : ch[j].op = "configure"
Fed ==
    /\ web = "start" \/ client.running \/ worker.pc = "start" => server.list # <<>> \/ Configures(chan)
    /\ Preceded(chan, server.list # <<>>)

\* What the client has switched off comes back, and the mode heimdall will be in.
Switched ==
    /\ web = "start" => ~client.running
    /\ ~client.running => client.fm
    /\ client.running => client.fm \/ client.fmBefore
    /\ client.wide = Ends(chan, "wide", "coherent", server.wide)

Turning == worker.pc \in {"coherent", "frequency", "locked"}
OnTheMove == client.running /\ client.state = "scanning"
OnSignal == client.running /\ client.state = "locked"

\* Where client and worker are, as long as no command came across them.
InStep ==
    /\ client.running <=> client.state # "idle"
    /\ worker.pc \in {"lock", "coherent", "frequency", "locked"} => OnTheMove
    /\ worker.pc \in {"resume", "configure", "start"} => OnSignal
    /\ web = "start" => worker.pc = "idle" /\ client.wide
    /\ OnTheMove /\ worker.pc \notin {"frequency", "locked"} => client.wide
    /\ worker.pc \in {"configure", "start"} => client.wide
    /\ client.running \/ client.wide => ~client.doa
    /\ Ends(chan, "start", "stop", server.enabled) = (OnTheMove /\ ~Turning)

\* The hop is over and no other follows; only commands of a lock are under way.
Halts(ch, on, pc) ==
    /\ ~on /\ pc \in {"top", "dwell"}
    /\ \A i \in DOMAIN ch : ch[i].op \in {"coherent", "frequency", "configure"}

\* The tuners are no longer spread when the command at i is carried out.
Narrows(ch, wide, i) == ~wide \/ \E j \in 1 .. i - 1 : ch[j].op = "coherent"
HasFrequency(ch) == \E i \in DOMAIN ch : ch[i].op = "frequency"

ComesReady(ch, sv, pc) ==
    /\ Halts(ch, sv.enabled, pc) /\ ~HasFrequency(ch)
    /\ Narrows(ch, sv.wide, Len(ch) + 1)

\* All the tuners will be on f.
ComesTo(ch, sv, pc, f) ==
    /\ Halts(ch, sv.enabled, pc)
    /\ \A i \in DOMAIN ch : ch[i].op = "frequency" =>
          /\ ch[i].f = f /\ Narrows(ch, sv.wide, i)
          /\ \A j \in DOMAIN ch : j > i => ch[j].op # "coherent"
    /\ ~HasFrequency(ch) => /\ sv.hw = Tuning(FALSE, f) /\ ~sv.wide
                            /\ \A i \in DOMAIN ch : ch[i].op # "coherent"

OnTarget ==
    /\ worker.pc = "frequency" => ComesReady(chan, server, hop.pc)
    /\ worker.pc = "locked" => ComesTo(chan, server, hop.pc, worker.f)
    /\ OnSignal /\ worker.pc \in {"idle", "resume"} => ComesTo(chan, server, hop.pc, client.locked)

ScanInv ==
    /\ ScanTypes /\ Lists /\ Fed /\ Switched
    /\ ~crossed => InStep
    /\ Prompt /\ ~crossed => OnTarget

-----------------------------------------------------------------------------
(* The lists of the configurations.                                          *)

LEMMA EnabledIs ==
    ASSUME NEW c \in Configs
    PROVE  Enabled(c) \in SUBSET Nat /\ IsFiniteSet(Enabled(c))
<1> DEFINE D == {j \in DOMAIN c : c[j].on}
           h == [i \in D |-> c[i].f]
<1>1. c \in Seq([f : Nat \ {0}, on : BOOLEAN])
  BY ScanAssumption
<1>2. Len(c) \in Nat /\ DOMAIN c = 1 .. Len(c) /\ \A i \in 1 .. Len(c) : c[i].f \in Nat
  <2>1. ASSUME NEW i \in 1 .. Len(c) PROVE c[i] \in [f : Nat \ {0}, on : BOOLEAN]
    BY <1>1, <2>1, ElementOfSeq
  <2>2. Len(c) \in Nat /\ DOMAIN c = 1 .. Len(c)
    BY <1>1
  <2>3. ASSUME NEW x \in [f : Nat \ {0}, on : BOOLEAN] PROVE x.f \in Nat
    OBVIOUS
  <2> QED  BY <2>1, <2>2, <2>3
<1>3. IsFiniteSet(D)
  <2>1. IsFiniteSet(1 .. Len(c))
    BY <1>2, FS_Interval
  <2>2. D \in SUBSET (1 .. Len(c))
    BY <1>2
  <2> QED  BY <2>1, <2>2, FS_Subset
<1>4. h \in Surjection(D, Enabled(c))
  BY DEF Surjection, Enabled
<1>5. IsFiniteSet(Enabled(c))
  BY <1>3, <1>4, FS_Surjection
<1>6. Enabled(c) \in SUBSET Nat
  BY <1>2 DEF Enabled
<1> QED  BY <1>5, <1>6

LEMMA CentersAre ==
    ASSUME NEW gs \in Seq(Groups)
    PROVE  Centers(gs) \in Seq(Nat) /\ Len(Centers(gs)) = Len(gs) /\ Len(gs) \in Nat
           /\ \A i \in 1 .. Len(gs) : Centers(gs)[i] = (gs[i].min + gs[i].max) \div 2
<1>1. Len(gs) \in Nat /\ DOMAIN gs = 1 .. Len(gs)
  OBVIOUS
<1>2. ASSUME NEW i \in 1 .. Len(gs) PROVE (gs[i].min + gs[i].max) \div 2 \in Nat
  <2>1. gs[i] \in Groups
    BY <1>1, <1>2, ElementOfSeq
  <2>2. gs[i].min \in Nat /\ gs[i].max \in Nat
    BY <2>1 DEF Groups
  <2> QED  BY <2>2
<1>3. Centers(gs) = [i \in 1 .. Len(gs) |-> (gs[i].min + gs[i].max) \div 2]
  BY <1>1 DEF Centers
<1>4. Centers(gs) \in [1 .. Len(gs) -> Nat]
  BY <1>2, <1>3
<1>5. Centers(gs) \in Seq(Nat)
  BY <1>1, <1>4, SeqDef
<1>6. Len(Centers(gs)) = Len(gs)
  BY <1>1, <1>4, <1>5, LenProperties
<1> QED  BY <1>1, <1>3, <1>5, <1>6

\* The list of a configuration.
LEMMA PlansAre ==
    ASSUME NEW c \in Configs
    PROVE  LET list == Centers(GroupsOf(Enabled(c))) IN
           /\ list \in Seq(Nat) /\ Len(list) = Len(GroupsOf(Enabled(c))) /\ Len(list) \in Nat
           /\ Enabled(c) # {} => IsPlan(list)
<1> DEFINE gs == GroupsOf(Enabled(c))
<1>1. gs \in Seq(Groups) /\ (Enabled(c) # {} => gs # <<>>)
  BY EnabledIs, GroupsTight DEF Tight
<1>2. Centers(gs) \in Seq(Nat) /\ Len(Centers(gs)) = Len(gs) /\ Len(gs) \in Nat
  BY <1>1, CentersAre
<1>3. gs # <<>> => Centers(gs) # <<>>
  BY <1>1, <1>2
<1> QED  BY <1>1, <1>2, <1>3 DEF IsPlan

LEMMA PlanIsList ==
    ASSUME NEW list, IsPlan(list)
    PROVE  /\ list \in Seq(Nat) /\ list # <<>> /\ Len(list) \in Nat \ {0}
           /\ list[1] \in Nat /\ \A i \in 1 .. Len(list) : list[i] \in Nat
           /\ \E c \in Configs : Len(list) = Len(GroupsOf(Enabled(c)))
<1>1. PICK c \in Configs : list = Centers(GroupsOf(Enabled(c))) /\ list # <<>>
  BY DEF IsPlan
<1>2. list \in Seq(Nat) /\ Len(list) = Len(GroupsOf(Enabled(c)))
  BY <1>1, PlansAre
<1> QED  BY <1>1, <1>2

LEMMA Halves ==
    ASSUME NEW a \in Nat, NEW b \in Nat, NEW f \in Nat, a % 2 = 0, b % 2 = 0, f % 2 = 0,
           a <= f, f <= b, b - a <= MaxSpan
    PROVE  2 * Abs(f - ((a + b) \div 2)) <= MaxSpan
<1>1. MaxSpan \in Nat
  BY ScanAssumption
<1>2. 2 * ((a + b) \div 2) = a + b
  BY SMT
<1> DEFINE m == (a + b) \div 2
<1>3. m \in Nat /\ 2 * m = a + b
  BY <1>2
<1> HIDE DEF m
<1>4. 2 * (f - m) <= b - a /\ 2 * (m - f) <= b - a
  BY <1>3
<1> QED  BY <1>1, <1>3, <1>4 DEF Abs, m

(***************************************************************************)
(* Whatever is enabled, each frequency is within the spread of a group, and *)
(* each group starts beyond the span of the one before, so that no fewer    *)
(* would do (buildFrequencyGroups).                                         *)
(***************************************************************************)
THEOREM GroupingCovers == GroupingIsTight
<1>1. SUFFICES ASSUME NEW fs \in SUBSET Grid
               PROVE  LET gs == GroupsOf(fs)
                      IN  /\ \A f \in fs : \E i \in DOMAIN gs : Covers(Tuning(TRUE, Centers(gs)[i]), f)
                          /\ \A i, k \in DOMAIN gs : i < k => gs[k].min - gs[i].min > MaxSpan
  BY DEF GroupingIsTight
<1> DEFINE gs == GroupsOf(fs)
<1>2. fs \in SUBSET Nat /\ IsFiniteSet(fs) /\ \A f \in fs : f % 2 = 0
  BY ScanAssumption, FS_Subset
<1>3. PICK last \in Nat : Tight(gs, fs, last)
  BY <1>2, GroupsTight
<1>4. gs \in Seq(Groups) /\ DOMAIN gs = 1 .. Len(gs)
  BY <1>3 DEF Tight
<1>5. ASSUME NEW f \in fs
      PROVE  \E i \in DOMAIN gs : Covers(Tuning(TRUE, Centers(gs)[i]), f)
  <2>1. PICK i \in 1 .. Len(gs) : gs[i].min <= f /\ f <= gs[i].max
    BY <1>2, GroupsTight DEF Holds
  <2>2. gs[i].min \in fs /\ gs[i].max \in fs /\ gs[i].max - gs[i].min <= MaxSpan
    BY <1>3 DEF Tight
  <2>3. Centers(gs)[i] = (gs[i].min + gs[i].max) \div 2
    BY <1>4, CentersAre
  <2>4. 2 * Abs(f - ((gs[i].min + gs[i].max) \div 2)) <= MaxSpan
    <3>1. gs[i].min \in Nat /\ gs[i].max \in Nat /\ gs[i].min % 2 = 0 /\ gs[i].max % 2 = 0
          /\ f \in Nat /\ f % 2 = 0
      BY <1>2, <2>2
    <3> HIDE DEF gs
    <3> QED  BY <2>1, <2>2, <3>1, Halves
  <2> QED  BY <1>4, <2>3, <2>4 DEF Covers, Tuning
<1>6. \A i, k \in DOMAIN gs : i < k => gs[k].min - gs[i].min > MaxSpan
  BY <1>3, <1>4 DEF Tight
<1> QED  BY <1>5, <1>6

-----------------------------------------------------------------------------
(* Commands on their way.                                                    *)

LEMMA LongerBy ==
    ASSUME NEW S, NEW s \in Seq(S), NEW c \in S
    PROVE  LET q == s \o <<c>> IN
           /\ q \in Seq(S) /\ Len(q) = Len(s) + 1 /\ DOMAIN q = 1 .. Len(s) + 1
           /\ q[Len(s) + 1] = c /\ \A i \in 1 .. Len(s) : q[i] = s[i]
           /\ Len(s) \in Nat /\ DOMAIN s = 1 .. Len(s)
<1> DEFINE q == s \o <<c>>
<1>1. <<c>> \in Seq(S) /\ Len(<<c>>) = 1 /\ <<c>>[1] = c
  OBVIOUS
<1>2. /\ q \in Seq(S) /\ Len(q) = Len(s) + Len(<<c>>)
      /\ \A i \in 1 .. Len(s) + Len(<<c>>) : q[i] = IF i <= Len(s) THEN s[i] ELSE <<c>>[i - Len(s)]
  BY <1>1, ConcatProperties
<1>3. Len(s) \in Nat /\ DOMAIN s = 1 .. Len(s) /\ DOMAIN q = 1 .. Len(q)
  BY <1>2
<1>4. q[Len(s) + 1] = c
  BY <1>1, <1>2, <1>3
<1>5. \A i \in 1 .. Len(s) : q[i] = s[i]
  BY <1>1, <1>2, <1>3
<1> QED  BY <1>1, <1>2, <1>3, <1>4, <1>5

LEMMA WithoutHead ==
    ASSUME NEW S, NEW s \in Seq(S), s # <<>>
    PROVE  /\ Tail(s) \in Seq(S) /\ Head(s) = s[1] /\ s[1] \in S /\ Len(s) \in Nat /\ Len(s) >= 1
           /\ DOMAIN s = 1 .. Len(s) /\ Len(Tail(s)) = Len(s) - 1
           /\ DOMAIN Tail(s) = 1 .. Len(s) - 1
           /\ \A i \in 1 .. Len(s) - 1 : Tail(s)[i] = s[i + 1]
           /\ \A i \in 2 .. Len(s) : Tail(s)[i - 1] = s[i] /\ i - 1 \in 1 .. Len(s) - 1
<1>1. Tail(s) \in Seq(S) /\ Head(s) = s[1] /\ s[1] \in S /\ Len(s) \in Nat /\ Len(s) >= 1
      /\ DOMAIN s = 1 .. Len(s) /\ Len(Tail(s)) = Len(s) - 1
      /\ DOMAIN Tail(s) = 1 .. Len(s) - 1
      /\ \A i \in 1 .. Len(s) - 1 : Tail(s)[i] = s[i + 1]
  OBVIOUS
<1>2. ASSUME NEW i \in 2 .. Len(s) PROVE Tail(s)[i - 1] = s[i] /\ i - 1 \in 1 .. Len(s) - 1
  BY <1>1
<1> QED  BY <1>1, <1>2

LEMMA LastAskIs ==
    ASSUME NEW ch \in Seq(CommandSet), NEW on, NEW off, Asks(ch, on, off) # {}
    PROVE  /\ LastAsk(ch, on, off) \in Asks(ch, on, off)
           /\ \A j \in Asks(ch, on, off) : j <= LastAsk(ch, on, off)
<1>1. Asks(ch, on, off) \in SUBSET (1 .. Len(ch)) /\ Len(ch) \in Nat
  BY DEF Asks
<1>2. IsFiniteSet(Asks(ch, on, off))
  <2>1. IsFiniteSet(1 .. Len(ch))
    BY <1>1, FS_Interval
  <2> QED  BY <1>1, <2>1, FS_Subset
<1>3. \E i \in Asks(ch, on, off) : \A j \in Asks(ch, on, off) : j <= i
  BY <1>1, <1>2, GreatestNat
<1> QED  BY <1>3 DEF LastAsk

\* What the last of them says is what they end in.
LEMMA EndsIs ==
    ASSUME NEW ch \in Seq(CommandSet), NEW on, NEW off, NEW now, NEW i \in 1 .. Len(ch),
           ch[i].op \in {on, off}, \A j \in 1 .. Len(ch) : j > i => ch[j].op \notin {on, off}
    PROVE  Ends(ch, on, off, now) = (ch[i].op = on)
<1> DEFINE A == Asks(ch, on, off)
           l == LastAsk(ch, on, off)
<1>1. i \in A /\ A \in SUBSET (1 .. Len(ch)) /\ Len(ch) \in Nat
  BY DEF Asks
<1>2. l \in A /\ \A j \in A : j <= l
  BY <1>1, LastAskIs
<1>3. l \in 1 .. Len(ch) /\ ch[l].op \in {on, off}
  BY <1>1, <1>2 DEF Asks
<1>4. l = i
  <2>1. i <= l /\ ~(l > i)
    BY <1>1, <1>2, <1>3
  <2> HIDE DEF l
  <2> QED  BY <1>1, <1>3, <2>1
<1> QED  BY <1>1, <1>4 DEF Ends

LEMMA EndsNone ==
    ASSUME NEW ch \in Seq(CommandSet), NEW on, NEW off, NEW now,
           \A j \in 1 .. Len(ch) : ch[j].op \notin {on, off}
    PROVE  Ends(ch, on, off, now) = now
BY DEF Ends, Asks

LEMMA EndsLonger ==
    ASSUME NEW ch \in Seq(CommandSet), NEW c \in CommandSet, NEW on, NEW off, NEW now
    PROVE  Ends(ch \o <<c>>, on, off, now) =
              IF c.op \in {on, off} THEN c.op = on ELSE Ends(ch, on, off, now)
<1> DEFINE q == ch \o <<c>>
           n == Len(ch)
<1>1. /\ q \in Seq(CommandSet) /\ Len(q) = n + 1 /\ q[n + 1] = c
      /\ \A i \in 1 .. n : q[i] = ch[i]
      /\ n \in Nat
  BY LongerBy
<1> HIDE DEF q
<1>2. CASE c.op \in {on, off}
  <2> DEFINE m == n + 1
  <2>1. m \in 1 .. Len(q) /\ (\A j \in 1 .. Len(q) : j > m => q[j].op \notin {on, off})
    BY <1>1
  <2>2. q[m].op \in {on, off} /\ q[m] = c
    BY <1>1, <1>2
  <2> HIDE DEF m
  <2>3. Ends(q, on, off, now) = (q[m].op = on)
    BY <1>1, <2>1, <2>2, EndsIs
  <2> QED  BY <1>2, <2>2, <2>3 DEF q
<1>3. CASE c.op \notin {on, off} /\ Asks(ch, on, off) = {}
  <2>1. \A j \in 1 .. n : ch[j].op \notin {on, off}
    BY <1>3 DEF Asks
  <2>2. ASSUME NEW j \in 1 .. Len(q) PROVE q[j].op \notin {on, off}
    BY <1>1, <1>3, <2>1
  <2>3. Ends(q, on, off, now) = now
    BY <1>1, <2>2, EndsNone
  <2> QED  BY <1>3, <2>3 DEF Ends, q
<1>4. CASE c.op \notin {on, off} /\ Asks(ch, on, off) # {}
  <2> DEFINE l == LastAsk(ch, on, off)
  <2>1. l \in Asks(ch, on, off) /\ \A j \in Asks(ch, on, off) : j <= l
    BY <1>4, LastAskIs
  <2>2. l \in 1 .. n /\ ch[l].op \in {on, off}
    BY <2>1 DEF Asks
  <2>3. ASSUME NEW j \in 1 .. Len(q), j > l PROVE q[j].op \notin {on, off}
    <3>1. CASE j = n + 1
      BY <1>1, <1>4, <3>1
    <3>2. CASE j # n + 1
      <4>1. j \in 1 .. n /\ q[j] = ch[j]
        BY <1>1, <3>2
      <4>2. j \notin Asks(ch, on, off)
        <5> HIDE DEF l
        <5> QED  BY <2>1, <2>2, <2>3
      <4> QED  BY <4>1, <4>2 DEF Asks
    <3> QED  BY <3>1, <3>2
  <2>4. l \in 1 .. Len(q) /\ q[l] = ch[l]
    BY <1>1, <2>2
  <2>5. Ends(q, on, off, now) = (ch[l].op = on)
    <3> HIDE DEF l
    <3> QED  BY <1>1, <2>2, <2>3, <2>4, EndsIs
  <2> QED  BY <1>4, <2>5 DEF Ends, q
<1> QED  BY <1>2, <1>3, <1>4

LEMMA EndsShorter ==
    ASSUME NEW ch \in Seq(CommandSet), ch # <<>>, NEW on, NEW off, NEW now
    PROVE  Ends(ch, on, off, now) =
              Ends(Tail(ch), on, off, IF ch[1].op \in {on, off} THEN ch[1].op = on ELSE now)
<1> DEFINE q == Tail(ch)
           n == Len(ch)
           then == IF ch[1].op \in {on, off} THEN ch[1].op = on ELSE now
<1>1. /\ q \in Seq(CommandSet) /\ n \in Nat /\ n >= 1 /\ Len(q) = n - 1
      /\ \A i \in 1 .. n - 1 : q[i] = ch[i + 1]
      /\ \A i \in 2 .. n : q[i - 1] = ch[i] /\ i - 1 \in 1 .. n - 1
  BY WithoutHead
<1> HIDE DEF q
<1>2. CASE Asks(q, on, off) # {}
  <2> DEFINE l == LastAsk(q, on, off)
  <2>1. l \in Asks(q, on, off) /\ \A j \in Asks(q, on, off) : j <= l
    BY <1>1, <1>2, LastAskIs
  <2>2. l \in 1 .. n - 1 /\ q[l].op \in {on, off}
    BY <1>1, <2>1 DEF Asks
  <2>3. Ends(q, on, off, then) = (q[l].op = on)
    BY <1>2 DEF Ends
  <2> HIDE DEF l
  <2>4. l + 1 \in 1 .. n /\ ch[l + 1] = q[l]
    BY <1>1, <2>2
  <2>5. ASSUME NEW j \in 1 .. n, j > l + 1 PROVE ch[j].op \notin {on, off}
    BY <1>1, <2>2, <2>5, <2>1 DEF Asks
  <2>6. Ends(ch, on, off, now) = (ch[l + 1].op = on)
    BY <2>2, <2>4, <2>5, EndsIs
  <2> QED  BY <2>3, <2>4, <2>6 DEF q
<1>3. CASE Asks(q, on, off) = {}
  <2>1. Ends(q, on, off, then) = then
    BY <1>3 DEF Ends
  <2>2. ASSUME NEW j \in 2 .. n PROVE ch[j].op \notin {on, off}
    BY <1>1, <2>2, <1>3 DEF Asks
  <2>3. CASE ch[1].op \in {on, off}
    BY <1>1, <2>2, <2>3, EndsIs, <2>1 DEF q
  <2>4. CASE ch[1].op \notin {on, off}
    BY <1>1, <2>2, <2>4, EndsNone, <2>1 DEF q
  <2> QED  BY <2>3, <2>4
<1> QED  BY <1>2, <1>3

LEMMA CommandsAre ==
    /\ \A op \in Ops : Simple(op) \in CommandSet /\ Simple(op).op = op
    /\ Simple("start") \in CommandSet /\ Simple("stop") \in CommandSet /\ Simple("coherent") \in CommandSet
    /\ Simple("wide") \in CommandSet /\ Simple("start").op = "start" /\ Simple("stop").op = "stop"
    /\ Simple("coherent").op = "coherent" /\ Simple("wide").op = "wide"
    /\ \A f \in Nat : Command("wide", f, <<>>) \in CommandSet /\ Command("frequency", f, <<>>) \in CommandSet
    /\ \A op, f, list : LET c == Command(op, f, list) IN c.op = op /\ c.f = f /\ c.list = list
    /\ \A list \in Seq(Nat) : Command("configure", 0, list) \in CommandSet
<1>1. <<>> \in Seq(Nat)
  BY EmptySeq
<1> QED  BY <1>1 DEF Simple, Command, CommandSet, Ops

LEMMA EntryIs ==
    ASSUME NEW c \in Configs
    PROVE  Len(c) \in Nat /\ DOMAIN c = 1 .. Len(c) /\ \A i \in 1 .. Len(c) : c[i].f \in Nat \ {0}
<1>1. c \in Seq([f : Nat \ {0}, on : BOOLEAN])
  BY ScanAssumption
<1>2. ASSUME NEW i \in 1 .. Len(c) PROVE c[i] \in [f : Nat \ {0}, on : BOOLEAN]
  BY <1>1, <1>2, ElementOfSeq
<1>3. \A x \in [f : Nat \ {0}, on : BOOLEAN] : x.f \in Nat \ {0}
  OBVIOUS
<1>4. Len(c) \in Nat /\ DOMAIN c = 1 .. Len(c)
  BY <1>1
<1> QED  BY <1>2, <1>3, <1>4

LEMMA FrequenciesAre == \A f \in Frequencies : f \in Nat
BY EntryIs, ScanAssumption DEF Frequencies

LEMMA RestIs == /\ Rest.pc = "idle" /\ Rest.index = 1 /\ Rest.f = 0 /\ Rest.groups = <<>>
                /\ Rest \in WorkerSet
<1>1. <<>> \in Seq(Nat)
  BY EmptySeq
<1> QED  BY <1>1 DEF Rest, WorkerSet

LEMMA HeadIs == \A s \in Seq(Nat) : s # <<>> => s[1] \in Nat
BY WithoutHead

LEMMA GroupAtIs == \A list \in Seq(Nat), i \in Nat : GroupAt(list, i) \in Nat
<1>1. ASSUME NEW list \in Seq(Nat), NEW i \in Nat, i < Len(list) PROVE list[i + 1] \in Nat
  <2>1. i + 1 \in 1 .. Len(list)
    BY <1>1
  <2> QED  BY <2>1, ElementOfSeq
<1> QED  BY <1>1, ScanAssumption DEF GroupAt

-----------------------------------------------------------------------------
(* Types and lists.                                                          *)

LEMMA TypesKept ==
    ASSUME ScanTypes, Lists, [ScanNext]_scanVars
    PROVE  ScanTypes'
<1>1. ASSUME NEW c \in Configs, LoadConfig(c) PROVE ScanTypes'
  BY <1>1 DEF LoadConfig, Give, ScanTypes
<1>2. ASSUME NEW on \in BOOLEAN, WidebandMode(on) PROVE ScanTypes'
  <2>1. Simple(IF on THEN "wide" ELSE "coherent") \in CommandSet
    BY CommandsAre DEF Ops
  <2>2. chan \o <<Simple(IF on THEN "wide" ELSE "coherent")>> \in Seq(CommandSet)
    BY <2>1, LongerBy DEF ScanTypes
  <2>3. client' \in ClientSet
    BY <1>2 DEF WidebandMode, Give, ToWide, ScanTypes, ClientSet
  <2>4. chan' \in Seq(CommandSet)
    BY <1>2, <2>2 DEF WidebandMode, Give, ToWide, ScanTypes
  <2>5. crossed' \in BOOLEAN
    BY <1>2 DEF WidebandMode, Give, ToWide, ScanTypes
  <2> QED  BY <1>2, <2>3, <2>4, <2>5 DEF WidebandMode, Give, ScanTypes
<1>3. ASSUME NEW f \in Frequencies, SetFrequency(f) PROVE ScanTypes'
  <2> DEFINE first == chan \o (IF client.wide THEN <<Simple("coherent")>> ELSE <<>>)
  <2>1. f \in Nat /\ Command("frequency", f, <<>>) \in CommandSet /\ Simple("coherent") \in CommandSet
    BY FrequenciesAre, CommandsAre DEF Ops
  <2>2. first \in Seq(CommandSet)
    <3>1. CASE client.wide
      BY <2>1, <3>1, LongerBy DEF ScanTypes
    <3>2. CASE ~client.wide
      BY <3>2 DEF ScanTypes
    <3> QED  BY <3>1, <3>2
  <2>3. first \o <<Command("frequency", f, <<>>)>> \in Seq(CommandSet)
    BY <2>1, <2>2, LongerBy
  <2>4. client' \in ClientSet
    BY <1>3 DEF SetFrequency, Give, ToWide, ScanTypes, ClientSet
  <2>5. chan' \in Seq(CommandSet)
    BY <1>3, <2>3 DEF SetFrequency, Give, ToWide, ScanTypes
  <2>6. crossed' \in BOOLEAN
    BY <1>3 DEF SetFrequency, Give, ToWide, ScanTypes
  <2> QED  BY <1>3, <2>4, <2>5, <2>6 DEF SetFrequency, Give, ScanTypes
<1>4. CASE StartScan
  <2> DEFINE list == Centers(GroupsOf(Enabled(conf)))
  <2>1. list \in Seq(Nat)
    BY PlansAre DEF ScanTypes
  <2>2. Command("configure", 0, list) \in CommandSet
    BY <2>1, CommandsAre
  <2>3. chan \o <<Command("configure", 0, list)>> \in Seq(CommandSet)
    BY <2>2, LongerBy DEF ScanTypes
  <2>4. client' = [client EXCEPT !.groups = list]
    BY <1>4 DEF StartScan
  <2>5. client'.groups = list
    BY <2>4 DEF ScanTypes, ClientSet
  <2>6. chan' = chan \o <<Command("configure", 0, list)>>
    BY <1>4, <2>5 DEF StartScan
  <2> HIDE DEF list
  <2>7. client' \in ClientSet
    BY <2>1, <2>4 DEF ScanTypes, ClientSet
  <2>8. chan' \in Seq(CommandSet)
    BY <2>3, <2>6
  <2>9. crossed' \in BOOLEAN
    BY <1>4 DEF StartScan, Give, MayStart, ScanTypes
  <2> QED  BY <1>4, <2>7, <2>8, <2>9 DEF StartScan, Give, ScanTypes
<1>5. CASE StartGoes
  <2>1. Simple("start") \in CommandSet
    BY CommandsAre DEF ScanTypes, ClientSet, WorkerSet
  <2>2. chan \o <<Simple("start")>> \in Seq(CommandSet)
    BY <2>1, LongerBy DEF ScanTypes
  <2>3. client' \in ClientSet
    BY <1>5 DEF StartGoes, ScanTypes, ClientSet
  <2>4. chan' \in Seq(CommandSet)
    BY <1>5, <2>2 DEF StartGoes, ScanTypes
  <2> QED  BY <1>5, <2>3, <2>4 DEF StartGoes, ScanTypes
<1>6. CASE StopScan
  <2>1. Simple("stop") \in CommandSet
    BY CommandsAre DEF ScanTypes, ClientSet, WorkerSet
  <2>2. chan \o <<Simple("stop")>> \in Seq(CommandSet)
    BY <2>1, LongerBy DEF ScanTypes
  <2>3. client' \in ClientSet
    BY <1>6 DEF StopScan, Give, Stopped, ScanTypes, ClientSet
  <2>4. chan' \in Seq(CommandSet)
    BY <1>6, <2>2 DEF StopScan, Give, Stopped, ScanTypes
  <2>5. crossed' \in BOOLEAN
    BY <1>6 DEF StopScan, Give, Stopped, ScanTypes
  <2> QED  BY <1>6, <2>3, <2>4, <2>5 DEF StopScan, Give, ScanTypes
<1>7. CASE SetDwell
  <2>1. Command("configure", 0, client.groups) \in CommandSet
    BY CommandsAre DEF ScanTypes, ClientSet, WorkerSet
  <2>2. chan \o <<Command("configure", 0, client.groups)>> \in Seq(CommandSet)
    BY <2>1, LongerBy DEF ScanTypes
  <2>3. chan' \in Seq(CommandSet)
    BY <1>7, <2>2 DEF SetDwell, Give, ScanTypes
  <2>4. crossed' \in BOOLEAN
    BY <1>7 DEF SetDwell, Give, ScanTypes
  <2> QED  BY <1>7, <2>3, <2>4 DEF SetDwell, Give, ScanTypes
<1>8. CASE NextSignal
  BY <1>8 DEF NextSignal, Give, ScanTypes, WorkerSet
<1>9. CASE Settle
  BY <1>9 DEF Settle, ScanTypes, ClientSet
<1>10. CASE LoseSignal
  BY <1>10 DEF LoseSignal, ScanTypes, WorkerSet
<1>11. ASSUME NEW i \in DOMAIN conf, Detect(i) PROVE ScanTypes'
  <2>1. i \in Nat \ {0}
    BY ScanAssumption DEF ScanTypes
  <2>2. worker' \in WorkerSet
    BY <1>11, <2>1 DEF Detect, ScanTypes, WorkerSet
  <2> QED  BY <1>11, <2>2 DEF Detect, ScanTypes
<1>12. CASE LockStop
  <2>1. Simple("stop") \in CommandSet /\ chan \o <<Simple("stop")>> \in Seq(CommandSet)
    BY CommandsAre, LongerBy DEF ScanTypes
  <2>2. Len(conf) \in Nat /\ worker.index \in Nat \ {0}
    BY EntryIs DEF ScanTypes, WorkerSet
  <2>3. ASSUME worker.index > Len(conf) PROVE worker' \in WorkerSet
    BY <1>12, <2>3, RestIs DEF LockStop
  <2>4. ASSUME ~(worker.index > Len(conf)) PROVE worker' \in WorkerSet
    <3> DEFINE f == conf[worker.index].f
    <3>1. f \in Nat
      BY <2>2, <2>4, EntryIs DEF ScanTypes
    <3>2. worker' = [worker EXCEPT !.pc = "coherent", !.f = f, !.index = 1]
      BY <1>12, <2>4 DEF LockStop
    <3> HIDE DEF f
    <3>3. worker \in WorkerSet
      BY DEF ScanTypes
    <3>4. ASSUME NEW w \in WorkerSet PROVE [w EXCEPT !.pc = "coherent"] \in WorkerSet
      BY DEF WorkerSet
    <3>5. ASSUME NEW w \in WorkerSet, NEW x \in Nat PROVE [w EXCEPT !.f = x] \in WorkerSet
      BY DEF WorkerSet
    <3>6. ASSUME NEW w \in WorkerSet PROVE [w EXCEPT !.index = 1] \in WorkerSet
      BY DEF WorkerSet
    <3>7. [[[worker EXCEPT !.pc = "coherent"] EXCEPT !.f = f] EXCEPT !.index = 1] \in WorkerSet
      BY <3>1, <3>3, <3>4, <3>5, <3>6
    <3>8. worker' = [[[worker EXCEPT !.pc = "coherent"] EXCEPT !.f = f] EXCEPT !.index = 1]
      BY <3>2, Zenon
    <3> QED  BY <3>7, <3>8
  <2>5. worker' \in WorkerSet
    BY <2>3, <2>4
  <2>6. chan' \in Seq(CommandSet)
    BY <1>12, <2>1 DEF LockStop, Rest, ScanTypes
  <2> QED  BY <1>12, <2>5, <2>6 DEF LockStop, ScanTypes
<1>13. CASE LockCoherent
  <2>1. Simple("coherent") \in CommandSet
    BY CommandsAre DEF ScanTypes, ClientSet, WorkerSet
  <2>2. chan \o <<Simple("coherent")>> \in Seq(CommandSet)
    BY <2>1, LongerBy DEF ScanTypes
  <2>3. client' \in ClientSet
    BY <1>13 DEF LockCoherent, ScanTypes, ClientSet
  <2>4. chan' \in Seq(CommandSet)
    BY <1>13, <2>2 DEF LockCoherent, ScanTypes
  <2>5. worker' \in WorkerSet
    BY <1>13 DEF LockCoherent, ScanTypes, WorkerSet
  <2> QED  BY <1>13, <2>3, <2>4, <2>5 DEF LockCoherent, ScanTypes
<1>14. CASE LockFrequency
  <2>1. Command("frequency", worker.f, <<>>) \in CommandSet
    BY CommandsAre DEF ScanTypes, ClientSet, WorkerSet
  <2>2. chan \o <<Command("frequency", worker.f, <<>>)>> \in Seq(CommandSet)
    BY <2>1, LongerBy DEF ScanTypes
  <2>3. chan' \in Seq(CommandSet)
    BY <1>14, <2>2 DEF LockFrequency, ScanTypes
  <2>4. worker' \in WorkerSet
    BY <1>14 DEF LockFrequency, ScanTypes, WorkerSet
  <2> QED  BY <1>14, <2>3, <2>4 DEF LockFrequency, ScanTypes
<1>15. CASE LockDone
  BY <1>15, RestIs DEF LockDone, Rest, ScanTypes, ClientSet, WorkerSet
<1>16. CASE ResumeWide
  <2>1. Resumable(client) => client.groups[1] \in Nat
    BY HeadIs DEF Resumable, ScanTypes, ClientSet
  <2>2. Resumable(client) => Command("wide", client.groups[1], <<>>) \in CommandSet
    BY <2>1, CommandsAre
  <2>3. Resumable(client) => chan \o <<Command("wide", client.groups[1], <<>>)>> \in Seq(CommandSet)
    BY <2>2, LongerBy DEF ScanTypes
  <2>4. client' \in ClientSet
    BY <1>16 DEF ResumeWide, ScanTypes, ClientSet
  <2>5. worker' \in WorkerSet
    BY <1>16, RestIs DEF ResumeWide, ScanTypes, WorkerSet, ClientSet
  <2>6. chan' \in Seq(CommandSet)
    BY <1>16, <2>3 DEF ResumeWide, ScanTypes
  <2> QED  BY <1>16, <2>4, <2>5, <2>6 DEF ResumeWide, ScanTypes
<1>17. CASE ResumeConfigure
  <2>1. Command("configure", 0, worker.groups) \in CommandSet
    BY CommandsAre DEF ScanTypes, ClientSet, WorkerSet
  <2>2. chan \o <<Command("configure", 0, worker.groups)>> \in Seq(CommandSet)
    BY <2>1, LongerBy DEF ScanTypes
  <2>3. chan' \in Seq(CommandSet)
    BY <1>17, <2>2 DEF ResumeConfigure, ScanTypes
  <2>4. worker' \in WorkerSet
    BY <1>17 DEF ResumeConfigure, ScanTypes, WorkerSet
  <2> QED  BY <1>17, <2>3, <2>4 DEF ResumeConfigure, ScanTypes
<1>18. CASE ResumeStart
  <2>1. Simple("start") \in CommandSet
    BY CommandsAre DEF ScanTypes, ClientSet, WorkerSet
  <2>2. chan \o <<Simple("start")>> \in Seq(CommandSet)
    BY <2>1, LongerBy DEF ScanTypes
  <2>3. client' \in ClientSet
    BY <1>18 DEF ResumeStart, Rest, ScanTypes, ClientSet
  <2>4. chan' \in Seq(CommandSet)
    BY <1>18, <2>2 DEF ResumeStart, Rest, ScanTypes
  <2>5. worker' \in WorkerSet
    BY <1>18, RestIs DEF ResumeStart, ScanTypes, WorkerSet
  <2> QED  BY <1>18, <2>3, <2>4, <2>5 DEF ResumeStart, ScanTypes
<1>19. CASE Configure
  <2>1. chan # <<>> /\ chan' = Tail(chan)
    BY <1>19 DEF Configure, Take
  <2>2. Tail(chan) \in Seq(CommandSet) /\ Head(chan) \in CommandSet
    BY <2>1, WithoutHead DEF ScanTypes
  <2>3. Head(chan).f \in Nat /\ Head(chan).list \in Seq(Nat)
    BY <2>2 DEF CommandSet
  <2>4. server' \in ServerSet
    BY <1>19, <2>3 DEF Configure, Take, ServerRest, ScanTypes, ServerSet, Tuning
  <2>5. chan' \in Seq(CommandSet)
    BY <2>1, <2>2
  <2> QED  BY <1>19, <2>4, <2>5 DEF Configure, Take, ServerRest, ScanTypes
<1>20. CASE StartCommand
  <2>1. chan # <<>> /\ chan' = Tail(chan)
    BY <1>20 DEF StartCommand, Take
  <2>2. Tail(chan) \in Seq(CommandSet) /\ Head(chan) \in CommandSet
    BY <2>1, WithoutHead DEF ScanTypes
  <2>3. Head(chan).f \in Nat /\ Head(chan).list \in Seq(Nat)
    BY <2>2 DEF CommandSet
  <2>4. server' \in ServerSet
    BY <1>20, <2>3 DEF StartCommand, Take, ServerRest, ScanTypes, ServerSet, Tuning
  <2>5. chan' \in Seq(CommandSet)
    BY <2>1, <2>2
  <2> QED  BY <1>20, <2>4, <2>5 DEF StartCommand, Take, ServerRest, ScanTypes
<1>21. CASE StopCommand
  <2>1. chan # <<>> /\ chan' = Tail(chan)
    BY <1>21 DEF StopCommand, Take
  <2>2. Tail(chan) \in Seq(CommandSet) /\ Head(chan) \in CommandSet
    BY <2>1, WithoutHead DEF ScanTypes
  <2>3. Head(chan).f \in Nat /\ Head(chan).list \in Seq(Nat)
    BY <2>2 DEF CommandSet
  <2>4. server' \in ServerSet
    BY <1>21, <2>3 DEF StopCommand, Take, ServerRest, ScanTypes, ServerSet, Tuning
  <2>5. chan' \in Seq(CommandSet)
    BY <2>1, <2>2
  <2> QED  BY <1>21, <2>4, <2>5 DEF StopCommand, Take, ServerRest, ScanTypes
<1>22. CASE WideCommand
  <2>1. chan # <<>> /\ chan' = Tail(chan)
    BY <1>22 DEF WideCommand, Take
  <2>2. Tail(chan) \in Seq(CommandSet) /\ Head(chan) \in CommandSet
    BY <2>1, WithoutHead DEF ScanTypes
  <2>3. Head(chan).f \in Nat /\ Head(chan).list \in Seq(Nat)
    BY <2>2 DEF CommandSet
  <2>4. server' \in ServerSet
    BY <1>22, <2>3 DEF WideCommand, Take, ServerRest, ScanTypes, ServerSet, Tuning
  <2>5. chan' \in Seq(CommandSet)
    BY <2>1, <2>2
  <2> QED  BY <1>22, <2>4, <2>5 DEF WideCommand, Take, ServerRest, Spread, ScanTypes
<1>23. CASE SpreadTuners
  BY <1>23 DEF SpreadTuners, ServerRest, ScanTypes, ServerSet, Tuning
<1>24. CASE CoherentCommand
  <2>1. chan # <<>> /\ chan' = Tail(chan)
    BY <1>24 DEF CoherentCommand, Take
  <2>2. Tail(chan) \in Seq(CommandSet) /\ Head(chan) \in CommandSet
    BY <2>1, WithoutHead DEF ScanTypes
  <2>3. Head(chan).f \in Nat /\ Head(chan).list \in Seq(Nat)
    BY <2>2 DEF CommandSet
  <2>4. ASSUME server.wide PROVE server' \in ServerSet
    <3> DEFINE t == Tuning(FALSE, server.freq)
    <3>1. t \in [wide : BOOLEAN, f : Nat]
      BY DEF ScanTypes, ServerSet, Tuning
    <3>2. server' = [server EXCEPT !.wide = FALSE, !.hw = t]
      BY <1>24, <2>4 DEF CoherentCommand
    <3> HIDE DEF t
    <3> QED  BY <3>1, <3>2 DEF ScanTypes, ServerSet
  <2>5. ASSUME ~server.wide PROVE server' \in ServerSet
    BY <1>24, <2>5 DEF CoherentCommand, ScanTypes
  <2>6. server' \in ServerSet
    BY <2>4, <2>5
  <2>7. chan' \in Seq(CommandSet)
    BY <2>1, <2>2
  <2> QED  BY <1>24, <2>6, <2>7 DEF CoherentCommand, Take, ServerRest, ScanTypes
<1>25. CASE CoherentDone
  BY <1>25 DEF CoherentDone, ServerRest, ScanTypes
<1>26. CASE FrequencyCommand
  <2>1. chan # <<>> /\ chan' = Tail(chan)
    BY <1>26 DEF FrequencyCommand, Take
  <2>2. Tail(chan) \in Seq(CommandSet) /\ Head(chan) \in CommandSet
    BY <2>1, WithoutHead DEF ScanTypes
  <2>3. Head(chan).f \in Nat /\ Head(chan).list \in Seq(Nat)
    BY <2>2 DEF CommandSet
  <2>4. server' \in ServerSet
    BY <1>26, <2>3 DEF FrequencyCommand, Take, ServerRest, ScanTypes, ServerSet, Tuning
  <2>5. chan' \in Seq(CommandSet)
    BY <2>1, <2>2
  <2> QED  BY <1>26, <2>4, <2>5 DEF FrequencyCommand, Take, ServerRest, ScanTypes
<1>27. CASE HopTop
  <2>1. Len(server.list) \in Nat \ {0}
    BY <1>27 DEF HopTop, ScanTypes, Lists, ServerSet
  <2>2. hop' \in HopSet
    BY <1>27, <2>1 DEF HopTop, HopRest, ScanTypes, HopSet, ServerSet
  <2> QED  BY <1>27, <2>2 DEF HopTop, HopRest, ScanTypes
<1>28. CASE HopRead
  BY GroupAtIs, <1>28 DEF ScanTypes, ServerSet, HopSet, HopRead, HopRest
<1>29. CASE HopTune
  BY <1>29 DEF HopTune, HopRest, ScanTypes, HopSet, ServerSet, Tuning
<1>30. CASE HopNext
  <2>1. NextIndex(hop.index, hop.n) \in Nat
    BY DEF NextIndex, ScanTypes, HopSet
  <2>2. hop' \in HopSet
    BY <1>30 DEF HopNext, HopRest, ScanTypes, HopSet, AtTop
  <2>3. server' \in ServerSet
    BY <1>30, <2>1 DEF HopNext, HopRest, ScanTypes, ServerSet
  <2> QED  BY <1>30, <2>2, <2>3 DEF HopNext, HopRest, ScanTypes
<1>31. CASE UNCHANGED scanVars
  BY <1>31 DEF scanVars, ScanTypes
<1> QED
  BY <1>1, <1>2, <1>3, <1>4, <1>5, <1>6, <1>7, <1>8, <1>9, <1>10, <1>11, <1>12, <1>13, <1>14, <1>15,
     <1>16, <1>17, <1>18, <1>19, <1>20, <1>21, <1>22, <1>23, <1>24, <1>25, <1>26, <1>27, <1>28, <1>29,
        <1>30, <1>31 DEF ScanNext

\* What each step sends or takes.
LEMMA WhatIsSent ==
    ASSUME ScanTypes
    PROVE  /\ \A on \in BOOLEAN : WidebandMode(on) =>
                 \E c \in CommandSet : c.op = (IF on THEN "wide" ELSE "coherent") /\ chan' = chan \o <<c>>
           /\ StartScan => \E c \in CommandSet : c.op = "configure" /\ IsPlan(c.list) /\ chan' = chan \o <<c>>
           /\ StartGoes => \E c \in CommandSet : c.op = "start" /\ chan' = chan \o <<c>>
           /\ StopScan => \E c \in CommandSet : c.op = "stop" /\ chan' = chan \o <<c>>
           /\ SetDwell => \E c \in CommandSet : c.op = "configure" /\ c.list = client.groups /\ chan' = chan \o <<c>>
           /\ LockCoherent => \E c \in CommandSet : c.op = "coherent" /\ chan' = chan \o <<c>>
           /\ LockFrequency => \E c \in CommandSet : c.op = "frequency" /\ c.f = worker.f /\ chan' = chan \o <<c>>
           /\ ResumeConfigure => \E c \in CommandSet : c.op = "configure" /\ c.list = worker.groups /\ chan' = chan \o <<c>>
           /\ ResumeStart => \E c \in CommandSet : c.op = "start" /\ chan' = chan \o <<c>>
           /\ LockStop =>
                 \/ worker' = Rest /\ chan' = chan
                 \/ worker'.pc = "coherent" /\ \E c \in CommandSet : c.op = "stop" /\ chan' = chan \o <<c>>
           /\ ResumeWide =>
                 \/ worker' = Rest /\ chan' = chan /\ client' = client
                 \/ Resumable(client) /\ worker'.pc = "configure" /\ worker'.groups = client.groups
                    /\ \E c \in CommandSet : c.op = "wide" /\ chan' = chan \o <<c>>
           /\ \A f \in Frequencies : SetFrequency(f) =>
                 \E c \in CommandSet : c.op = "frequency" /\
                    \/ client.wide /\ \E d \in CommandSet : d.op = "coherent" /\ chan' = (chan \o <<d>>) \o <<c>>
                    \/ ~client.wide /\ chan' = chan \o <<c>>
<1>1. ASSUME NEW on \in BOOLEAN, WidebandMode(on)
      PROVE  \E c \in CommandSet : c.op = (IF on THEN "wide" ELSE "coherent") /\ chan' = chan \o <<c>>
  BY CommandsAre, <1>1 DEF Ops, WidebandMode
<1>2. ASSUME StartScan
      PROVE  \E c \in CommandSet : c.op = "configure" /\ IsPlan(c.list) /\ chan' = chan \o <<c>>
  <2> DEFINE list == Centers(GroupsOf(Enabled(conf)))
  <2>1. list \in Seq(Nat) /\ IsPlan(list)
    BY <1>2, PlansAre DEF ScanTypes, StartScan
  <2>2. client'.groups = list
    BY <1>2 DEF StartScan, ScanTypes, ClientSet
  <2>3. chan' = chan \o <<Command("configure", 0, list)>>
    BY <1>2, <2>2 DEF StartScan
  <2> DEFINE c == Command("configure", 0, list)
  <2>4. c \in CommandSet /\ c.op = "configure" /\ c.list = list
    BY <2>1, CommandsAre DEF Command
  <2> HIDE DEF c, list
  <2> QED  BY <2>1, <2>3, <2>4 DEF c
<1>3. ASSUME StartGoes PROVE \E c \in CommandSet : c.op = "start" /\ chan' = chan \o <<c>>
  BY <1>3, CommandsAre DEF StartGoes
<1>4. ASSUME StopScan PROVE \E c \in CommandSet : c.op = "stop" /\ chan' = chan \o <<c>>
  BY <1>4, CommandsAre DEF StopScan
<1>5. ASSUME SetDwell
      PROVE  \E c \in CommandSet : c.op = "configure" /\ c.list = client.groups /\ chan' = chan \o <<c>>
  <2> DEFINE c == Command("configure", 0, client.groups)
  <2>1. client.groups \in Seq(Nat)
    BY DEF ScanTypes, ClientSet, WorkerSet
  <2>2. c \in CommandSet /\ c.op = "configure" /\ c.list = client.groups
    BY <2>1, CommandsAre DEF Command
  <2>3. chan' = chan \o <<c>>
    BY <1>5 DEF SetDwell
  <2> HIDE DEF c
  <2> QED  BY <2>2, <2>3
<1>6. ASSUME LockCoherent PROVE \E c \in CommandSet : c.op = "coherent" /\ chan' = chan \o <<c>>
  BY <1>6, CommandsAre DEF LockCoherent
<1>7. ASSUME LockFrequency
      PROVE  \E c \in CommandSet : c.op = "frequency" /\ c.f = worker.f /\ chan' = chan \o <<c>>
  <2> DEFINE c == Command("frequency", worker.f, <<>>)
  <2>1. worker.f \in Nat
    BY DEF ScanTypes, ClientSet, WorkerSet
  <2>2. c \in CommandSet /\ c.op = "frequency" /\ c.f = worker.f
    BY <2>1, CommandsAre DEF Command
  <2>3. chan' = chan \o <<c>>
    BY <1>7 DEF LockFrequency
  <2> HIDE DEF c
  <2> QED  BY <2>2, <2>3
<1>8. ASSUME ResumeConfigure
      PROVE  \E c \in CommandSet : c.op = "configure" /\ c.list = worker.groups /\ chan' = chan \o <<c>>
  <2> DEFINE c == Command("configure", 0, worker.groups)
  <2>1. worker.groups \in Seq(Nat)
    BY DEF ScanTypes, ClientSet, WorkerSet
  <2>2. c \in CommandSet /\ c.op = "configure" /\ c.list = worker.groups
    BY <2>1, CommandsAre DEF Command
  <2>3. chan' = chan \o <<c>>
    BY <1>8 DEF ResumeConfigure
  <2> HIDE DEF c
  <2> QED  BY <2>2, <2>3
<1>9. ASSUME ResumeStart PROVE \E c \in CommandSet : c.op = "start" /\ chan' = chan \o <<c>>
  BY <1>9, CommandsAre DEF ResumeStart
<1>10. ASSUME LockStop
       PROVE  \/ worker' = Rest /\ chan' = chan
              \/ worker'.pc = "coherent" /\ \E c \in CommandSet : c.op = "stop" /\ chan' = chan \o <<c>>
  <2>1. CASE worker.index > Len(conf)
    BY <1>10, <2>1 DEF LockStop
  <2>2. CASE ~(worker.index > Len(conf))
    BY <1>10, <2>2, CommandsAre DEF LockStop, ScanTypes, WorkerSet
  <2> QED  BY <2>1, <2>2
<1>11. ASSUME ResumeWide
       PROVE  \/ worker' = Rest /\ chan' = chan /\ client' = client
              \/ Resumable(client) /\ worker'.pc = "configure" /\ worker'.groups = client.groups
                 /\ \E c \in CommandSet : c.op = "wide" /\ chan' = chan \o <<c>>
  <2>1. Resumable(client) => client.groups[1] \in Nat
    BY HeadIs DEF Resumable, ScanTypes, ClientSet
  <2>2. CASE Resumable(client)
    <3>1. chan' = chan \o <<Command("wide", client.groups[1], <<>>)>>
      BY <1>11, <2>2 DEF ResumeWide
    <3>2. worker'.pc = "configure" /\ worker'.groups = client.groups
      BY <1>11, <2>2 DEF ResumeWide, ScanTypes, WorkerSet
    <3> DEFINE c == Command("wide", client.groups[1], <<>>)
    <3>3. c \in CommandSet /\ c.op = "wide" /\ chan' = chan \o <<c>>
      BY <2>1, <2>2, <3>1, CommandsAre DEF Command
    <3> HIDE DEF c
    <3> QED  BY <2>2, <3>2, <3>3
  <2>3. CASE ~Resumable(client)
    BY <1>11, <2>3 DEF ResumeWide
  <2> QED  BY <2>2, <2>3
<1>12. ASSUME NEW f \in Frequencies, SetFrequency(f)
       PROVE  \E c \in CommandSet : c.op = "frequency" /\
                 \/ client.wide /\ \E d \in CommandSet : d.op = "coherent" /\ chan' = (chan \o <<d>>) \o <<c>>
                 \/ ~client.wide /\ chan' = chan \o <<c>>
  <2>1. Command("frequency", f, <<>>) \in CommandSet /\ Command("frequency", f, <<>>).op = "frequency"
        /\ Simple("coherent") \in CommandSet /\ Simple("coherent").op = "coherent"
    BY FrequenciesAre, CommandsAre
  <2>2. CASE client.wide
    BY <1>12, <2>2, <2>1 DEF SetFrequency
  <2>3. CASE ~client.wide
    <3>1. chan' = (chan \o <<>>) \o <<Command("frequency", f, <<>>)>>
      BY <1>12, <2>3 DEF SetFrequency
    <3>2. chan \o <<>> = chan
      BY DEF ScanTypes
    <3>3. chan' = chan \o <<Command("frequency", f, <<>>)>>
      BY <3>1, <3>2
    <3> QED  BY <2>1, <2>3, <3>3
  <2> QED  BY <2>2, <2>3
<1> QED
  BY <1>1, <1>2, <1>3, <1>4, <1>5, <1>6, <1>7, <1>8, <1>9, <1>10, <1>11, <1>12

LEMMA Takes ==
    ASSUME ScanTypes
    PROVE  \A op : Take(op) =>
              /\ chan # <<>> /\ chan' = Tail(chan) /\ Head(chan) = chan[1] /\ chan[1] \in CommandSet
              /\ chan[1].op = op /\ ctl = "idle" /\ chan[1].f \in Nat /\ chan[1].list \in Seq(Nat)
<1>1. ASSUME NEW op, Take(op)
      PROVE  /\ chan # <<>> /\ chan' = Tail(chan) /\ Head(chan) = chan[1] /\ chan[1] \in CommandSet
             /\ chan[1].op = op /\ ctl = "idle"
  BY <1>1, WithoutHead DEF Take, ScanTypes
<1>2. \A c \in CommandSet : c.f \in Nat /\ c.list \in Seq(Nat)
  BY DEF CommandSet
<1> QED  BY <1>1, <1>2

LEMMA PlansLonger ==
    ASSUME NEW ch \in Seq(CommandSet), NEW c \in CommandSet, PlansOnly(ch), c.op = "configure" => IsPlan(c.list)
    PROVE  PlansOnly(ch \o <<c>>)
<1> DEFINE q == ch \o <<c>>
<1>1. DOMAIN q = 1 .. Len(ch) + 1 /\ q[Len(ch) + 1] = c /\ Len(ch) \in Nat
      /\ DOMAIN ch = 1 .. Len(ch) /\ \A i \in 1 .. Len(ch) : q[i] = ch[i]
  BY LongerBy
<1> HIDE DEF q
<1>2. PlansOnly(q)
  BY <1>1 DEF PlansOnly
<1> QED  BY <1>2 DEF q

LEMMA PlansShorter ==
    ASSUME NEW ch \in Seq(CommandSet), ch # <<>>, PlansOnly(ch)
    PROVE  PlansOnly(Tail(ch)) /\ (ch[1].op = "configure" => IsPlan(ch[1].list))
<1>1. DOMAIN Tail(ch) = 1 .. Len(ch) - 1 /\ Len(ch) \in Nat /\ Len(ch) >= 1
      /\ DOMAIN ch = 1 .. Len(ch) /\ \A i \in 1 .. Len(ch) - 1 : Tail(ch)[i] = ch[i + 1]
  BY WithoutHead
<1>2. \A i \in 1 .. Len(ch) - 1 : i + 1 \in 1 .. Len(ch)
  BY <1>1
<1> QED  BY <1>1, <1>2 DEF PlansOnly

LEMMA ListsKept ==
    ASSUME ScanTypes, Lists, [ScanNext]_scanVars
    PROVE  Lists'
<1>1. ASSUME NEW c \in Configs, LoadConfig(c) PROVE Lists'
  BY <1>1 DEF LoadConfig, Give, Lists, ScanTypes, ClientSet, WorkerSet, ServerSet, HopSet
<1>2. ASSUME NEW on \in BOOLEAN, WidebandMode(on) PROVE Lists'
  <2>1. PICK c \in CommandSet : c.op = (IF on THEN "wide" ELSE "coherent") /\ chan' = chan \o <<c>>
    BY <1>2, WhatIsSent
  <2>2. c.op = "configure" => IsPlan(c.list)
    BY <1>2, <2>1 DEF WidebandMode, Lists
  <2>3. PlansOnly(chan')
    BY <2>1, <2>2, PlansLonger DEF Lists, ScanTypes
  <2> QED  BY <1>2, <2>3 DEF WidebandMode, Give, ToWide, Lists, ScanTypes, ClientSet, WorkerSet,
     ServerSet, HopSet
<1>3. ASSUME NEW f \in Frequencies, SetFrequency(f) PROVE Lists'
  <2>1. PICK c \in CommandSet : c.op = "frequency" /\
                 \/ client.wide /\ \E d \in CommandSet : d.op = "coherent" /\ chan' = (chan \o <<d>>) \o <<c>>
                 \/ ~client.wide /\ chan' = chan \o <<c>>
    BY <1>3, WhatIsSent
  <2>2. PlansOnly(chan')
    <3>1. CASE client.wide
      <4>1. PICK d \in CommandSet : d.op = "coherent" /\ chan' = (chan \o <<d>>) \o <<c>>
        BY <2>1, <3>1
      <4>2. PlansOnly(chan \o <<d>>) /\ chan \o <<d>> \in Seq(CommandSet)
        BY <4>1, PlansLonger, LongerBy DEF Lists, ScanTypes
      <4> QED  BY <2>1, <4>1, <4>2, PlansLonger
    <3>2. CASE ~client.wide
      BY <2>1, <3>2, PlansLonger DEF Lists, ScanTypes
    <3> QED  BY <3>1, <3>2
  <2> QED  BY <1>3, <2>2 DEF SetFrequency, Give, ToWide, Lists, ScanTypes, ClientSet, WorkerSet,
     ServerSet, HopSet
<1>4. CASE StartScan
  <2> DEFINE list == Centers(GroupsOf(Enabled(conf)))
  <2>1. IsPlan(list)
    BY <1>4, PlansAre DEF ScanTypes, StartScan
  <2>2. client' = [client EXCEPT !.groups = list]
    BY <1>4 DEF StartScan
  <2>3. PICK c \in CommandSet : c.op = "configure" /\ IsPlan(c.list) /\ chan' = chan \o <<c>>
    BY <1>4, WhatIsSent
  <2>4. PlansOnly(chan')
    BY <2>3, PlansLonger DEF Lists, ScanTypes
  <2>5. server' = server /\ worker' = worker /\ hop' = hop
    BY <1>4 DEF StartScan
  <2> HIDE DEF list
  <2>6. client'.groups = list
    BY <2>2 DEF ScanTypes, ClientSet
  <2> QED  BY <2>1, <2>4, <2>5, <2>6 DEF Lists
<1>5. CASE StartGoes
  <2>1. PICK c \in CommandSet : c.op = "start" /\ chan' = chan \o <<c>>
    BY <1>5, WhatIsSent
  <2>2. c.op = "configure" => IsPlan(c.list)
    BY <1>5, <2>1 DEF StartGoes, Lists
  <2>3. PlansOnly(chan')
    BY <2>1, <2>2, PlansLonger DEF Lists, ScanTypes
  <2> QED  BY <1>5, <2>3 DEF StartGoes, Lists, ScanTypes, ClientSet, WorkerSet, ServerSet, HopSet
<1>6. CASE StopScan
  <2>1. PICK c \in CommandSet : c.op = "stop" /\ chan' = chan \o <<c>>
    BY <1>6, WhatIsSent
  <2>2. c.op = "configure" => IsPlan(c.list)
    BY <1>6, <2>1 DEF StopScan, Lists
  <2>3. PlansOnly(chan')
    BY <2>1, <2>2, PlansLonger DEF Lists, ScanTypes
  <2> QED  BY <1>6, <2>3 DEF StopScan, Give, Stopped, Lists, ScanTypes, ClientSet, WorkerSet,
     ServerSet, HopSet
<1>7. CASE SetDwell
  <2>1. PICK c \in CommandSet : c.op = "configure" /\ c.list = client.groups /\ chan' = chan \o <<c>>
    BY <1>7, WhatIsSent
  <2>2. c.op = "configure" => IsPlan(c.list)
    BY <1>7, <2>1 DEF SetDwell, Lists
  <2>3. PlansOnly(chan')
    BY <2>1, <2>2, PlansLonger DEF Lists, ScanTypes
  <2> QED  BY <1>7, <2>3 DEF SetDwell, Give, Lists, ScanTypes, ClientSet, WorkerSet, ServerSet, HopSet
<1>8. CASE NextSignal
  BY <1>8 DEF NextSignal, Give, Lists, ScanTypes, ClientSet, WorkerSet, ServerSet, HopSet
<1>9. CASE Settle
  BY <1>9 DEF Settle, Lists, ScanTypes, ClientSet, WorkerSet, ServerSet, HopSet
<1>10. CASE LoseSignal
  BY <1>10 DEF LoseSignal, Lists, ScanTypes, ClientSet, WorkerSet, ServerSet, HopSet
<1>11. ASSUME NEW i \in DOMAIN conf, Detect(i) PROVE Lists'
  BY <1>11 DEF Detect, Lists, ScanTypes, ClientSet, WorkerSet, ServerSet, HopSet
<1>12. CASE LockStop
  <2>1. PlansOnly(chan')
    <3>1. chan' = chan \/ \E c \in CommandSet : c.op = "stop" /\ chan' = chan \o <<c>>
      BY <1>12, WhatIsSent
    <3>2. ASSUME NEW c \in CommandSet, c.op = "stop" PROVE PlansOnly(chan \o <<c>>)
      BY <3>2, PlansLonger DEF Lists, ScanTypes
    <3> QED  BY <3>1, <3>2 DEF Lists
  <2>2. worker'.pc # "configure"
    BY <1>12, WhatIsSent, RestIs
  <2> QED  BY <1>12, <2>1, <2>2 DEF LockStop, Lists
<1>13. CASE LockCoherent
  <2>1. PICK c \in CommandSet : c.op = "coherent" /\ chan' = chan \o <<c>>
    BY <1>13, WhatIsSent
  <2>2. c.op = "configure" => IsPlan(c.list)
    BY <1>13, <2>1 DEF LockCoherent, Lists
  <2>3. PlansOnly(chan')
    BY <2>1, <2>2, PlansLonger DEF Lists, ScanTypes
  <2> QED  BY <1>13, <2>3 DEF LockCoherent, Lists, ScanTypes, ClientSet, WorkerSet, ServerSet, HopSet
<1>14. CASE LockFrequency
  <2>1. PICK c \in CommandSet : c.op = "frequency" /\ chan' = chan \o <<c>>
    BY <1>14, WhatIsSent
  <2>2. c.op = "configure" => IsPlan(c.list)
    BY <1>14, <2>1 DEF LockFrequency, Lists
  <2>3. PlansOnly(chan')
    BY <2>1, <2>2, PlansLonger DEF Lists, ScanTypes
  <2> QED  BY <1>14, <2>3 DEF LockFrequency, Lists, ScanTypes, ClientSet, WorkerSet, ServerSet, HopSet
<1>15. CASE LockDone
  BY <1>15, RestIs DEF LockDone, Lists, ScanTypes, ClientSet, WorkerSet, ServerSet, HopSet
<1>16. CASE ResumeWide
  <2>1. PlansOnly(chan')
    <3>1. chan' = chan \/ \E c \in CommandSet : c.op = "wide" /\ chan' = chan \o <<c>>
      BY <1>16, WhatIsSent
    <3>2. ASSUME NEW c \in CommandSet, c.op = "wide" PROVE PlansOnly(chan \o <<c>>)
      BY <3>2, PlansLonger DEF Lists, ScanTypes
    <3> QED  BY <3>1, <3>2 DEF Lists
  <2>2. worker'.pc = "configure" => IsPlan(worker'.groups)
    BY <1>16, WhatIsSent, RestIs DEF Lists, Resumable
  <2>3. client'.groups = client.groups /\ client'.running = client.running
    BY <1>16 DEF ResumeWide, ScanTypes, ClientSet
  <2> QED  BY <1>16, <2>1, <2>2, <2>3 DEF ResumeWide, Lists
<1>17. CASE ResumeConfigure
  <2>1. PICK c \in CommandSet : c.op = "configure" /\ c.list = worker.groups /\ chan' = chan \o <<c>>
    BY <1>17, WhatIsSent
  <2>2. c.op = "configure" => IsPlan(c.list)
    BY <1>17, <2>1 DEF ResumeConfigure, Lists
  <2>3. PlansOnly(chan')
    BY <2>1, <2>2, PlansLonger DEF Lists, ScanTypes
  <2> QED  BY <1>17, <2>3 DEF ResumeConfigure, Lists, ScanTypes, ClientSet, WorkerSet, ServerSet, HopSet
<1>18. CASE ResumeStart
  <2>1. PICK c \in CommandSet : c.op = "start" /\ chan' = chan \o <<c>>
    BY <1>18, WhatIsSent
  <2>2. c.op = "configure" => IsPlan(c.list)
    BY <1>18, <2>1 DEF ResumeStart, Lists
  <2>3. PlansOnly(chan')
    BY <2>1, <2>2, PlansLonger DEF Lists, ScanTypes
  <2> QED  BY <1>18, <2>3, RestIs DEF ResumeStart, Lists, ScanTypes, ClientSet, WorkerSet, ServerSet,
     HopSet
<1>19. CASE Configure
  <2>1. Take("configure")
    BY <1>19 DEF Configure
  <2>2. chan # <<>> /\ chan' = Tail(chan) /\ Head(chan) = chan[1] /\ chan[1].op = "configure"
    BY <2>1, Takes
  <2>3. PlansOnly(chan') /\ (chan[1].op = "configure" => IsPlan(chan[1].list))
    BY <2>2, PlansShorter DEF ScanTypes, Lists
  <2>4. server'.list = chan[1].list /\ server'.index = 0 /\ server'.enabled = server.enabled
    BY <1>19, <2>2 DEF Configure, ScanTypes, ServerSet
  <2>5. server'.list # <<>>
    BY <2>2, <2>3, <2>4, PlanIsList
  <2> QED  BY <1>19, <2>2, <2>3, <2>4, <2>5 DEF Configure, ServerRest, Lists, Index
<1>20. CASE StartCommand
  <2>1. Take("start")
    BY <1>20 DEF StartCommand
  <2>2. chan # <<>> /\ chan' = Tail(chan) /\ Head(chan) = chan[1] /\ chan[1].op = "start"
    BY <2>1, Takes
  <2>3. PlansOnly(chan') /\ (chan[1].op = "configure" => IsPlan(chan[1].list))
    BY <2>2, PlansShorter DEF ScanTypes, Lists
  <2>4. /\ server'.list = server.list /\ server'.index \in {0, server.index}
        /\ server'.enabled => server.enabled \/ server.list # <<>>
    BY <1>20 DEF StartCommand, ScanTypes, ServerSet
  <2> QED  BY <1>20, <2>3, <2>4 DEF StartCommand, ServerRest, Lists, Index
<1>21. CASE StopCommand
  <2>1. Take("stop")
    BY <1>21 DEF StopCommand
  <2>2. chan # <<>> /\ chan' = Tail(chan) /\ Head(chan) = chan[1] /\ chan[1].op = "stop"
    BY <2>1, Takes
  <2>3. PlansOnly(chan') /\ (chan[1].op = "configure" => IsPlan(chan[1].list))
    BY <2>2, PlansShorter DEF ScanTypes, Lists
  <2>4. /\ server'.list = server.list /\ server'.index \in {0, server.index}
        /\ server'.enabled => server.enabled \/ server.list # <<>>
    BY <1>21 DEF StopCommand, ScanTypes, ServerSet
  <2> QED  BY <1>21, <2>3, <2>4 DEF StopCommand, ServerRest, Lists, Index
<1>22. CASE WideCommand
  <2>1. Take("wide")
    BY <1>22 DEF WideCommand
  <2>2. chan # <<>> /\ chan' = Tail(chan) /\ Head(chan) = chan[1] /\ chan[1].op = "wide"
    BY <2>1, Takes
  <2>3. PlansOnly(chan') /\ (chan[1].op = "configure" => IsPlan(chan[1].list))
    BY <2>2, PlansShorter DEF ScanTypes, Lists
  <2>4. /\ server'.list = server.list /\ server'.index \in {0, server.index}
        /\ server'.enabled => server.enabled \/ server.list # <<>>
    BY <1>22 DEF WideCommand, ScanTypes, ServerSet
  <2> QED  BY <1>22, <2>3, <2>4 DEF WideCommand, ServerRest, Lists, Index
<1>23. CASE SpreadTuners
  BY <1>23 DEF SpreadTuners, ScanTypes, ServerSet, ServerRest, Lists
<1>24. CASE CoherentCommand
  <2>1. Take("coherent")
    BY <1>24 DEF CoherentCommand
  <2>2. chan # <<>> /\ chan' = Tail(chan) /\ Head(chan) = chan[1] /\ chan[1].op = "coherent"
    BY <2>1, Takes
  <2>3. PlansOnly(chan') /\ (chan[1].op = "configure" => IsPlan(chan[1].list))
    BY <2>2, PlansShorter DEF ScanTypes, Lists
  <2>4. /\ server'.list = server.list /\ server'.index \in {0, server.index}
        /\ server'.enabled => server.enabled \/ server.list # <<>>
    BY <1>24 DEF CoherentCommand, ScanTypes, ServerSet
  <2> QED  BY <1>24, <2>3, <2>4 DEF CoherentCommand, ServerRest, Lists, Index
<1>25. CASE CoherentDone
  BY <1>25 DEF CoherentDone, ServerRest, Lists
<1>26. CASE FrequencyCommand
  <2>1. Take("frequency")
    BY <1>26 DEF FrequencyCommand
  <2>2. chan # <<>> /\ chan' = Tail(chan) /\ Head(chan) = chan[1] /\ chan[1].op = "frequency"
    BY <2>1, Takes
  <2>3. PlansOnly(chan') /\ (chan[1].op = "configure" => IsPlan(chan[1].list))
    BY <2>2, PlansShorter DEF ScanTypes, Lists
  <2>4. /\ server'.list = server.list /\ server'.index \in {0, server.index}
        /\ server'.enabled => server.enabled \/ server.list # <<>>
    BY <1>26 DEF FrequencyCommand, ScanTypes, ServerSet
  <2> QED  BY <1>26, <2>3, <2>4 DEF FrequencyCommand, ServerRest, Lists, Index
<1>27. CASE HopTop
  BY <1>27, PlanIsList DEF HopTop, Lists, Length, ScanTypes, HopSet, HopRest
<1>28. CASE HopRead
  BY <1>28 DEF HopRead, ScanTypes, HopSet, HopRest, Lists
<1>29. CASE HopTune
  BY <1>29 DEF HopTune, ScanTypes, HopSet, ServerSet, HopRest, Lists
<1>30. CASE HopNext
  <2>1. hop'.pc = "top" /\ hop'.index = 0
    BY <1>30 DEF HopNext, AtTop
  <2>2. server'.list = server.list /\ server'.index = NextIndex(hop.index, hop.n) /\ server'.enabled = server.enabled
    BY <1>30 DEF HopNext, ScanTypes, ServerSet
  <2>3. Index(NextIndex(hop.index, hop.n))
    <3>1. PICK c \in Configs : hop.n = Len(GroupsOf(Enabled(c)))
      BY <1>30 DEF HopNext, Lists, Length
    <3>2. hop.n \in Nat \ {0} /\ hop.index \in Nat
      BY DEF ScanTypes, HopSet
    <3>3. (hop.index + 1) % hop.n < hop.n
      BY <3>2
    <3> QED  BY <3>1, <3>3 DEF Index, NextIndex
  <2> QED  BY <1>30, <2>1, <2>2, <2>3 DEF HopNext, HopRest, Lists, Index
<1>31. CASE UNCHANGED scanVars
  BY <1>31 DEF scanVars, Lists
<1> QED
  BY <1>1, <1>2, <1>3, <1>4, <1>5, <1>6, <1>7, <1>8, <1>9, <1>10, <1>11, <1>12, <1>13, <1>14, <1>15,
     <1>16, <1>17, <1>18, <1>19, <1>20, <1>21, <1>22, <1>23, <1>24, <1>25, <1>26, <1>27, <1>28, <1>29,
        <1>30, <1>31 DEF ScanNext

LEMMA PrecededLonger ==
    ASSUME NEW ch \in Seq(CommandSet), NEW c \in CommandSet, NEW listed, Preceded(ch, listed),
           c.op = "start" => listed \/ Configures(ch)
    PROVE  Preceded(ch \o <<c>>, listed) /\ (Configures(ch) \/ c.op = "configure" => Configures(ch \o <<c>>))
<1> DEFINE q == ch \o <<c>>
           n == Len(ch)
<1>1. DOMAIN q = 1 .. n + 1 /\ q[n + 1] = c /\ n \in Nat
      /\ DOMAIN ch = 1 .. n /\ \A i \in 1 .. n : q[i] = ch[i]
  BY LongerBy
<1> HIDE DEF q
<1>2. ASSUME NEW i \in 1 .. n + 1, q[i].op = "start"
      PROVE  listed \/ \E j \in 1 .. i - 1 : q[j].op = "configure"
  <2>1. CASE i = n + 1
    <3>1. ASSUME Configures(ch) PROVE \E j \in 1 .. i - 1 : q[j].op = "configure"
      <4>1. PICK j \in 1 .. n : ch[j].op = "configure"
        BY <1>1, <3>1 DEF Configures
      <4>2. j \in 1 .. i - 1 /\ q[j].op = "configure"
        BY <1>1, <2>1, <4>1
      <4> QED  BY <4>2
    <3> QED  BY <1>1, <1>2, <2>1, <3>1
  <2>2. CASE i # n + 1
    BY <1>1, <1>2, <2>2 DEF Preceded
  <2> QED  BY <2>1, <2>2
<1>3. Preceded(q, listed)
  BY <1>1, <1>2 DEF Preceded
<1>4. Configures(ch) \/ c.op = "configure" => Configures(q)
  BY <1>1 DEF Configures
<1> QED  BY <1>3, <1>4 DEF q

LEMMA PrecededShorter ==
    ASSUME NEW ch \in Seq(CommandSet), ch # <<>>, NEW listed, NEW then, Preceded(ch, listed),
           ch[1].op = "configure" => then, listed => then
    PROVE  /\ Preceded(Tail(ch), then) /\ (ch[1].op = "start" => listed)
           /\ Configures(ch) => ch[1].op = "configure" \/ Configures(Tail(ch))
<1> DEFINE q == Tail(ch)
           n == Len(ch)
<1>1. /\ DOMAIN q = 1 .. n - 1 /\ n \in Nat /\ n >= 1 /\ DOMAIN ch = 1 .. n
      /\ \A i \in 1 .. n - 1 : q[i] = ch[i + 1]
      /\ \A i \in 2 .. n : q[i - 1] = ch[i] /\ i - 1 \in 1 .. n - 1
  BY WithoutHead
<1> HIDE DEF q
<1>2. ASSUME NEW i \in 1 .. n - 1, q[i].op = "start"
      PROVE  then \/ \E j \in 1 .. i - 1 : q[j].op = "configure"
  <2>1. i + 1 \in 1 .. n /\ ch[i + 1].op = "start"
    BY <1>1, <1>2
  <2>2. listed \/ \E j \in 1 .. (i + 1) - 1 : ch[j].op = "configure"
    BY <1>1, <2>1 DEF Preceded
  <2>3. ASSUME NEW j \in 1 .. (i + 1) - 1, ch[j].op = "configure", j # 1
        PROVE  \E k \in 1 .. i - 1 : q[k].op = "configure"
    BY <1>1, <2>1, <2>3
  <2> QED  BY <2>2, <2>3
<1>3. Preceded(q, then)
  BY <1>1, <1>2 DEF Preceded
<1>4. ch[1].op = "start" => listed
  BY <1>1 DEF Preceded
<1>5. ASSUME NEW i \in 1 .. n, ch[i].op = "configure", i # 1 PROVE Configures(q)
  BY <1>1, <1>5 DEF Configures
<1>6. Configures(ch) => ch[1].op = "configure" \/ Configures(q)
  BY <1>1, <1>5 DEF Configures
<1> QED  BY <1>3, <1>4, <1>6 DEF q

LEMMA FedKept ==
    ASSUME ScanTypes, Lists, Fed, [ScanNext]_scanVars
    PROVE  Fed'
<1> DEFINE listed == server.list # <<>>
<1>0. Preceded(chan, listed) /\ chan \in Seq(CommandSet)
  BY DEF Fed, ScanTypes
<1>1. ASSUME NEW c \in Configs, LoadConfig(c) PROVE Fed'
  BY <1>1 DEF LoadConfig, Give, Fed
<1>2. ASSUME NEW on \in BOOLEAN, WidebandMode(on) PROVE Fed'
  <2>1. PICK c \in CommandSet : c.op = (IF on THEN "wide" ELSE "coherent") /\ chan' = chan \o <<c>>
    BY <1>2, WhatIsSent
  <2>2. c.op = "start" => listed \/ Configures(chan)
    BY <1>2, <2>1 DEF WidebandMode, Fed
  <2>3. Preceded(chan', listed) /\ (Configures(chan) \/ c.op = "configure" => Configures(chan'))
    BY <1>0, <2>1, <2>2, PrecededLonger
  <2> QED  BY <1>2, <2>1, <2>3 DEF WidebandMode, Give, ToWide, Fed, ScanTypes, ClientSet, WorkerSet
<1>3. ASSUME NEW f \in Frequencies, SetFrequency(f) PROVE Fed'
  <2>1. PICK c \in CommandSet : c.op = "frequency" /\
                 \/ client.wide /\ \E d \in CommandSet : d.op = "coherent" /\ chan' = (chan \o <<d>>) \o <<c>>
                 \/ ~client.wide /\ chan' = chan \o <<c>>
    BY <1>3, WhatIsSent
  <2>2. Preceded(chan', listed) /\ (Configures(chan) => Configures(chan'))
    <3>1. CASE client.wide
      <4>1. PICK d \in CommandSet : d.op = "coherent" /\ chan' = (chan \o <<d>>) \o <<c>>
        BY <2>1, <3>1
      <4>2. Preceded(chan \o <<d>>, listed) /\ chan \o <<d>> \in Seq(CommandSet)
            /\ (Configures(chan) => Configures(chan \o <<d>>))
        BY <1>0, <4>1, PrecededLonger, LongerBy
      <4> QED  BY <2>1, <4>1, <4>2, PrecededLonger
    <3>2. CASE ~client.wide
      BY <1>0, <2>1, <3>2, PrecededLonger
    <3> QED  BY <3>1, <3>2
  <2>3. server' = server /\ worker' = worker /\ web' = web /\ client'.running = client.running
    BY <1>3 DEF SetFrequency, ToWide, ScanTypes, ClientSet
  <2> QED  BY <2>2, <2>3 DEF Fed
<1>4. CASE StartScan
  <2>1. PICK c \in CommandSet : c.op = "configure" /\ chan' = chan \o <<c>>
    BY <1>4, WhatIsSent
  <2>2. Preceded(chan', listed) /\ Configures(chan')
    BY <1>0, <2>1, PrecededLonger
  <2>3. server' = server
    BY <1>4 DEF StartScan
  <2> QED  BY <2>2, <2>3 DEF Fed
<1>5. CASE StartGoes
  <2>1. PICK c \in CommandSet : c.op = "start" /\ chan' = chan \o <<c>>
    BY <1>5, WhatIsSent
  <2>2. c.op = "start" => listed \/ Configures(chan)
    BY <1>5, <2>1 DEF StartGoes, Fed
  <2>3. Preceded(chan', listed) /\ (Configures(chan) \/ c.op = "configure" => Configures(chan'))
    BY <1>0, <2>1, <2>2, PrecededLonger
  <2> QED  BY <1>5, <2>1, <2>3 DEF StartGoes, Fed, ScanTypes, ClientSet, WorkerSet
<1>6. CASE StopScan
  <2>1. PICK c \in CommandSet : c.op = "stop" /\ chan' = chan \o <<c>>
    BY <1>6, WhatIsSent
  <2>2. c.op = "start" => listed \/ Configures(chan)
    BY <1>6, <2>1 DEF StopScan, Fed
  <2>3. Preceded(chan', listed) /\ (Configures(chan) \/ c.op = "configure" => Configures(chan'))
    BY <1>0, <2>1, <2>2, PrecededLonger
  <2> QED  BY <1>6, <2>1, <2>3 DEF StopScan, Give, Stopped, Fed, ScanTypes, ClientSet, WorkerSet
<1>7. CASE SetDwell
  <2>1. PICK c \in CommandSet : c.op = "configure" /\ chan' = chan \o <<c>>
    BY <1>7, WhatIsSent
  <2>2. c.op = "start" => listed \/ Configures(chan)
    BY <1>7, <2>1 DEF SetDwell, Fed
  <2>3. Preceded(chan', listed) /\ (Configures(chan) \/ c.op = "configure" => Configures(chan'))
    BY <1>0, <2>1, <2>2, PrecededLonger
  <2> QED  BY <1>7, <2>1, <2>3 DEF SetDwell, Give, Fed, ScanTypes, ClientSet, WorkerSet
<1>8. CASE NextSignal
  BY <1>8 DEF NextSignal, Give, Fed, ScanTypes, ClientSet, WorkerSet
<1>9. CASE Settle
  BY <1>9 DEF Settle, Fed, ScanTypes, ClientSet, WorkerSet
<1>10. CASE LoseSignal
  BY <1>10 DEF LoseSignal, Fed, ScanTypes, ClientSet, WorkerSet
<1>11. ASSUME NEW i \in DOMAIN conf, Detect(i) PROVE Fed'
  BY <1>11 DEF Detect, Fed, ScanTypes, ClientSet, WorkerSet
<1>12. CASE LockStop
  <2>1. Preceded(chan', listed) /\ (Configures(chan) => Configures(chan'))
    <3>1. chan' = chan \/ \E c \in CommandSet : c.op = "stop" /\ chan' = chan \o <<c>>
      BY <1>12, WhatIsSent
    <3>2. ASSUME NEW c \in CommandSet, c.op = "stop"
          PROVE  Preceded(chan \o <<c>>, listed) /\ (Configures(chan) => Configures(chan \o <<c>>))
      BY <1>0, <3>2, PrecededLonger
    <3> QED  BY <1>0, <3>1, <3>2
  <2>2. worker'.pc # "start"
    BY <1>12, WhatIsSent, RestIs
  <2>3. server' = server /\ web' = web /\ client'.running = client.running
    BY <1>12 DEF LockStop, ScanTypes, ClientSet
  <2> QED  BY <2>1, <2>2, <2>3 DEF Fed
<1>13. CASE LockCoherent
  <2>1. PICK c \in CommandSet : c.op = "coherent" /\ chan' = chan \o <<c>>
    BY <1>13, WhatIsSent
  <2>2. c.op = "start" => listed \/ Configures(chan)
    BY <1>13, <2>1 DEF LockCoherent, Fed
  <2>3. Preceded(chan', listed) /\ (Configures(chan) \/ c.op = "configure" => Configures(chan'))
    BY <1>0, <2>1, <2>2, PrecededLonger
  <2> QED  BY <1>13, <2>1, <2>3 DEF LockCoherent, Fed, ScanTypes, ClientSet, WorkerSet
<1>14. CASE LockFrequency
  <2>1. PICK c \in CommandSet : c.op = "frequency" /\ chan' = chan \o <<c>>
    BY <1>14, WhatIsSent
  <2>2. c.op = "start" => listed \/ Configures(chan)
    BY <1>14, <2>1 DEF LockFrequency, Fed
  <2>3. Preceded(chan', listed) /\ (Configures(chan) \/ c.op = "configure" => Configures(chan'))
    BY <1>0, <2>1, <2>2, PrecededLonger
  <2> QED  BY <1>14, <2>1, <2>3 DEF LockFrequency, Fed, ScanTypes, ClientSet, WorkerSet
<1>15. CASE LockDone
  BY <1>15, RestIs DEF LockDone, Fed, ScanTypes, ClientSet, WorkerSet
<1>16. CASE ResumeWide
  <2>1. Preceded(chan', listed) /\ (Configures(chan) => Configures(chan'))
    <3>1. chan' = chan \/ \E c \in CommandSet : c.op = "wide" /\ chan' = chan \o <<c>>
      BY <1>16, WhatIsSent
    <3>2. ASSUME NEW c \in CommandSet, c.op = "wide"
          PROVE  Preceded(chan \o <<c>>, listed) /\ (Configures(chan) => Configures(chan \o <<c>>))
      BY <1>0, <3>2, PrecededLonger
    <3> QED  BY <1>0, <3>1, <3>2
  <2>2. worker'.pc # "start"
    BY <1>16, WhatIsSent, RestIs
  <2>3. server' = server /\ web' = web /\ client'.running = client.running
    BY <1>16 DEF ResumeWide, ScanTypes, ClientSet
  <2> QED  BY <2>1, <2>2, <2>3 DEF Fed
<1>17. CASE ResumeConfigure
  <2>1. PICK c \in CommandSet : c.op = "configure" /\ chan' = chan \o <<c>>
    BY <1>17, WhatIsSent
  <2>2. c.op = "start" => listed \/ Configures(chan)
    BY <1>17, <2>1 DEF ResumeConfigure, Fed
  <2>3. Preceded(chan', listed) /\ (Configures(chan) \/ c.op = "configure" => Configures(chan'))
    BY <1>0, <2>1, <2>2, PrecededLonger
  <2> QED  BY <1>17, <2>1, <2>3 DEF ResumeConfigure, Fed, ScanTypes, ClientSet, WorkerSet
<1>18. CASE ResumeStart
  <2>1. PICK c \in CommandSet : c.op = "start" /\ chan' = chan \o <<c>>
    BY <1>18, WhatIsSent
  <2>2. c.op = "start" => listed \/ Configures(chan)
    BY <1>18, <2>1 DEF ResumeStart, Fed
  <2>3. Preceded(chan', listed) /\ (Configures(chan) \/ c.op = "configure" => Configures(chan'))
    BY <1>0, <2>1, <2>2, PrecededLonger
  <2> QED  BY <1>18, <2>1, <2>3, RestIs DEF ResumeStart, Fed, ScanTypes, ClientSet, WorkerSet
<1>19. CASE Configure
  <2>1. Take("configure")
    BY <1>19 DEF Configure
  <2>2. chan # <<>> /\ chan' = Tail(chan) /\ Head(chan) = chan[1] /\ chan[1].op = "configure"
    BY <2>1, Takes
  <2>3. listed' 
    BY <1>19, <2>2, PlansShorter, PlanIsList DEF Configure, ScanTypes, ServerSet, Lists
  <2>4. Preceded(chan', listed') /\ (Configures(chan) => chan[1].op = "configure" \/ Configures(chan'))
    <3> HIDE DEF listed
    <3> QED  BY <1>0, <2>2, <2>3, PrecededShorter
  <2>5. client' = client /\ worker' = worker /\ web' = web
    BY <1>19 DEF Configure, ServerRest
  <2> QED  BY <2>2, <2>3, <2>4, <2>5 DEF Fed
<1>20. CASE StartCommand
  <2>1. Take("start")
    BY <1>20 DEF StartCommand
  <2>2. chan # <<>> /\ chan' = Tail(chan) /\ Head(chan) = chan[1] /\ chan[1].op = "start"
    BY <2>1, Takes
  <2>3. listed' = listed
    BY <1>20 DEF StartCommand, ScanTypes, ServerSet
  <2>4. Preceded(chan', listed') /\ (Configures(chan) => chan[1].op = "configure" \/ Configures(chan'))
    <3> HIDE DEF listed
    <3> QED  BY <1>0, <2>2, <2>3, PrecededShorter
  <2>5. client' = client /\ worker' = worker /\ web' = web
    BY <1>20 DEF StartCommand, ServerRest
  <2> QED  BY <2>2, <2>3, <2>4, <2>5 DEF Fed
<1>21. CASE StopCommand
  <2>1. Take("stop")
    BY <1>21 DEF StopCommand
  <2>2. chan # <<>> /\ chan' = Tail(chan) /\ Head(chan) = chan[1] /\ chan[1].op = "stop"
    BY <2>1, Takes
  <2>3. listed' = listed
    BY <1>21 DEF StopCommand, ScanTypes, ServerSet
  <2>4. Preceded(chan', listed') /\ (Configures(chan) => chan[1].op = "configure" \/ Configures(chan'))
    <3> HIDE DEF listed
    <3> QED  BY <1>0, <2>2, <2>3, PrecededShorter
  <2>5. client' = client /\ worker' = worker /\ web' = web
    BY <1>21 DEF StopCommand, ServerRest
  <2> QED  BY <2>2, <2>3, <2>4, <2>5 DEF Fed
<1>22. CASE WideCommand
  <2>1. Take("wide")
    BY <1>22 DEF WideCommand
  <2>2. chan # <<>> /\ chan' = Tail(chan) /\ Head(chan) = chan[1] /\ chan[1].op = "wide"
    BY <2>1, Takes
  <2>3. listed' = listed
    BY <1>22 DEF WideCommand, ScanTypes, ServerSet
  <2>4. Preceded(chan', listed') /\ (Configures(chan) => chan[1].op = "configure" \/ Configures(chan'))
    <3> HIDE DEF listed
    <3> QED  BY <1>0, <2>2, <2>3, PrecededShorter
  <2>5. client' = client /\ worker' = worker /\ web' = web
    BY <1>22 DEF WideCommand, ServerRest
  <2> QED  BY <2>2, <2>3, <2>4, <2>5 DEF Fed
<1>23. CASE SpreadTuners
  BY <1>23 DEF SpreadTuners, ScanTypes, ServerSet, ServerRest, HopRest, Fed
<1>24. CASE CoherentCommand
  <2>1. Take("coherent")
    BY <1>24 DEF CoherentCommand
  <2>2. chan # <<>> /\ chan' = Tail(chan) /\ Head(chan) = chan[1] /\ chan[1].op = "coherent"
    BY <2>1, Takes
  <2>3. listed' = listed
    BY <1>24 DEF CoherentCommand, ScanTypes, ServerSet
  <2>4. Preceded(chan', listed') /\ (Configures(chan) => chan[1].op = "configure" \/ Configures(chan'))
    <3> HIDE DEF listed
    <3> QED  BY <1>0, <2>2, <2>3, PrecededShorter
  <2>5. client' = client /\ worker' = worker /\ web' = web
    BY <1>24 DEF CoherentCommand, ServerRest
  <2> QED  BY <2>2, <2>3, <2>4, <2>5 DEF Fed
<1>25. CASE CoherentDone
  BY <1>25 DEF CoherentDone, ServerRest, Fed
<1>26. CASE FrequencyCommand
  <2>1. Take("frequency")
    BY <1>26 DEF FrequencyCommand
  <2>2. chan # <<>> /\ chan' = Tail(chan) /\ Head(chan) = chan[1] /\ chan[1].op = "frequency"
    BY <2>1, Takes
  <2>3. listed' = listed
    BY <1>26 DEF FrequencyCommand, ScanTypes, ServerSet
  <2>4. Preceded(chan', listed') /\ (Configures(chan) => chan[1].op = "configure" \/ Configures(chan'))
    <3> HIDE DEF listed
    <3> QED  BY <1>0, <2>2, <2>3, PrecededShorter
  <2>5. client' = client /\ worker' = worker /\ web' = web
    BY <1>26 DEF FrequencyCommand, ServerRest
  <2> QED  BY <2>2, <2>3, <2>4, <2>5 DEF Fed
<1>27. CASE HopTop
  BY <1>27 DEF HopTop, HopRest, Fed
<1>28. CASE HopRead
  BY <1>28 DEF HopRead, HopRest, Fed
<1>29. CASE HopTune
  BY <1>29 DEF HopTune, ScanTypes, ServerSet, ServerRest, HopRest, Fed
<1>30. CASE HopNext
  BY <1>30 DEF HopNext, ScanTypes, ServerSet, ServerRest, HopRest, Fed
<1>31. CASE UNCHANGED scanVars
  BY <1>31 DEF scanVars, Fed
<1> QED
  BY <1>1, <1>2, <1>3, <1>4, <1>5, <1>6, <1>7, <1>8, <1>9, <1>10, <1>11, <1>12, <1>13, <1>14, <1>15,
     <1>16, <1>17, <1>18, <1>19, <1>20, <1>21, <1>22, <1>23, <1>24, <1>25, <1>26, <1>27, <1>28, <1>29,
        <1>30, <1>31 DEF ScanNext

LEMMA SwitchedKept ==
    ASSUME ScanTypes, Switched, [ScanNext]_scanVars
    PROVE  Switched'
<1> DEFINE Wide(ch, now) == Ends(ch, "wide", "coherent", now)
<1>0. chan \in Seq(CommandSet) /\ client.wide \in BOOLEAN /\ client.wide = Wide(chan, server.wide)
      /\ (web = "start" => ~client.running)
      /\ (~client.running => client.fm) /\ (client.running => client.fm \/ client.fmBefore)
  BY DEF Switched, ScanTypes, ClientSet
<1>a. ASSUME NEW c \in CommandSet
      PROVE  Wide(chan \o <<c>>, server.wide) =
                IF c.op \in {"wide", "coherent"} THEN c.op = "wide" ELSE Wide(chan, server.wide)
  BY <1>0, EndsLonger
<1>c. ASSUME NEW ch \in Seq(CommandSet), NEW c \in CommandSet, c.op = "frequency"
      PROVE  Wide(ch \o <<c>>, server.wide) = Wide(ch, server.wide)
  BY <1>c, EndsLonger
<1>d. ASSUME chan # <<>>
      PROVE  Wide(chan, server.wide) =
                Wide(Tail(chan), IF chan[1].op \in {"wide", "coherent"} THEN chan[1].op = "wide" ELSE server.wide)
  BY <1>0, <1>d, EndsShorter
<1> HIDE DEF Wide
<1>b. ASSUME client'.wide = Wide(chan', server'.wide),
             web' = "start" => ~client'.running,
             ~client'.running => client'.fm, client'.running => client'.fm \/ client'.fmBefore
      PROVE  Switched'
  BY <1>b DEF Switched, Wide
<1>1. ASSUME NEW c \in Configs, LoadConfig(c) PROVE Switched'
  BY <1>0, <1>b, <1>1 DEF LoadConfig, Give
<1>2. ASSUME NEW on \in BOOLEAN, WidebandMode(on) PROVE Switched'
  <2>1. PICK c \in CommandSet : c.op = (IF on THEN "wide" ELSE "coherent") /\ chan' = chan \o <<c>>
    BY <1>2, WhatIsSent
  <2>2. client'.wide = on /\ server' = server
    BY <1>2 DEF WidebandMode, ToWide, ScanTypes, ClientSet
  <2>3. client'.wide = Wide(chan', server'.wide)
    BY <1>0, <1>a, <2>1, <2>2
  <2>4. /\ web' = "start" => ~client'.running
        /\ ~client'.running => client'.fm
        /\ client'.running => client'.fm \/ client'.fmBefore
    BY <1>0, <1>2 DEF WidebandMode, Give, ToWide, ScanTypes, ClientSet
  <2> QED  BY <2>3, <2>4, <1>b
<1>3. ASSUME NEW f \in Frequencies, SetFrequency(f) PROVE Switched'
  <2>1. PICK c \in CommandSet : c.op = "frequency" /\
                 \/ client.wide /\ \E d \in CommandSet : d.op = "coherent" /\ chan' = (chan \o <<d>>) \o <<c>>
                 \/ ~client.wide /\ chan' = chan \o <<c>>
    BY <1>3, WhatIsSent
  <2>2. client'.wide = FALSE /\ server' = server
    BY <1>3 DEF SetFrequency, ToWide, ScanTypes, ClientSet
  <2>3. client'.wide = Wide(chan', server'.wide)
    <3>1. CASE client.wide
      <4>1. PICK d \in CommandSet : d.op = "coherent" /\ chan' = (chan \o <<d>>) \o <<c>>
        BY <2>1, <3>1
      <4>2. Wide(chan \o <<d>>, server.wide) = FALSE /\ chan \o <<d>> \in Seq(CommandSet)
        BY <1>0, <1>a, <4>1, LongerBy
      <4>3. Wide(chan', server.wide) = FALSE
        BY <1>c, <2>1, <4>1, <4>2
      <4> QED  BY <2>2, <4>3
    <3>2. CASE ~client.wide
      BY <1>0, <1>a, <2>1, <2>2, <3>2
    <3> QED  BY <3>1, <3>2
  <2>4. /\ web' = "start" => ~client'.running
        /\ ~client'.running => client'.fm
        /\ client'.running => client'.fm \/ client'.fmBefore
    BY <1>0, <1>3 DEF SetFrequency, Give, ToWide, ScanTypes, ClientSet
  <2> QED  BY <2>3, <2>4, <1>b
<1>4. CASE StartScan
  <2>1. PICK c \in CommandSet : c.op = "configure" /\ chan' = chan \o <<c>>
    BY <1>4, WhatIsSent
  <2>2. client'.wide = client.wide /\ server' = server
    <3> DEFINE list == Centers(GroupsOf(Enabled(conf)))
    <3>1. client' = [client EXCEPT !.groups = list] /\ server' = server
      BY <1>4 DEF StartScan
    <3> HIDE DEF list
    <3> QED  BY <3>1 DEF ScanTypes, ClientSet
  <2>3. client'.wide = Wide(chan', server'.wide)
    BY <1>0, <1>a, <2>1, <2>2
  <2>4. client'.running = client.running /\ client'.fm = client.fm /\ client'.fmBefore = client.fmBefore
        /\ ~client.running
    <3> DEFINE list == Centers(GroupsOf(Enabled(conf)))
    <3>1. client' = [client EXCEPT !.groups = list] /\ ~client.running
      BY <1>4 DEF StartScan, MayStart
    <3> HIDE DEF list
    <3> QED  BY <3>1 DEF ScanTypes, ClientSet
  <2> QED  BY <1>0, <2>3, <2>4, <1>b
<1>5. CASE StartGoes
  <2>1. PICK c \in CommandSet : c.op = "start" /\ chan' = chan \o <<c>>
    BY <1>5, WhatIsSent
  <2>2. client'.wide = client.wide /\ server' = server
    BY <1>5 DEF StartGoes, ScanTypes, ClientSet
  <2>3. client'.wide = Wide(chan', server'.wide)
    BY <1>0, <1>a, <2>1, <2>2
  <2>4. /\ web' = "start" => ~client'.running
        /\ ~client'.running => client'.fm
        /\ client'.running => client'.fm \/ client'.fmBefore
    BY <1>0, <1>5 DEF StartGoes, ScanTypes, ClientSet
  <2> QED  BY <2>3, <2>4, <1>b
<1>6. CASE StopScan
  <2>1. PICK c \in CommandSet : c.op = "stop" /\ chan' = chan \o <<c>>
    BY <1>6, WhatIsSent
  <2>2. client'.wide = client.wide /\ server' = server
    BY <1>6 DEF StopScan, Stopped, ScanTypes, ClientSet
  <2>3. client'.wide = Wide(chan', server'.wide)
    BY <1>0, <1>a, <2>1, <2>2
  <2>4. /\ web' = "start" => ~client'.running
        /\ ~client'.running => client'.fm
        /\ client'.running => client'.fm \/ client'.fmBefore
    BY <1>0, <1>6 DEF StopScan, Give, Stopped, ScanTypes, ClientSet
  <2> QED  BY <2>3, <2>4, <1>b
<1>7. CASE SetDwell
  <2>1. PICK c \in CommandSet : c.op = "configure" /\ chan' = chan \o <<c>>
    BY <1>7, WhatIsSent
  <2>2. client'.wide = client.wide /\ server' = server
    BY <1>7 DEF SetDwell, ScanTypes, ClientSet
  <2>3. client'.wide = Wide(chan', server'.wide)
    BY <1>0, <1>a, <2>1, <2>2
  <2>4. /\ web' = "start" => ~client'.running
        /\ ~client'.running => client'.fm
        /\ client'.running => client'.fm \/ client'.fmBefore
    BY <1>0, <1>7 DEF SetDwell, Give, ScanTypes, ClientSet
  <2> QED  BY <2>3, <2>4, <1>b
<1>8. CASE NextSignal
  BY <1>0, <1>b, <1>8 DEF NextSignal, Give
<1>9. CASE Settle
  BY <1>9, <1>0, <1>b DEF Settle, ScanTypes, ClientSet
<1>10. CASE LoseSignal
  BY <1>0, <1>b, <1>10 DEF LoseSignal
<1>11. ASSUME NEW i \in DOMAIN conf, Detect(i) PROVE Switched'
  BY <1>0, <1>b, <1>11 DEF Detect
<1>12. CASE LockStop
  <2>1. client' = client /\ server' = server /\ web' = web
    BY <1>12 DEF LockStop
  <2>2. chan' = chan \/ \E c \in CommandSet : c.op = "stop" /\ chan' = chan \o <<c>>
    BY <1>12, WhatIsSent
  <2>3. client'.wide = Wide(chan', server'.wide)
    BY <1>0, <1>a, <2>1, <2>2
  <2> QED  BY <1>0, <1>b, <2>1, <2>3
<1>13. CASE LockCoherent
  <2>1. PICK c \in CommandSet : c.op = "coherent" /\ chan' = chan \o <<c>>
    BY <1>13, WhatIsSent
  <2>2. client'.wide = FALSE /\ server' = server
    BY <1>13 DEF LockCoherent, ScanTypes, ClientSet
  <2>3. client'.wide = Wide(chan', server'.wide)
    BY <1>0, <1>a, <2>1, <2>2
  <2>4. /\ web' = "start" => ~client'.running
        /\ ~client'.running => client'.fm
        /\ client'.running => client'.fm \/ client'.fmBefore
    BY <1>0, <1>13 DEF LockCoherent, ScanTypes, ClientSet
  <2> QED  BY <2>3, <2>4, <1>b
<1>14. CASE LockFrequency
  <2>1. PICK c \in CommandSet : c.op = "frequency" /\ chan' = chan \o <<c>>
    BY <1>14, WhatIsSent
  <2>2. client'.wide = client.wide /\ server' = server
    BY <1>14 DEF LockFrequency, ScanTypes, ClientSet
  <2>3. client'.wide = Wide(chan', server'.wide)
    BY <1>0, <1>a, <2>1, <2>2
  <2>4. /\ web' = "start" => ~client'.running
        /\ ~client'.running => client'.fm
        /\ client'.running => client'.fm \/ client'.fmBefore
    BY <1>0, <1>14 DEF LockFrequency, ScanTypes, ClientSet
  <2> QED  BY <2>3, <2>4, <1>b
<1>15. CASE LockDone
  BY <1>15, <1>0, <1>b DEF LockDone, ScanTypes, ClientSet
<1>16. CASE ResumeWide
  <2>1. server' = server /\ web' = web
    BY <1>16 DEF ResumeWide
  <2>2. CASE ~Resumable(client)
    BY <1>16, <2>2, <1>0, <1>b, <2>1 DEF ResumeWide
  <2>3. CASE Resumable(client)
    <3>1. client' = [client EXCEPT !.wide = TRUE] /\ worker'.pc = "configure"
      BY <1>16, <2>3 DEF ResumeWide, ScanTypes, WorkerSet
    <3>2. PICK c \in CommandSet : c.op = "wide" /\ chan' = chan \o <<c>>
      BY <1>16, <3>1, WhatIsSent, RestIs
    <3>3. client'.wide = TRUE /\ client'.running = client.running /\ client'.fm = client.fm
          /\ client'.fmBefore = client.fmBefore
      BY <3>1 DEF ScanTypes, ClientSet
    <3>4. client'.wide = Wide(chan', server'.wide)
      BY <1>0, <1>a, <2>1, <3>2, <3>3
    <3> QED  BY <1>0, <1>b, <2>1, <3>3, <3>4
  <2> QED  BY <2>2, <2>3
<1>17. CASE ResumeConfigure
  <2>1. PICK c \in CommandSet : c.op = "configure" /\ chan' = chan \o <<c>>
    BY <1>17, WhatIsSent
  <2>2. client'.wide = client.wide /\ server' = server
    BY <1>17 DEF ResumeConfigure, ScanTypes, ClientSet
  <2>3. client'.wide = Wide(chan', server'.wide)
    BY <1>0, <1>a, <2>1, <2>2
  <2>4. /\ web' = "start" => ~client'.running
        /\ ~client'.running => client'.fm
        /\ client'.running => client'.fm \/ client'.fmBefore
    BY <1>0, <1>17 DEF ResumeConfigure, ScanTypes, ClientSet
  <2> QED  BY <2>3, <2>4, <1>b
<1>18. CASE ResumeStart
  <2>1. PICK c \in CommandSet : c.op = "start" /\ chan' = chan \o <<c>>
    BY <1>18, WhatIsSent
  <2>2. client'.wide = client.wide /\ server' = server
    BY <1>18 DEF ResumeStart, ScanTypes, ClientSet
  <2>3. client'.wide = Wide(chan', server'.wide)
    BY <1>0, <1>a, <2>1, <2>2
  <2>4. /\ web' = "start" => ~client'.running
        /\ ~client'.running => client'.fm
        /\ client'.running => client'.fm \/ client'.fmBefore
    BY <1>0, <1>18, RestIs DEF ResumeStart, ScanTypes, ClientSet
  <2> QED  BY <2>3, <2>4, <1>b
<1>19. CASE Configure
  <2>1. Take("configure")
    BY <1>19 DEF Configure
  <2>2. chan # <<>> /\ chan' = Tail(chan) /\ chan[1].op = "configure"
    BY <2>1, Takes
  <2>3. server'.wide = server.wide
    BY <1>19 DEF Configure, ScanTypes, ServerSet
  <2>4. Wide(chan, server.wide) = Wide(chan', server'.wide)
    BY <2>2, <2>3, <1>d
  <2>5. client' = client /\ web' = web
    BY <1>19 DEF Configure, ServerRest
  <2> QED  BY <1>0, <1>b, <2>4, <2>5
<1>20. CASE StartCommand
  <2>1. Take("start")
    BY <1>20 DEF StartCommand
  <2>2. chan # <<>> /\ chan' = Tail(chan) /\ chan[1].op = "start"
    BY <2>1, Takes
  <2>3. server'.wide = server.wide
    BY <1>20 DEF StartCommand, ScanTypes, ServerSet
  <2>4. Wide(chan, server.wide) = Wide(chan', server'.wide)
    BY <2>2, <2>3, <1>d
  <2>5. client' = client /\ web' = web
    BY <1>20 DEF StartCommand, ServerRest
  <2> QED  BY <1>0, <1>b, <2>4, <2>5
<1>21. CASE StopCommand
  <2>1. Take("stop")
    BY <1>21 DEF StopCommand
  <2>2. chan # <<>> /\ chan' = Tail(chan) /\ chan[1].op = "stop"
    BY <2>1, Takes
  <2>3. server'.wide = server.wide
    BY <1>21 DEF StopCommand, ScanTypes, ServerSet
  <2>4. Wide(chan, server.wide) = Wide(chan', server'.wide)
    BY <2>2, <2>3, <1>d
  <2>5. client' = client /\ web' = web
    BY <1>21 DEF StopCommand, ServerRest
  <2> QED  BY <1>0, <1>b, <2>4, <2>5
<1>22. CASE WideCommand
  <2>1. Take("wide")
    BY <1>22 DEF WideCommand
  <2>2. chan # <<>> /\ chan' = Tail(chan) /\ chan[1].op = "wide"
    BY <2>1, Takes
  <2>3. server'.wide = TRUE
    BY <1>22 DEF WideCommand, ScanTypes, ServerSet
  <2>4. Wide(chan, server.wide) = Wide(chan', server'.wide)
    BY <2>2, <2>3, <1>d
  <2>5. client' = client /\ web' = web
    BY <1>22 DEF WideCommand, ServerRest
  <2> QED  BY <1>0, <1>b, <2>4, <2>5
<1>23. CASE SpreadTuners
  BY <1>23, <1>0, <1>b DEF SpreadTuners, ScanTypes, ServerSet, ServerRest, HopRest
<1>24. CASE CoherentCommand
  <2>1. Take("coherent")
    BY <1>24 DEF CoherentCommand
  <2>2. chan # <<>> /\ chan' = Tail(chan) /\ chan[1].op = "coherent"
    BY <2>1, Takes
  <2>3. server'.wide = FALSE
    BY <1>24 DEF CoherentCommand, ScanTypes, ServerSet
  <2>4. Wide(chan, server.wide) = Wide(chan', server'.wide)
    BY <2>2, <2>3, <1>d
  <2>5. client' = client /\ web' = web
    BY <1>24 DEF CoherentCommand, ServerRest
  <2> QED  BY <1>0, <1>b, <2>4, <2>5
<1>25. CASE CoherentDone
  BY <1>0, <1>b, <1>25 DEF CoherentDone, ServerRest
<1>26. CASE FrequencyCommand
  <2>1. Take("frequency")
    BY <1>26 DEF FrequencyCommand
  <2>2. chan # <<>> /\ chan' = Tail(chan) /\ chan[1].op = "frequency"
    BY <2>1, Takes
  <2>3. server'.wide = server.wide
    BY <1>26 DEF FrequencyCommand, ScanTypes, ServerSet
  <2>4. Wide(chan, server.wide) = Wide(chan', server'.wide)
    BY <2>2, <2>3, <1>d
  <2>5. client' = client /\ web' = web
    BY <1>26 DEF FrequencyCommand, ServerRest
  <2> QED  BY <1>0, <1>b, <2>4, <2>5
<1>27. CASE HopTop
  BY <1>0, <1>b, <1>27 DEF HopTop, HopRest
<1>28. CASE HopRead
  BY <1>0, <1>b, <1>28 DEF HopRead, HopRest
<1>29. CASE HopTune
  BY <1>29, <1>0, <1>b DEF HopTune, ScanTypes, ServerSet, ServerRest, HopRest
<1>30. CASE HopNext
  BY <1>30, <1>0, <1>b DEF HopNext, ScanTypes, ServerSet, ServerRest, HopRest
<1>31. CASE UNCHANGED scanVars
  BY <1>0, <1>b, <1>31 DEF scanVars
<1> QED
  BY <1>1, <1>2, <1>3, <1>4, <1>5, <1>6, <1>7, <1>8, <1>9, <1>10, <1>11, <1>12, <1>13, <1>14, <1>15,
     <1>16, <1>17, <1>18, <1>19, <1>20, <1>21, <1>22, <1>23, <1>24, <1>25, <1>26, <1>27, <1>28, <1>29,
        <1>30, <1>31 DEF ScanNext

LEMMA ToWideIs ==
    ASSUME NEW cl \in ClientSet, NEW on \in BOOLEAN
    PROVE  /\ ToWide(cl, on).wide = on /\ (on => ToWide(cl, on).doa = FALSE)
           /\ ToWide(cl, on).running = cl.running /\ ToWide(cl, on).state = cl.state
  BY DEF ToWide, ClientSet

LEMMA InStepKept ==
    ASSUME ScanTypes, Lists, Fed, Switched, ~crossed => InStep, [ScanNext]_scanVars
    PROVE  ~crossed' => InStep'
<1> DEFINE On(ch, now) == Ends(ch, "start", "stop", now)
           goes == OnTheMove /\ ~Turning
           Places ==
               /\ client.running <=> client.state # "idle"
               /\ worker.pc \in {"lock", "coherent", "frequency", "locked"} => OnTheMove
               /\ worker.pc \in {"resume", "configure", "start"} => OnSignal
               /\ web = "start" => worker.pc = "idle" /\ client.wide
               /\ OnTheMove /\ worker.pc \notin {"frequency", "locked"} => client.wide
               /\ worker.pc \in {"configure", "start"} => client.wide
               /\ client.running \/ client.wide => ~client.doa
<1>0. chan \in Seq(CommandSet) /\ goes \in BOOLEAN
      /\ (~crossed => Places /\ On(chan, server.enabled) = goes) /\ (web = "start" => ~client.running)
  BY DEF InStep, Switched, ScanTypes, OnTheMove, Turning
<1>a. ASSUME NEW c \in CommandSet
      PROVE  On(chan \o <<c>>, server.enabled) =
                IF c.op \in {"start", "stop"} THEN c.op = "start" ELSE On(chan, server.enabled)
  BY <1>0, EndsLonger
<1>c. ASSUME NEW ch \in Seq(CommandSet), NEW c \in CommandSet, c.op = "frequency"
      PROVE  On(ch \o <<c>>, server.enabled) = On(ch, server.enabled)
  BY <1>c, EndsLonger
<1>d. ASSUME chan # <<>>
      PROVE  On(chan, server.enabled) =
                On(Tail(chan), IF chan[1].op \in {"start", "stop"} THEN chan[1].op = "start" ELSE server.enabled)
  BY <1>0, <1>d, EndsShorter
<1> HIDE DEF On
<1>b. ASSUME ~crossed' => Places' /\ On(chan', server'.enabled) = goes'
      PROVE  ~crossed' => InStep'
  BY <1>b DEF InStep, On, OnTheMove, Turning
<1> HIDE DEF goes, Places
<1>1. ASSUME NEW c \in Configs, LoadConfig(c) PROVE (~crossed' => InStep')
  BY <1>0, <1>1, <1>b DEF LoadConfig, Give, goes, Places, OnTheMove, OnSignal, Turning, ScanTypes,
     ClientSet, WorkerSet
<1>2. ASSUME NEW on \in BOOLEAN, WidebandMode(on) PROVE (~crossed' => InStep')
  <2>1. PICK c \in CommandSet : c.op = (IF on THEN "wide" ELSE "coherent") /\ chan' = chan \o <<c>>
    BY <1>2, WhatIsSent
  <2>2. ~crossed' => ~crossed /\ Places' /\ goes' = goes
    BY <1>2, ToWideIs, <1>0 DEF WidebandMode, ScanTypes, Give, WebIdle, Busy, goes, Places,
       OnTheMove, OnSignal, Turning
  <2>3. server' = server
    BY <1>2 DEF WidebandMode
  <2> QED  BY <1>0, <1>a, <1>b, <2>1, <2>2, <2>3
<1>3. ASSUME NEW f \in Frequencies, SetFrequency(f) PROVE (~crossed' => InStep')
  <2>1. PICK c \in CommandSet : c.op = "frequency" /\
                 \/ client.wide /\ \E d \in CommandSet : d.op = "coherent" /\ chan' = (chan \o <<d>>) \o <<c>>
                 \/ ~client.wide /\ chan' = chan \o <<c>>
    BY <1>3, WhatIsSent
  <2>2. ~crossed' => ~crossed /\ Places' /\ goes' = goes
    BY <1>3, ToWideIs, <1>0 DEF SetFrequency, ScanTypes, Give, WebIdle, Busy, goes, Places,
       OnTheMove, OnSignal, Turning
  <2>3. server' = server
    BY <1>3 DEF SetFrequency
  <2>4. On(chan', server.enabled) = On(chan, server.enabled)
    <3>1. CASE client.wide
      <4>1. PICK d \in CommandSet : d.op = "coherent" /\ chan' = (chan \o <<d>>) \o <<c>>
        BY <2>1, <3>1
      <4>2. On(chan \o <<d>>, server.enabled) = On(chan, server.enabled) /\ chan \o <<d>> \in Seq(CommandSet)
        BY <1>0, <1>a, <4>1, LongerBy
      <4> QED  BY <1>c, <2>1, <4>1, <4>2
    <3>2. CASE ~client.wide
      BY <1>0, <1>c, <2>1, <3>2
    <3> QED  BY <3>1, <3>2
  <2> QED  BY <1>0, <1>b, <2>2, <2>3, <2>4
<1>4. CASE StartScan
  <2>1. PICK c \in CommandSet : c.op = "configure" /\ chan' = chan \o <<c>>
    BY <1>4, WhatIsSent
  <2>2. ~crossed' => ~crossed /\ Places' /\ goes' = goes
    <3> DEFINE list == Centers(GroupsOf(Enabled(conf)))
    <3>1. client' = [client EXCEPT !.groups = list] /\ ~client.running /\ client.wide /\ worker' = worker
          /\ (~crossed' => ~crossed /\ worker.pc = "idle")
      BY <1>4 DEF StartScan, MayStart, Give, Busy, ScanTypes
    <3> HIDE DEF list
    <3> QED  BY <1>0, <3>1 DEF goes, Places, OnTheMove, OnSignal, Turning, ScanTypes, ClientSet,
       WorkerSet
  <2>3. server' = server
    BY <1>4 DEF StartScan
  <2> QED  BY <1>0, <1>a, <1>b, <2>1, <2>2, <2>3
<1>5. CASE StartGoes
  <2>1. PICK c \in CommandSet : c.op = "start" /\ chan' = chan \o <<c>>
    BY <1>5, WhatIsSent
  <2>2. ~crossed' => ~crossed /\ Places' /\ goes' = TRUE
    BY <1>0, <1>5 DEF StartGoes, goes, Places, OnTheMove, OnSignal, Turning, ScanTypes, ClientSet,
       WorkerSet
  <2>3. server' = server
    BY <1>5 DEF StartGoes
  <2> QED  BY <1>0, <1>a, <1>b, <2>1, <2>2, <2>3
<1>6. CASE StopScan
  <2>1. PICK c \in CommandSet : c.op = "stop" /\ chan' = chan \o <<c>>
    BY <1>6, WhatIsSent
  <2>2. ~crossed' => ~crossed /\ Places' /\ goes' = FALSE
    BY <1>0, <1>6 DEF StopScan, Give, Busy, Stopped, goes, Places, OnTheMove, OnSignal, Turning,
       ScanTypes, ClientSet, WorkerSet
  <2>3. server' = server
    BY <1>6 DEF StopScan
  <2> QED  BY <1>0, <1>a, <1>b, <2>1, <2>2, <2>3
<1>7. CASE SetDwell
  <2>1. PICK c \in CommandSet : c.op = "configure" /\ chan' = chan \o <<c>>
    BY <1>7, WhatIsSent
  <2>2. ~crossed' => ~crossed /\ Places' /\ goes' = goes
    BY <1>0, <1>7 DEF SetDwell, Give, Busy, goes, Places, OnTheMove, OnSignal, Turning, ScanTypes,
       ClientSet, WorkerSet
  <2>3. server' = server
    BY <1>7 DEF SetDwell
  <2> QED  BY <1>0, <1>a, <1>b, <2>1, <2>2, <2>3
<1>8. CASE NextSignal
  BY <1>0, <1>8, <1>b DEF NextSignal, Give, MayAct, Looks, Busy, goes, Places, OnTheMove, OnSignal,
     Turning, ScanTypes, ClientSet, WorkerSet
<1>9. CASE Settle
  BY <1>0, <1>9, <1>b DEF Settle, goes, Places, OnTheMove, OnSignal, Turning, ScanTypes, ClientSet,
     WorkerSet
<1>10. CASE LoseSignal
  BY <1>0, <1>10, <1>b DEF LoseSignal, MayAct, Looks, Busy, goes, Places, OnTheMove, OnSignal,
     Turning, ScanTypes, ClientSet, WorkerSet
<1>11. ASSUME NEW i \in DOMAIN conf, Detect(i) PROVE (~crossed' => InStep')
  BY <1>0, <1>11, <1>b DEF Detect, MayAct, Looks, Busy, goes, Places, OnTheMove, OnSignal, Turning,
     ScanTypes, ClientSet, WorkerSet
<1>12. CASE LockStop
  <2>1. client' = client /\ server' = server /\ web' = web /\ crossed' = crossed /\ worker.pc = "lock"
    BY <1>12 DEF LockStop
  <2>2. CASE worker' = Rest /\ chan' = chan
    BY <1>0, <2>1, <2>2, RestIs, <1>b DEF goes, Places, OnTheMove, OnSignal, Turning, ScanTypes,
       ClientSet, WorkerSet
  <2>3. CASE worker'.pc = "coherent" /\ \E c \in CommandSet : c.op = "stop" /\ chan' = chan \o <<c>>
    BY <1>0, <2>1, <2>3, <1>a, <1>b DEF goes, Places, OnTheMove, OnSignal, Turning, ScanTypes,
       ClientSet, WorkerSet
  <2> QED  BY <1>12, <2>2, <2>3, WhatIsSent
<1>13. CASE LockCoherent
  <2>1. PICK c \in CommandSet : c.op = "coherent" /\ chan' = chan \o <<c>>
    BY <1>13, WhatIsSent
  <2>2. ~crossed' => ~crossed /\ Places' /\ goes' = goes
    BY <1>0, <1>13 DEF LockCoherent, goes, Places, OnTheMove, OnSignal, Turning, ScanTypes, ClientSet,
       WorkerSet
  <2>3. server' = server
    BY <1>13 DEF LockCoherent
  <2> QED  BY <1>0, <1>a, <1>b, <2>1, <2>2, <2>3
<1>14. CASE LockFrequency
  <2>1. PICK c \in CommandSet : c.op = "frequency" /\ chan' = chan \o <<c>>
    BY <1>14, WhatIsSent
  <2>2. ~crossed' => ~crossed /\ Places' /\ goes' = goes
    BY <1>0, <1>14 DEF LockFrequency, goes, Places, OnTheMove, OnSignal, Turning, ScanTypes, ClientSet,
       WorkerSet
  <2>3. server' = server
    BY <1>14 DEF LockFrequency
  <2> QED  BY <1>0, <1>a, <1>b, <2>1, <2>2, <2>3
<1>15. CASE LockDone
  BY <1>0, <1>15, RestIs, <1>b DEF LockDone, goes, Places, OnTheMove, OnSignal, Turning, ScanTypes,
     ClientSet, WorkerSet
<1>16. CASE ResumeWide
  <2>1. server' = server /\ web' = web /\ crossed' = crossed /\ worker.pc = "resume"
    BY <1>16 DEF ResumeWide
  <2>2. CASE ~Resumable(client)
    BY <1>16, <2>2, <1>0, <2>1, RestIs, <1>b DEF ResumeWide, goes, Places, OnTheMove, OnSignal,
       Turning, ScanTypes, ClientSet, WorkerSet
  <2>3. CASE Resumable(client)
    <3>1. client' = [client EXCEPT !.wide = TRUE] /\ worker'.pc = "configure"
      BY <1>16, <2>3 DEF ResumeWide, ScanTypes, WorkerSet
    <3>2. PICK c \in CommandSet : c.op = "wide" /\ chan' = chan \o <<c>>
      BY <1>16, <3>1, WhatIsSent, RestIs
    <3>3. ~crossed' => Places' /\ goes' = goes
      BY <1>0, <2>1, <3>1 DEF goes, Places, OnTheMove, OnSignal, Turning, ScanTypes, ClientSet,
         WorkerSet
    <3> QED  BY <1>0, <1>a, <1>b, <2>1, <3>2, <3>3
  <2> QED  BY <2>2, <2>3
<1>17. CASE ResumeConfigure
  <2>1. PICK c \in CommandSet : c.op = "configure" /\ chan' = chan \o <<c>>
    BY <1>17, WhatIsSent
  <2>2. ~crossed' => ~crossed /\ Places' /\ goes' = goes
    BY <1>0, <1>17 DEF ResumeConfigure, goes, Places, OnTheMove, OnSignal, Turning, ScanTypes,
       ClientSet, WorkerSet
  <2>3. server' = server
    BY <1>17 DEF ResumeConfigure
  <2> QED  BY <1>0, <1>a, <1>b, <2>1, <2>2, <2>3
<1>18. CASE ResumeStart
  <2>1. PICK c \in CommandSet : c.op = "start" /\ chan' = chan \o <<c>>
    BY <1>18, WhatIsSent
  <2>2. ~crossed' => ~crossed /\ Places' /\ goes' = TRUE
    BY <1>0, <1>18, RestIs DEF ResumeStart, goes, Places, OnTheMove, OnSignal, Turning, ScanTypes,
       ClientSet, WorkerSet
  <2>3. server' = server
    BY <1>18 DEF ResumeStart
  <2> QED  BY <1>0, <1>a, <1>b, <2>1, <2>2, <2>3
<1>19. CASE Configure
  <2>1. Take("configure")
    BY <1>19 DEF Configure
  <2>2. chan # <<>> /\ chan' = Tail(chan) /\ chan[1].op = "configure"
    BY <2>1, Takes
  <2>3. server'.enabled = server.enabled
    BY <1>19 DEF Configure, ScanTypes, ServerSet
  <2>4. On(chan, server.enabled) = On(chan', server'.enabled)
    BY <2>2, <2>3, <1>d
  <2>5. client' = client /\ web' = web /\ worker' = worker /\ crossed' = crossed
    BY <1>19 DEF Configure, ServerRest
  <2>6. Places' = Places /\ goes' = goes
    BY <2>5 DEF goes, Places, OnTheMove, OnSignal, Turning
  <2> QED  BY <1>0, <1>b, <2>4, <2>5, <2>6
<1>20. CASE StartCommand
  <2>1. Take("start")
    BY <1>20 DEF StartCommand
  <2>2. chan # <<>> /\ chan' = Tail(chan) /\ chan[1].op = "start"
    BY <2>1, Takes
  <2>3. server'.enabled = TRUE
    BY <2>2, PrecededShorter, <1>20 DEF ScanTypes, Fed, StartCommand, ServerSet
  <2>4. On(chan, server.enabled) = On(chan', server'.enabled)
    BY <2>2, <2>3, <1>d
  <2>5. client' = client /\ web' = web /\ worker' = worker /\ crossed' = crossed
    BY <1>20 DEF StartCommand, ServerRest
  <2>6. Places' = Places /\ goes' = goes
    BY <2>5 DEF goes, Places, OnTheMove, OnSignal, Turning
  <2> QED  BY <1>0, <1>b, <2>4, <2>5, <2>6
<1>21. CASE StopCommand
  <2>1. Take("stop")
    BY <1>21 DEF StopCommand
  <2>2. chan # <<>> /\ chan' = Tail(chan) /\ chan[1].op = "stop"
    BY <2>1, Takes
  <2>3. server'.enabled = FALSE
    BY <1>21 DEF StopCommand, ScanTypes, ServerSet
  <2>4. On(chan, server.enabled) = On(chan', server'.enabled)
    BY <2>2, <2>3, <1>d
  <2>5. client' = client /\ web' = web /\ worker' = worker /\ crossed' = crossed
    BY <1>21 DEF StopCommand, ServerRest
  <2>6. Places' = Places /\ goes' = goes
    BY <2>5 DEF goes, Places, OnTheMove, OnSignal, Turning
  <2> QED  BY <1>0, <1>b, <2>4, <2>5, <2>6
<1>22. CASE WideCommand
  <2>1. Take("wide")
    BY <1>22 DEF WideCommand
  <2>2. chan # <<>> /\ chan' = Tail(chan) /\ chan[1].op = "wide"
    BY <2>1, Takes
  <2>3. server'.enabled = server.enabled
    BY <1>22 DEF WideCommand, ScanTypes, ServerSet
  <2>4. On(chan, server.enabled) = On(chan', server'.enabled)
    BY <2>2, <2>3, <1>d
  <2>5. client' = client /\ web' = web /\ worker' = worker /\ crossed' = crossed
    BY <1>22 DEF WideCommand, ServerRest
  <2>6. Places' = Places /\ goes' = goes
    BY <2>5 DEF goes, Places, OnTheMove, OnSignal, Turning
  <2> QED  BY <1>0, <1>b, <2>4, <2>5, <2>6
<1>23. CASE SpreadTuners
  BY <1>23, <1>0, <1>b DEF SpreadTuners, ScanTypes, ServerSet, ServerRest, HopRest, goes, Places,
     OnTheMove, OnSignal, Turning
<1>24. CASE CoherentCommand
  <2>1. Take("coherent")
    BY <1>24 DEF CoherentCommand
  <2>2. chan # <<>> /\ chan' = Tail(chan) /\ chan[1].op = "coherent"
    BY <2>1, Takes
  <2>3. server'.enabled = server.enabled
    BY <1>24 DEF CoherentCommand, ScanTypes, ServerSet
  <2>4. On(chan, server.enabled) = On(chan', server'.enabled)
    BY <2>2, <2>3, <1>d
  <2>5. client' = client /\ web' = web /\ worker' = worker /\ crossed' = crossed
    BY <1>24 DEF CoherentCommand, ServerRest
  <2>6. Places' = Places /\ goes' = goes
    BY <2>5 DEF goes, Places, OnTheMove, OnSignal, Turning
  <2> QED  BY <1>0, <1>b, <2>4, <2>5, <2>6
<1>25. CASE CoherentDone
  BY <1>0, <1>25, <1>b DEF CoherentDone, ServerRest, goes, Places, OnTheMove, OnSignal, Turning,
     ScanTypes, ClientSet, WorkerSet
<1>26. CASE FrequencyCommand
  <2>1. Take("frequency")
    BY <1>26 DEF FrequencyCommand
  <2>2. chan # <<>> /\ chan' = Tail(chan) /\ chan[1].op = "frequency"
    BY <2>1, Takes
  <2>3. server'.enabled = server.enabled
    BY <1>26 DEF FrequencyCommand, ScanTypes, ServerSet
  <2>4. On(chan, server.enabled) = On(chan', server'.enabled)
    BY <2>2, <2>3, <1>d
  <2>5. client' = client /\ web' = web /\ worker' = worker /\ crossed' = crossed
    BY <1>26 DEF FrequencyCommand, ServerRest
  <2>6. Places' = Places /\ goes' = goes
    BY <2>5 DEF goes, Places, OnTheMove, OnSignal, Turning
  <2> QED  BY <1>0, <1>b, <2>4, <2>5, <2>6
<1>27. CASE HopTop
  BY <1>0, <1>27, <1>b DEF HopTop, HopRest, goes, Places, OnTheMove, OnSignal, Turning, ScanTypes,
     ClientSet, WorkerSet
<1>28. CASE HopRead
  BY <1>0, <1>28, <1>b DEF HopRead, HopRest, goes, Places, OnTheMove, OnSignal, Turning, ScanTypes,
     ClientSet, WorkerSet
<1>29. CASE HopTune
  BY <1>29, <1>0, <1>b DEF HopTune, ScanTypes, ServerSet, ServerRest, HopRest, goes, Places,
     OnTheMove, OnSignal, Turning
<1>30. CASE HopNext
  BY <1>30, <1>0, <1>b DEF HopNext, ScanTypes, ServerSet, ServerRest, HopRest, goes, Places,
     OnTheMove, OnSignal, Turning
<1>31. CASE UNCHANGED scanVars
  BY <1>0, <1>31, <1>b DEF scanVars, goes, Places, OnTheMove, OnSignal, Turning, ScanTypes,
     ClientSet, WorkerSet
<1> QED
  BY <1>1, <1>2, <1>3, <1>4, <1>5, <1>6, <1>7, <1>8, <1>9, <1>10, <1>11, <1>12, <1>13, <1>14, <1>15,
     <1>16, <1>17, <1>18, <1>19, <1>20, <1>21, <1>22, <1>23, <1>24, <1>25, <1>26, <1>27, <1>28, <1>29,
        <1>30, <1>31 DEF ScanNext

\* A configuration behind the others moves no tuner.
LEMMA ConfigureBehind ==
    ASSUME NEW ch \in Seq(CommandSet), NEW c \in CommandSet, c.op = "configure", NEW sv, NEW pc, NEW f
    PROVE  /\ ComesReady(ch, sv, pc) => ComesReady(ch \o <<c>>, sv, pc)
           /\ ComesTo(ch, sv, pc, f) => ComesTo(ch \o <<c>>, sv, pc, f)
<1> DEFINE q == ch \o <<c>>
           n == Len(ch)
<1>1. /\ DOMAIN q = 1 .. n + 1 /\ DOMAIN ch = 1 .. n /\ q[n + 1] = c /\ Len(q) = n + 1
      /\ \A i \in 1 .. n : q[i] = ch[i]
      /\ n \in Nat
  BY LongerBy
<1> HIDE DEF q, n
<1>2. \A i \in 1 .. n + 1 : i \in 1 .. n \/ i = n + 1
  BY <1>1
<1>3. Halts(ch, sv.enabled, pc) => Halts(q, sv.enabled, pc)
  BY <1>1, <1>2 DEF Halts
<1>4. HasFrequency(q) <=> HasFrequency(ch)
  BY <1>1, <1>2 DEF HasFrequency
<1>5. ASSUME NEW i \in 1 .. n + 1, Narrows(ch, sv.wide, i) PROVE Narrows(q, sv.wide, i)
  BY <1>1, <1>5 DEF Narrows
<1>6. ComesReady(ch, sv, pc) => ComesReady(q, sv, pc)
  <2>1. Narrows(ch, sv.wide, n + 1) => Narrows(q, sv.wide, n + 1 + 1)
    BY <1>1, <1>5 DEF Narrows
  <2> QED  BY <1>1, <1>3, <1>4, <2>1 DEF ComesReady, n
<1>7. ASSUME ComesTo(ch, sv, pc, f) PROVE ComesTo(q, sv, pc, f)
  <2>1. ASSUME NEW i \in 1 .. n + 1, q[i].op = "frequency"
        PROVE  /\ q[i].f = f /\ Narrows(q, sv.wide, i)
               /\ \A j \in 1 .. n + 1 : j > i => q[j].op # "coherent"
    BY <1>1, <1>2, <2>1, <1>7, <1>5 DEF ComesTo
  <2>2. ~HasFrequency(q) => \A i \in 1 .. n + 1 : q[i].op # "coherent"
    BY <1>1, <1>2, <1>4, <1>7 DEF ComesTo
  <2> QED  BY <1>1, <1>3, <1>4, <1>7, <2>1, <2>2 DEF ComesTo
<1> QED  BY <1>6, <1>7 DEF q

\* The return to coherent mode is all that is under way, once heimdall has stopped.
LEMMA CoherentAlone ==
    ASSUME NEW c \in CommandSet, c.op = "coherent", NEW sv, ~sv.enabled, NEW pc \in {"top", "dwell"}
    PROVE  ComesReady(<<>> \o <<c>>, sv, pc)
<1> DEFINE q == <<>> \o <<c>>
<1>1. q = <<c>> /\ Len(q) = 1 /\ DOMAIN q = {1} /\ q[1] = c
  OBVIOUS
<1> HIDE DEF q
<1>2. Halts(q, sv.enabled, pc) /\ ~HasFrequency(q)
  BY <1>1 DEF Halts, HasFrequency
<1>3. Narrows(q, sv.wide, Len(q) + 1)
  BY <1>1 DEF Narrows
<1> QED  BY <1>2, <1>3 DEF ComesReady, q

\* The frequency of the lock behind it.
LEMMA FrequencyBehind ==
    ASSUME NEW ch \in Seq(CommandSet), NEW c \in CommandSet, c.op = "frequency", NEW sv, NEW pc,
           ComesReady(ch, sv, pc)
    PROVE  ComesTo(ch \o <<c>>, sv, pc, c.f)
<1> DEFINE q == ch \o <<c>>
           n == Len(ch)
<1>1. /\ DOMAIN q = 1 .. n + 1 /\ DOMAIN ch = 1 .. n /\ q[n + 1] = c
      /\ \A i \in 1 .. n : q[i] = ch[i]
      /\ n \in Nat
  BY LongerBy
<1>2. Halts(ch, sv.enabled, pc) /\ ~HasFrequency(ch) /\ Narrows(ch, sv.wide, n + 1)
  BY DEF ComesReady
<1> HIDE DEF q, n
<1>3. (\A i \in 1 .. n + 1 : i \in 1 .. n \/ i = n + 1) /\ (\A i \in 1 .. n + 1 : ~(i > n + 1))
      /\ n + 1 \in 1 .. n + 1 /\ 1 .. n + 1 - 1 = 1 .. n
  BY <1>1
<1>4. Halts(q, sv.enabled, pc) /\ HasFrequency(q)
  BY <1>1, <1>2, <1>3 DEF Halts, HasFrequency
<1>5. Narrows(q, sv.wide, n + 1)
  BY <1>1, <1>2, <1>3 DEF Narrows
<1>6. ASSUME NEW i \in 1 .. n + 1, q[i].op = "frequency" PROVE i = n + 1
  BY <1>1, <1>2, <1>3, <1>6 DEF HasFrequency
<1>7. ASSUME NEW i \in 1 .. n + 1, q[i].op = "frequency"
      PROVE  /\ q[i].f = c.f /\ Narrows(q, sv.wide, i)
             /\ \A j \in 1 .. n + 1 : j > i => q[j].op # "coherent"
  BY <1>1, <1>3, <1>5, <1>6, <1>7
<1> QED  BY <1>1, <1>4, <1>7 DEF ComesTo, q

\* What heimdall does at a command of a lock.
DoesAs(c, sv, tv) ==
    /\ tv.enabled = sv.enabled
    /\ c.op = "configure" => tv.wide = sv.wide /\ tv.hw = sv.hw
    /\ c.op = "coherent" => ~tv.wide
    /\ c.op = "frequency" => tv.wide = sv.wide /\ (~sv.wide => tv.hw = Tuning(FALSE, c.f))

LEMMA Obeyed ==
    ASSUME NEW ch \in Seq(CommandSet), ch # <<>>, NEW sv, NEW tv, DoesAs(ch[1], sv, tv), NEW pc, NEW f
    PROVE  /\ ComesReady(ch, sv, pc) => ComesReady(Tail(ch), tv, pc)
           /\ ComesTo(ch, sv, pc, f) => ComesTo(Tail(ch), tv, pc, f)
<1> DEFINE q == Tail(ch)
           n == Len(ch)
<1>1. /\ DOMAIN q = 1 .. n - 1 /\ DOMAIN ch = 1 .. n /\ Len(q) = n - 1
      /\ \A i \in 1 .. n - 1 : q[i] = ch[i + 1]
      /\ n \in Nat /\ n >= 1
  BY WithoutHead
<1> HIDE DEF q, n
<1>2. 1 \in 1 .. n /\ \A i \in 1 .. n - 1 : i + 1 \in 1 .. n
  BY <1>1
<1>3. \A i \in 1 .. n : i = 1 \/ (i - 1 \in 1 .. n - 1 /\ q[i - 1] = ch[i])
  <2>1. ASSUME NEW i \in 1 .. n, i # 1 PROVE i - 1 \in 1 .. n - 1 /\ (i - 1) + 1 = i
    BY <1>1, <2>1
  <2> QED  BY <1>1, <2>1
<1>4. Halts(ch, sv.enabled, pc) => Halts(q, tv.enabled, pc) /\ ch[1].op \in {"coherent", "frequency", "configure"}
  BY <1>1, <1>2 DEF Halts, DoesAs
<1>5. HasFrequency(q) => HasFrequency(ch)
  BY <1>1, <1>2 DEF HasFrequency
<1>6. ASSUME NEW i \in 1 .. n, Narrows(ch, sv.wide, i + 1), ch[1].op \in {"coherent", "frequency", "configure"}
      PROVE  Narrows(q, tv.wide, i)
  <2>1. CASE ~tv.wide
    BY <2>1 DEF Narrows
  <2>2. CASE tv.wide
    <3>1. ch[1].op # "coherent" /\ sv.wide
      BY <1>6, <2>2 DEF DoesAs
    <3>2. PICK j \in 1 .. i + 1 - 1 : ch[j].op = "coherent"
      BY <1>6, <3>1 DEF Narrows
    <3>3. j \in 1 .. n /\ j # 1
      BY <1>1, <3>1, <3>2
    <3>4. j - 1 \in 1 .. i - 1
      BY <1>1, <3>2, <3>3
    <3> QED  BY <1>3, <3>2, <3>3, <3>4 DEF Narrows
  <2> QED  BY <2>1, <2>2
<1>7. ComesReady(ch, sv, pc) => ComesReady(q, tv, pc)
  BY <1>1, <1>4, <1>5, <1>6 DEF ComesReady, n
<1>8. ASSUME ComesTo(ch, sv, pc, f) PROVE ComesTo(q, tv, pc, f)
  <2>1. ASSUME NEW i \in 1 .. n, ch[i].op = "frequency"
        PROVE  /\ ch[i].f = f /\ Narrows(ch, sv.wide, i)
               /\ \A j \in 1 .. n : j > i => ch[j].op # "coherent"
    BY <1>1, <1>8, <2>1 DEF ComesTo
  <2>2. ch[1].op \in {"coherent", "frequency", "configure"} /\ Halts(q, tv.enabled, pc)
    BY <1>4, <1>8 DEF ComesTo
  <2>3. ASSUME NEW i \in 1 .. n - 1, q[i].op = "frequency"
        PROVE  /\ q[i].f = f /\ Narrows(q, tv.wide, i)
               /\ \A j \in 1 .. n - 1 : j > i => q[j].op # "coherent"
    <3>1. i + 1 \in 1 .. n /\ i \in 1 .. n /\ q[i] = ch[i + 1]
      BY <1>1, <1>2
    <3>2. /\ q[i].f = f /\ Narrows(ch, sv.wide, i + 1)
          /\ \A j \in 1 .. n : j > i + 1 => ch[j].op # "coherent"
      BY <2>1, <2>3, <3>1
    <3>3. ASSUME NEW j \in 1 .. n - 1, j > i PROVE q[j].op # "coherent"
      BY <1>1, <1>2, <3>3, <3>2
    <3> QED  BY <1>6, <2>2, <3>1, <3>2, <3>3
  <2>4. ASSUME ~HasFrequency(q)
        PROVE  tv.hw = Tuning(FALSE, f) /\ ~tv.wide /\ \A i \in 1 .. n - 1 : q[i].op # "coherent"
    <3>1. CASE HasFrequency(ch)
      <4>1. PICK i \in 1 .. n : ch[i].op = "frequency"
        BY <1>1, <3>1 DEF HasFrequency
      <4>2. i = 1
        BY <1>1, <1>3, <2>4, <4>1 DEF HasFrequency
      <4>3. /\ ch[1].f = f /\ Narrows(ch, sv.wide, 1)
            /\ \A j \in 1 .. n : j > 1 => ch[j].op # "coherent"
        BY <2>1, <4>1, <4>2
      <4>4. ~sv.wide
        BY <4>3 DEF Narrows
      <4>5. tv.hw = Tuning(FALSE, f) /\ ~tv.wide
        BY <4>1, <4>2, <4>3, <4>4 DEF DoesAs
      <4>6. ASSUME NEW j \in 1 .. n - 1 PROVE q[j].op # "coherent"
        BY <1>1, <1>2, <4>3
      <4> QED  BY <4>5, <4>6
    <3>2. CASE ~HasFrequency(ch)
      BY <1>1, <1>8, <3>2, <1>2, <2>2 DEF ComesTo, HasFrequency, DoesAs
    <3> QED  BY <3>1, <3>2
  <2> QED  BY <1>1, <2>2, <2>3, <2>4 DEF ComesTo
<1> QED  BY <1>7, <1>8 DEF q

\* A run of commands that came across a scan or transition stays one.
LEMMA CrossedStays ==
    ASSUME crossed, [ScanNext]_scanVars
    PROVE  crossed'
<1>1. ASSUME NEW c \in Configs, LoadConfig(c) PROVE crossed'
  BY <1>1 DEF LoadConfig, Give
<1>2. ASSUME NEW on \in BOOLEAN, WidebandMode(on) PROVE crossed'
  BY <1>2 DEF WidebandMode, Give, ToWide
<1>3. ASSUME NEW f \in Frequencies, SetFrequency(f) PROVE crossed'
  BY <1>3 DEF SetFrequency, Give, ToWide
<1>4. CASE StartScan
  BY <1>4 DEF StartScan, Give, MayStart
<1>5. CASE StartGoes
  BY <1>5 DEF StartGoes
<1>6. CASE StopScan
  BY <1>6 DEF StopScan, Give, Stopped
<1>7. CASE SetDwell
  BY <1>7 DEF SetDwell, Give
<1>8. CASE NextSignal
  BY <1>8 DEF NextSignal, Give
<1>9. CASE Settle
  BY <1>9 DEF Settle
<1>10. CASE LoseSignal
  BY <1>10 DEF LoseSignal
<1>11. ASSUME NEW i \in DOMAIN conf, Detect(i) PROVE crossed'
  BY <1>11 DEF Detect
<1>12. CASE LockStop
  BY <1>12 DEF LockStop
<1>13. CASE LockCoherent
  BY <1>13 DEF LockCoherent
<1>14. CASE LockFrequency
  BY <1>14 DEF LockFrequency
<1>15. CASE LockDone
  BY <1>15 DEF LockDone
<1>16. CASE ResumeWide
  BY <1>16 DEF ResumeWide, Resumable
<1>17. CASE ResumeConfigure
  BY <1>17 DEF ResumeConfigure
<1>18. CASE ResumeStart
  BY <1>18 DEF ResumeStart
<1>19. CASE Configure
  BY <1>19 DEF Configure, Take, ServerRest
<1>20. CASE StartCommand
  BY <1>20 DEF StartCommand, Take, ServerRest
<1>21. CASE StopCommand
  BY <1>21 DEF StopCommand, Take, ServerRest
<1>22. CASE WideCommand
  BY <1>22 DEF WideCommand, Take, ServerRest
<1>23. CASE SpreadTuners
  BY <1>23 DEF SpreadTuners, ServerRest
<1>24. CASE CoherentCommand
  BY <1>24 DEF CoherentCommand, Take, ServerRest
<1>25. CASE CoherentDone
  BY <1>25 DEF CoherentDone, ServerRest
<1>26. CASE FrequencyCommand
  BY <1>26 DEF FrequencyCommand, Take, ServerRest
<1>27. CASE HopTop
  BY <1>27 DEF HopTop, HopRest
<1>28. CASE HopRead
  BY <1>28 DEF HopRead, HopRest
<1>29. CASE HopTune
  BY <1>29 DEF HopTune, HopRest
<1>30. CASE HopNext
  BY <1>30 DEF HopNext, HopRest
<1>31. CASE UNCHANGED scanVars
  BY <1>31 DEF scanVars
<1> QED
  BY <1>1, <1>2, <1>3, <1>4, <1>5, <1>6, <1>7, <1>8, <1>9, <1>10, <1>11, <1>12, <1>13, <1>14, <1>15,
     <1>16, <1>17, <1>18, <1>19, <1>20, <1>21, <1>22, <1>23, <1>24, <1>25, <1>26, <1>27, <1>28, <1>29,
        <1>30, <1>31 DEF ScanNext

LEMMA Untouched ==
    ASSUME NEW ch, NEW sv, NEW tv, tv.enabled = sv.enabled, tv.wide = sv.wide, ~sv.wide => tv.hw = sv.hw,
           NEW pc, NEW qc, pc \in {"top", "dwell"} => qc \in {"top", "dwell"}, NEW f
    PROVE  /\ ComesReady(ch, sv, pc) => ComesReady(ch, tv, qc)
           /\ ComesTo(ch, sv, pc, f) => ComesTo(ch, tv, qc, f)
BY DEF ComesReady, ComesTo, Halts

LEMMA OnTargetKept ==
    ASSUME ScanTypes, Switched, ~crossed => InStep, Prompt /\ ~crossed => OnTarget, [ScanNext]_scanVars
    PROVE  Prompt /\ ~crossed' => OnTarget'
<1> SUFFICES ASSUME Prompt, ~crossed'
             PROVE  OnTarget'
  OBVIOUS
<1> DEFINE To(f) == ComesTo(chan, server, hop.pc, f)
           Set == ComesReady(chan, server, hop.pc)
<1>0. InStep /\ OnTarget /\ chan \in Seq(CommandSet)
  BY CrossedStays DEF ScanTypes
<1>p. /\ worker.pc \in {"lock", "coherent", "frequency", "locked"}
         => client.running /\ client.state = "scanning"
      /\ worker.pc \in {"resume", "configure", "start"} => client.running /\ client.state = "locked"
      /\ web = "start" => worker.pc = "idle" /\ ~client.running
  BY <1>0 DEF InStep, Switched, OnTheMove, OnSignal
<1>t. /\ worker.pc = "frequency" => Set
      /\ worker.pc = "locked" => To(worker.f)
      /\ client.running /\ client.state = "locked" /\ worker.pc \in {"idle", "resume"} => To(client.locked)
  BY <1>0 DEF OnTarget, OnSignal
<1>a. ASSUME worker'.pc \notin {"frequency", "locked"},
             client'.running /\ client'.state = "locked" => worker'.pc \notin {"idle", "resume"}
      PROVE  OnTarget'
  BY <1>a DEF OnTarget, OnSignal
<1>b. ASSUME client'.running = client.running, client'.state = client.state,
   client'.locked = client.locked,
             worker'.pc = worker.pc, worker'.f = worker.f, Set => Set', \A f : To(f) => To(f)'
      PROVE  OnTarget'
  BY <1>b, <1>t DEF OnTarget, OnSignal
<1>c. ASSUME chan' = chan, server' = server, hop' = hop
      PROVE  Set' = Set /\ \A f : To(f)' = To(f)
  BY <1>c
<1> HIDE DEF To, Set
<1>1. ASSUME NEW c \in Configs, LoadConfig(c) PROVE OnTarget'
  BY <1>1, <1>b, <1>c DEF LoadConfig, ScanTypes, ClientSet, WorkerSet
<1>2. ASSUME NEW on \in BOOLEAN, WidebandMode(on) PROVE OnTarget'
  BY <1>2, ToWideIs, <1>a DEF WidebandMode, Give, Busy, ScanTypes
<1>3. ASSUME NEW f \in Frequencies, SetFrequency(f) PROVE OnTarget'
  BY <1>3, ToWideIs, <1>a DEF SetFrequency, Give, Busy, ScanTypes
<1>4. CASE StartScan
  <2> DEFINE list == Centers(GroupsOf(Enabled(conf)))
  <2>1. client' = [client EXCEPT !.groups = list] /\ ~client.running /\ worker' = worker /\ worker.pc = "idle"
    BY <1>4 DEF StartScan, MayStart, Give, Busy
  <2> HIDE DEF list
  <2>2. ~client'.running
    BY <2>1 DEF ScanTypes, ClientSet, WorkerSet
  <2> QED  BY <1>a, <2>1, <2>2
<1>5. CASE StartGoes
  BY <1>p, <1>5, <1>a DEF StartGoes, ScanTypes, ClientSet, WorkerSet
<1>6. CASE StopScan
  BY <1>6, <1>a DEF StopScan, Give, Busy, Stopped, ScanTypes, ClientSet, WorkerSet
<1>7. CASE SetDwell
  <2>1. PICK c \in CommandSet : c.op = "configure" /\ chan' = chan \o <<c>>
    BY <1>7, WhatIsSent
  <2>2. client' = client /\ worker' = worker /\ server' = server /\ hop' = hop
    BY <1>7 DEF SetDwell
  <2>3. (Set => Set') /\ \A f : To(f) => To(f)'
    BY <1>0, <2>1, <2>2, ConfigureBehind DEF Set, To
  <2> QED  BY <1>b, <2>2, <2>3
<1>8. CASE NextSignal
  BY <1>8, <1>c, <1>t DEF NextSignal, Give, MayAct, Busy, ScanTypes, ClientSet, WorkerSet, To,
     OnTarget, OnSignal
<1>9. CASE Settle
  BY <1>9, <1>b, <1>c DEF Settle, ScanTypes, ClientSet, WorkerSet
<1>10. CASE LoseSignal
  BY <1>10, <1>c, <1>t DEF LoseSignal, MayAct, Busy, ScanTypes, ClientSet, WorkerSet, To, OnTarget,
     OnSignal
<1>11. ASSUME NEW i \in DOMAIN conf, Detect(i) PROVE OnTarget'
  BY <1>p, <1>11, <1>a DEF Detect, MayAct, Looks, Busy, ScanTypes, ClientSet, WorkerSet
<1>12. CASE LockStop
  BY <1>12, WhatIsSent, RestIs, <1>a, <1>p DEF LockStop
<1>13. CASE LockCoherent
  <2>1. PICK c \in CommandSet : c.op = "coherent" /\ chan' = chan \o <<c>>
    BY <1>13, WhatIsSent
  <2>2. chan = <<>> /\ hop.pc \in {"top", "dwell"} /\ worker.pc = "coherent"
    BY <1>13 DEF LockCoherent, ServerHasStopped, ScanTypes, HopSet
  <2>3. ~server.enabled
    <3>1. Ends(chan, "start", "stop", server.enabled) = FALSE
      BY <1>0, <2>2 DEF InStep, Turning
    <3>2. Asks(chan, "start", "stop") = {}
      BY <2>2 DEF Asks
    <3> QED  BY <3>1, <3>2 DEF Ends
  <2>4. server' = server /\ hop' = hop /\ worker'.pc = "frequency" /\ client'.state = "scanning"
    BY <1>p, <1>13, <2>2 DEF LockCoherent, ScanTypes, ClientSet, WorkerSet
  <2>5. ComesReady(chan', server', hop'.pc)
    BY <2>1, <2>2, <2>3, <2>4, CoherentAlone
  <2> QED  BY <2>4, <2>5 DEF OnTarget, OnSignal
<1>14. CASE LockFrequency
  <2>1. PICK c \in CommandSet : c.op = "frequency" /\ c.f = worker.f /\ chan' = chan \o <<c>>
    BY <1>14, WhatIsSent
  <2>2. server' = server /\ hop' = hop /\ worker'.pc = "locked" /\ worker'.f = worker.f
        /\ client'.state = "scanning" /\ worker.pc = "frequency"
    BY <1>p, <1>14 DEF LockFrequency, ScanTypes, ClientSet, WorkerSet
  <2>3. ComesTo(chan', server', hop'.pc, worker'.f)
    BY <1>0, <1>t, <2>1, <2>2, FrequencyBehind DEF Set
  <2> QED  BY <2>2, <2>3 DEF OnTarget, OnSignal
<1>15. CASE LockDone
  BY <1>15, RestIs, <1>t DEF LockDone, ScanTypes, ClientSet, WorkerSet, To, OnTarget, OnSignal
<1>16. CASE ResumeWide
  <2>1. worker.pc = "resume" /\ server' = server /\ hop' = hop
    BY <1>16 DEF ResumeWide
  <2>2. CASE worker'.pc = "configure"
    BY <1>a, <2>2
  <2>3. CASE worker' = Rest /\ chan' = chan /\ client' = client
    BY <1>c, <1>p, <1>t, <2>1, <2>3, RestIs DEF OnTarget, OnSignal, To
  <2> QED  BY <1>16, <2>2, <2>3, WhatIsSent
<1>17. CASE ResumeConfigure
  BY <1>p, <1>17, <1>a DEF ResumeConfigure, ScanTypes, ClientSet, WorkerSet
<1>18. CASE ResumeStart
  BY <1>p, <1>18, RestIs, <1>a DEF ResumeStart, ScanTypes, ClientSet, WorkerSet
<1>19. CASE Configure
  <2>1. Take("configure")
    BY <1>19 DEF Configure
  <2>2. chan # <<>> /\ chan' = Tail(chan) /\ chan[1].op = "configure" /\ Head(chan) = chan[1]
    BY <2>1, Takes
  <2>3. client' = client /\ worker' = worker /\ hop' = hop
    BY <1>19 DEF Configure, ServerRest
  <2>4. DoesAs(chan[1], server, server')
    BY <1>19, <2>2 DEF Configure, DoesAs, ScanTypes, ServerSet
  <2>5. (Set => Set') /\ \A f : To(f) => To(f)'
    BY <1>0, <2>2, <2>3, <2>4, Obeyed DEF Set, To
  <2> QED  BY <1>b, <2>3, <2>5
<1>20. CASE StartCommand
  <2>1. Take("start")
    BY <1>20 DEF StartCommand
  <2>2. chan # <<>> /\ chan' = Tail(chan) /\ chan[1].op = "start" /\ Head(chan) = chan[1]
    BY <2>1, Takes
  <2>3. client' = client /\ worker' = worker /\ hop' = hop
    BY <1>20 DEF StartCommand, ServerRest
  <2>4. ~Set /\ \A f : ~To(f)
    <3>1. 1 \in DOMAIN chan
      BY <1>0, <2>2, WithoutHead
    <3> QED  BY <2>2, <3>1 DEF Set, To, ComesReady, ComesTo, Halts
  <2> QED  BY <1>b, <2>3, <2>4
<1>21. CASE StopCommand
  <2>1. Take("stop")
    BY <1>21 DEF StopCommand
  <2>2. chan # <<>> /\ chan' = Tail(chan) /\ chan[1].op = "stop" /\ Head(chan) = chan[1]
    BY <2>1, Takes
  <2>3. client' = client /\ worker' = worker /\ hop' = hop
    BY <1>21 DEF StopCommand, ServerRest
  <2>4. ~Set /\ \A f : ~To(f)
    <3>1. 1 \in DOMAIN chan
      BY <1>0, <2>2, WithoutHead
    <3> QED  BY <2>2, <3>1 DEF Set, To, ComesReady, ComesTo, Halts
  <2> QED  BY <1>b, <2>3, <2>4
<1>22. CASE WideCommand
  <2>1. Take("wide")
    BY <1>22 DEF WideCommand
  <2>2. chan # <<>> /\ chan' = Tail(chan) /\ chan[1].op = "wide" /\ Head(chan) = chan[1]
    BY <2>1, Takes
  <2>3. client' = client /\ worker' = worker /\ hop' = hop
    BY <1>22 DEF WideCommand, ServerRest
  <2>4. ~Set /\ \A f : ~To(f)
    <3>1. 1 \in DOMAIN chan
      BY <1>0, <2>2, WithoutHead
    <3> QED  BY <2>2, <3>1 DEF Set, To, ComesReady, ComesTo, Halts
  <2> QED  BY <1>b, <2>3, <2>4
<1>23. CASE SpreadTuners
  <2>1. client' = client /\ worker' = worker /\ chan' = chan
    BY <1>23 DEF SpreadTuners, ServerRest
  <2>2. server'.enabled = server.enabled /\ server'.wide = server.wide /\ (~server.wide => server'.hw = server.hw)
    BY <1>23 DEF SpreadTuners, ScanTypes, ServerSet
  <2>3. hop.pc \in {"top", "dwell"} => hop'.pc \in {"top", "dwell"}
    BY <1>23 DEF SpreadTuners, ServerRest
  <2>4. (Set => Set') /\ \A f : To(f) => To(f)'
    BY <2>1, <2>2, <2>3, Untouched DEF Set, To
  <2> QED  BY <1>b, <2>1, <2>4
<1>24. CASE CoherentCommand
  <2>1. Take("coherent")
    BY <1>24 DEF CoherentCommand
  <2>2. chan # <<>> /\ chan' = Tail(chan) /\ chan[1].op = "coherent" /\ Head(chan) = chan[1]
    BY <2>1, Takes
  <2>3. client' = client /\ worker' = worker /\ hop' = hop
    BY <1>24 DEF CoherentCommand, ServerRest
  <2>4. DoesAs(chan[1], server, server')
    BY <1>24, <2>2 DEF CoherentCommand, DoesAs, ScanTypes, ServerSet
  <2>5. (Set => Set') /\ \A f : To(f) => To(f)'
    BY <1>0, <2>2, <2>3, <2>4, Obeyed DEF Set, To
  <2> QED  BY <1>b, <2>3, <2>5
<1>25. CASE CoherentDone
  <2>1. client' = client /\ worker' = worker /\ chan' = chan
    BY <1>25 DEF CoherentDone, ServerRest, ServerRest
  <2>2. server'.enabled = server.enabled /\ server'.wide = server.wide /\ (~server.wide => server'.hw = server.hw)
    BY <1>25 DEF CoherentDone, ScanTypes, ServerSet
  <2>3. hop.pc \in {"top", "dwell"} => hop'.pc \in {"top", "dwell"}
    BY <1>25 DEF CoherentDone, ServerRest
  <2>4. (Set => Set') /\ \A f : To(f) => To(f)'
    BY <2>1, <2>2, <2>3, Untouched DEF Set, To
  <2> QED  BY <1>b, <2>1, <2>4
<1>26. CASE FrequencyCommand
  <2>1. Take("frequency")
    BY <1>26 DEF FrequencyCommand
  <2>2. chan # <<>> /\ chan' = Tail(chan) /\ chan[1].op = "frequency" /\ Head(chan) = chan[1]
    BY <2>1, Takes
  <2>3. client' = client /\ worker' = worker /\ hop' = hop
    BY <1>26 DEF FrequencyCommand, ServerRest
  <2>4. DoesAs(chan[1], server, server')
    BY <1>26, <2>2 DEF FrequencyCommand, DoesAs, ScanTypes, ServerSet
  <2>5. (Set => Set') /\ \A f : To(f) => To(f)'
    BY <1>0, <2>2, <2>3, <2>4, Obeyed DEF Set, To
  <2> QED  BY <1>b, <2>3, <2>5
<1>27. CASE HopTop
  BY <1>27, <1>b DEF HopTop, HopRest, Set, To, ComesReady, ComesTo, Halts
<1>28. CASE HopRead
  BY <1>28, <1>b DEF HopRead, HopRest, Set, To, ComesReady, ComesTo, Halts
<1>29. CASE HopTune
  BY <1>29, <1>b DEF HopTune, HopRest, Set, To, ComesReady, ComesTo, Halts
<1>30. CASE HopNext
  <2>1. client' = client /\ worker' = worker /\ chan' = chan
    BY <1>30 DEF HopNext, HopRest
  <2>2. server'.enabled = server.enabled /\ server'.wide = server.wide /\ (~server.wide => server'.hw = server.hw)
    BY <1>30 DEF HopNext, ScanTypes, ServerSet
  <2>3. hop.pc \in {"top", "dwell"} => hop'.pc \in {"top", "dwell"}
    BY <1>30 DEF HopNext, AtTop
  <2>4. (Set => Set') /\ \A f : To(f) => To(f)'
    BY <2>1, <2>2, <2>3, Untouched DEF Set, To
  <2> QED  BY <1>b, <2>1, <2>4
<1>31. CASE UNCHANGED scanVars
  BY <1>31, <1>b, <1>c DEF scanVars, ScanTypes, ClientSet, WorkerSet
<1> QED
  BY <1>1, <1>2, <1>3, <1>4, <1>5, <1>6, <1>7, <1>8, <1>9, <1>10, <1>11, <1>12, <1>13, <1>14, <1>15,
     <1>16, <1>17, <1>18, <1>19, <1>20, <1>21, <1>22, <1>23, <1>24, <1>25, <1>26, <1>27, <1>28, <1>29,
        <1>30, <1>31 DEF ScanNext

-----------------------------------------------------------------------------
(* The scan is sound.                                                       *)

LEMMA ScanStarts == ScanInit => ScanInv
<1> SUFFICES ASSUME ScanInit PROVE ScanInv
  OBVIOUS
<1> DEFINE cl == [running |-> FALSE, state |-> "idle", wide |-> TRUE, locked |-> 0,
                  settling |-> FALSE, groups |-> <<>>, fm |-> TRUE, fmBefore |-> FALSE,
                  doa |-> FALSE, doaBefore |-> TRUE]
           sv == [enabled |-> FALSE, list |-> <<>>, index |-> 0, wide |-> TRUE,
                  freq |-> CenterFreq, base |-> 0, hw |-> Tuning(TRUE, CenterFreq)]
<1>1. /\ conf \in Configs /\ web = "idle" /\ chan = <<>> /\ ctl = "idle" /\ crossed = FALSE
      /\ client = cl /\ server = sv /\ worker = Rest /\ hop = AtTop
  BY DEF ScanInit
<1>2. cl \in ClientSet
  BY DEF ClientSet
<1>3. sv \in ServerSet
  BY ScanAssumption DEF ServerSet, Tuning
<1>4. AtTop \in HopSet /\ AtTop.pc = "top" /\ AtTop.index = 0
  BY DEF AtTop, HopSet
<1>5. Rest \in WorkerSet /\ Rest.pc = "idle"
  BY RestIs DEF Rest, WorkerSet
<1>6. /\ ~client.running /\ client.state = "idle" /\ client.wide = TRUE /\ client.groups = <<>>
      /\ client.fm /\ ~client.doa
      /\ server.list = <<>> /\ server.index = 0 /\ server.wide = TRUE /\ server.enabled = FALSE
  BY <1>1
<1>7. DOMAIN chan = {} /\ chan \in Seq(CommandSet)
  BY <1>1
<1>8. ScanTypes
  BY <1>1, <1>2, <1>3, <1>4, <1>5, <1>7 DEF ScanTypes
<1>9. Lists
  BY <1>1, <1>4, <1>5, <1>6, <1>7 DEF Lists, PlansOnly, Index
<1>10. Fed
  BY <1>1, <1>5, <1>6, <1>7 DEF Fed, Preceded
<1>11. \A on, off, now : Ends(chan, on, off, now) = now
  BY <1>7 DEF Ends, Asks
<1>12. Switched
  BY <1>1, <1>6, <1>11 DEF Switched
<1>13. InStep
  <2>1. ~OnTheMove /\ ~OnSignal
    BY <1>6 DEF OnTheMove, OnSignal
  <2>2. Ends(chan, "start", "stop", server.enabled) = FALSE
    BY <1>6, <1>11
  <2>3. Ends(chan, "start", "stop", server.enabled) = (OnTheMove /\ ~Turning)
    BY <2>1, <2>2
  <2> QED  BY <1>1, <1>5, <1>6, <2>1, <2>3 DEF InStep
<1>14. OnTarget
  BY <1>1, <1>5, <1>6 DEF OnTarget, OnSignal
<1> QED  BY <1>8, <1>9, <1>10, <1>12, <1>13, <1>14 DEF ScanInv

(***************************************************************************)
(* The scanner's inductive invariant: whatever the lists, the user's         *)
(* commands and the way the worker, the control thread and the hopping       *)
(* thread of heimdall take turns, the commands on their way lead heimdall    *)
(* where the client is, a start never finds heimdall without a list, and     *)
(* what the client switched off it still knows (the transition workers,      *)
(* handle_control, discrete_scanner_thread).                                 *)
(***************************************************************************)
THEOREM ScanInvariant == ScanInit /\ [][ScanNext]_scanVars => []ScanInv
<1>1. ScanInv /\ [ScanNext]_scanVars => ScanInv'
  BY TypesKept, ListsKept, FedKept, SwitchedKept, InStepKept, OnTargetKept DEF ScanInv
<1> QED  BY ScanStarts, <1>1, PTL

LEMMA ScanInvSays ==
    ASSUME ScanInv
    PROVE  /\ TypeOK /\ GroupsCover /\ NoDoaOnSpread /\ FmComesBack
           /\ Prompt => EndsAgree
<1>1. TypeOK
  BY DEF ScanInv, ScanTypes, ClientSet, WorkerSet, ServerSet, HopSet, Lists, Index, TypeOK
<1>2. GroupsCover
  BY GroupingCovers DEF GroupsCover
<1>3. NoDoaOnSpread
  BY DEF ScanInv, InStep, NoDoaOnSpread
<1>4. FmComesBack
  BY DEF ScanInv, Switched, FmComesBack
<1>5. ASSUME Prompt, Quiet, ~crossed
      PROVE  /\ client.wide = server.wide
             /\ server.enabled <=> (client.running /\ client.state = "scanning")
             /\ server.enabled => client.wide
             /\ (client.running /\ client.state = "locked") => server.hw = Tuning(FALSE, client.locked)
  <2>1. InStep /\ OnTarget /\ Switched /\ ScanTypes /\ chan = <<>> /\ worker.pc = "idle"
    BY <1>5 DEF ScanInv, Quiet
  <2>2. \A on, off, now : Ends(chan, on, off, now) = now
    BY <2>1 DEF Ends, Asks
  <2>3. client.wide = server.wide
    BY <2>1, <2>2 DEF Switched
  <2>4. server.enabled = (client.running /\ client.state = "scanning")
    BY <2>1, <2>2 DEF InStep, OnTheMove, Turning
  <2>5. client.running /\ client.state = "scanning" => client.wide
    BY <2>1 DEF InStep, OnTheMove
  <2>6. ASSUME client.running, client.state = "locked" PROVE server.hw = Tuning(FALSE, client.locked)
    <3>1. ComesTo(chan, server, hop.pc, client.locked)
      BY <2>1, <2>6 DEF OnTarget, OnSignal
    <3>2. ~HasFrequency(chan)
      BY <2>1 DEF HasFrequency
    <3> QED  BY <3>1, <3>2 DEF ComesTo
  <2> QED  BY <2>3, <2>4, <2>5, <2>6
<1>6. Prompt => EndsAgree
  BY <1>5 DEF EndsAgree
<1> QED  BY <1>1, <1>2, <1>3, <1>4, <1>6

(***************************************************************************)
(* Whether heimdall keeps up or not, each frequency the user enables is in   *)
(* reach of a group and no group is superfluous, DoA never runs on the       *)
(* spread tuners unless a command came across a transition, and the FM       *)
(* demodulator is back once a scan is over.                                  *)
(***************************************************************************)
THEOREM ScanKeepsItsSwitches == ScanSpec => [](TypeOK /\ GroupsCover /\ NoDoaOnSpread /\ FmComesBack)
<1>1. ScanInv => TypeOK /\ GroupsCover /\ NoDoaOnSpread /\ FmComesBack
  BY ScanInvSays
<1> QED  BY ScanInvariant, <1>1, PTL DEF ScanSpec

(***************************************************************************)
(* While heimdall has worked off a stop before the delay after it is over,   *)
(* as the client's delays assume, the two ends also agree whenever nothing   *)
(* is under way: the same mode, heimdall hopping exactly while the client    *)
(* scans, and all its tuners on the signal the client is locked on           *)
(* (lockOnSignal, resumeScanning, discrete_scanner_thread).                  *)
(***************************************************************************)
THEOREM ScanCorrect == Prompt => (ScanSpec => []ScanSound)
<1> SUFFICES ASSUME Prompt PROVE ScanSpec => []ScanSound
  OBVIOUS
<1>1. ScanInv => ScanSound
  BY ScanInvSays DEF ScanSound
<1> QED  BY ScanInvariant, <1>1, PTL DEF ScanSpec

-----------------------------------------------------------------------------
(* The continuous scanner: frequencies, slots and tuning.                      *)

Spectrum == 0 .. Step * MaxBands
Centres == {Centre(b) : b \in Bands}
Sweeping == {"scanning", "dwelling"}

Scanner == [running : BOOLEAN, state : {"idle", "scanning", "dwelling", "retuning"},
            plan : 0 .. MaxBands, band : Bands, started : BOOLEAN, done : BOOLEAN,
            empty : 0 .. MaxEmpty,
            slots : [1 .. MaxTracked -> [dec : Decs \cup {None}, f : Spectrum]],
            mem : SUBSET Spectrum, offs : [Decs -> Int], fm : Decs]

LEMMA BandsTyped ==
    /\ MaxBands \in Nat \ {0} /\ Step \in Nat /\ MaxTracked \in Nat \ {0} /\ MaxEmpty \in Nat
    /\ Decs \subseteq Nat /\ IsFiniteSet(Decs) /\ None \notin Decs /\ None \notin Bands
    /\ Positions \subseteq 1 .. Step - 1 /\ 0 \in Bands /\ Bands \subseteq Nat
    /\ 0 \in Spectrum /\ 0 \in Centres /\ Centre(0) = 0
<1>1. /\ MaxBands \in Nat \ {0} /\ Step \in Nat /\ MaxTracked \in Nat \ {0} /\ MaxEmpty \in Nat
      /\ Decs \subseteq Nat /\ IsFiniteSet(Decs) /\ Positions \subseteq 1 .. Step - 1
  BY ContinuousAssumption
<1>2. None \notin Decs /\ None \notin Bands /\ 0 \in Bands /\ Bands \subseteq Nat
  BY <1>1 DEF None, Bands
<1>3. Centre(0) = 0
  BY <1>1 DEF Centre
<1>4. Step * MaxBands \in Nat
  BY <1>1
<1> QED  BY <1>1, <1>2, <1>3, <1>4 DEF Spectrum, Centres

LEMMA InBand ==
    ASSUME NEW b \in Bands
    PROVE  /\ Centre(b) \in Centres /\ Centre(b) \in Nat
           /\ \A p \in Positions : Centre(b) + p \in Spectrum
<1>1. b \in Nat /\ b + 1 <= MaxBands /\ Step \in Nat /\ MaxBands \in Nat
  BY BandsTyped DEF Bands
<1>2. Step * b \in Nat /\ Step * (b + 1) = Step * b + Step
  BY <1>1
<1>3. Step * (b + 1) <= Step * MaxBands
  <2>1. MaxBands - (b + 1) \in Nat
    BY <1>1
  <2>2. PICK d \in Nat : MaxBands = (b + 1) + d
    BY <1>1, <2>1
  <2>3. Step * MaxBands = Step * (b + 1) + Step * d /\ Step * d \in Nat
    BY <1>1, <2>2
  <2> QED  BY <1>1, <1>2, <2>3
<1>4. ASSUME NEW p \in Positions PROVE Step * b + p \in Spectrum
  <2>1. p \in 1 .. Step - 1
    BY BandsTyped
  <2> DEFINE c == Step * b
             top == Step * MaxBands
  <2>2. c \in Nat /\ top \in Int /\ c + Step <= top
    BY <1>1, <1>2, <1>3
  <2> HIDE DEF c, top
  <2>3. c + p \in 0 .. top
    BY <1>1, <2>1, <2>2
  <2> QED  BY <2>3 DEF c, top, Spectrum
<1> QED  BY <1>2, <1>4 DEF Centres, Centre

LEMMA SpectrumFinite ==
    ASSUME NEW S \in SUBSET Spectrum
    PROVE  IsFiniteSet(S) /\ S \in SUBSET Nat /\ Cardinality(S) \in Nat
<1>1. IsFiniteSet(Spectrum) /\ Spectrum \subseteq Nat
  BY BandsTyped, FS_Interval DEF Spectrum
<1>2. IsFiniteSet(S)
  BY <1>1, FS_Subset
<1> QED  BY <1>1, <1>2, FS_CardinalityType

\* What findAllSignals and the sweep sort has the elements of the set.
LEMMA SortedLists ==
    ASSUME NEW S \in SUBSET Nat, IsFiniteSet(S)
    PROVE  /\ Sorted(S) \in Seq(S) /\ Len(Sorted(S)) = Cardinality(S) /\ Cardinality(S) \in Nat
           /\ \A k \in 1 .. Cardinality(S) : Sorted(S)[k] \in S
           /\ DOMAIN Sorted(S) = 1 .. Cardinality(S)
           /\ Sorted(S) = <<>> <=> S = {}
<1> DEFINE s == Sorted(S)
           c == Cardinality(S)
<1>1. c \in Nat /\ s \in [1 .. c -> S]
  BY AscendingLists DEF Sorted, Ascending
<1>2. s \in Seq(S)
  BY <1>1, SeqDef
<1>3. Len(s) \in Nat /\ DOMAIN s = 1 .. Len(s) /\ DOMAIN s = 1 .. c
  BY <1>1, <1>2, LenProperties
<1>4. Len(s) = c
  BY <1>1, <1>3
<1>5. s = <<>> <=> c = 0
  BY <1>2, <1>4, EmptySeq
<1>6. c = 0 <=> S = {}
  BY FS_EmptySet
<1> QED  BY <1>1, <1>2, <1>3, <1>4, <1>5, <1>6

-----------------------------------------------------------------------------
(* Tuning one decimator after the other.                                       *)

\* What does not change when decimators are tuned.
Alike(m, n) ==
    /\ n.running = m.running /\ n.state = m.state /\ n.plan = m.plan /\ n.band = m.band
    /\ n.started = m.started /\ n.done = m.done /\ n.empty = m.empty /\ n.mem = m.mem

OneEach(m) == \A i, j \in Active(m) : m.slots[i].dec = m.slots[j].dec => i = j
Tuned(m, ds, c) ==
    \A i \in Active(m) : m.slots[i].dec \in ds => m.slots[i].f = c + m.offs[m.slots[i].dec]

LEMMA LeastIs ==
    ASSUME NEW T \in SUBSET Nat, T # {}
    PROVE  LET i == CHOOSE i \in T : \A j \in T : i <= j IN i \in T /\ \A j \in T : i <= j
BY LeastNat

LEMMA FirstIs ==
    ASSUME NEW m \in Scanner, Active(m) # {}
    PROVE  First(m) \in Decs
<1>1. Active(m) \in SUBSET Nat
  BY BandsTyped DEF Active
<1> DEFINE i == CHOOSE i \in Active(m) : \A j \in Active(m) : i <= j
<1>2. i \in Active(m)
  BY <1>1, LeastIs
<1> HIDE DEF i
<1>3. m.slots[i].dec \in Decs
  BY <1>2 DEF Active, Scanner
<1> QED  BY <1>3 DEF First, i

LEMMA SlotIs ==
    ASSUME NEW m \in Scanner, NEW d \in Decs
    PROVE  LET own == {i \in 1 .. MaxTracked : m.slots[i].dec = d}
               in == SlotFor(m, d) IN
           /\ in \subseteq 1 .. MaxTracked /\ \A i, j \in in : i = j
           /\ \A i \in in : m.slots[i].dec \in {d, None}
           /\ own # {} => \E i \in own : in = {i}
           /\ in = {} => \A i \in 1 .. MaxTracked : m.slots[i].dec # None
<1> DEFINE own == {i \in 1 .. MaxTracked : m.slots[i].dec = d}
           free == {i \in 1 .. MaxTracked : m.slots[i].dec = None}
           open == IF own # {} THEN own ELSE free
           least == CHOOSE i \in open : \A j \in open : i <= j
<1>1. SlotFor(m, d) = IF open = {} THEN {} ELSE {least}
  BY DEF SlotFor
<1>2. open \in SUBSET Nat
  BY BandsTyped
<1>3. open # {} => least \in open
  BY <1>2, LeastIs
<1> HIDE DEF least
<1> QED  BY <1>1, <1>3

LEMMA TuneToKeeps ==
    ASSUME NEW m \in Scanner, NEW d \in Decs, NEW f \in Spectrum, NEW c \in Nat
    PROVE  LET t == TuneTo(m, d, f, c) IN
           /\ t \in Scanner /\ Alike(m, t) /\ Locked(t) \subseteq Locked(m) \cup {f}
           /\ OneEach(m) => /\ OneEach(t)
                            /\ \A ds : Tuned(m, ds, c) => Tuned(t, ds, c)
<1> DEFINE in == SlotFor(m, d)
           offs == [m.offs EXCEPT ![d] = f - c]
           slots == [i \in 1 .. MaxTracked |-> IF i \in in THEN [dec |-> d, f |-> f] ELSE m.slots[i]]
           u == [m EXCEPT !.offs = offs, !.slots = slots]
           t == [u EXCEPT !.fm = First(u)]
<1>0. /\ m.slots \in [1 .. MaxTracked -> [dec : Decs \cup {None}, f : Spectrum]]
      /\ m.offs \in [Decs -> Int]
  BY DEF Scanner
<1>1. TuneTo(m, d, f, c) = t
  BY <1>0 DEF TuneTo, Scanner
<1>2. /\ in \subseteq 1 .. MaxTracked /\ \A i, j \in in : i = j
      /\ \A i \in in : m.slots[i].dec \in {d, None}
      /\ (\E i \in 1 .. MaxTracked : m.slots[i].dec = d) =>
            \E i \in 1 .. MaxTracked : m.slots[i].dec = d /\ in = {i}
      /\ in = {} => \A i \in 1 .. MaxTracked : m.slots[i].dec # None
  BY SlotIs
<1>3. f - c \in Int /\ offs \in [Decs -> Int] /\ offs[d] = f - c
      /\ \A e \in Decs : e # d => offs[e] = m.offs[e]
  <2>1. f \in Int /\ c \in Int
    BY BandsTyped DEF Spectrum
  <2> QED  BY <1>0, <2>1
<1> HIDE DEF in
<1>4. /\ slots \in [1 .. MaxTracked -> [dec : Decs \cup {None}, f : Spectrum]]
      /\ \A i \in 1 .. MaxTracked :
            /\ i \in in => slots[i].dec = d /\ slots[i].f = f
            /\ i \notin in => slots[i] = m.slots[i]
  BY <1>0
<1> HIDE DEF slots, offs
<1>5. u \in Scanner /\ u.slots = slots /\ u.offs = offs
  BY <1>3, <1>4 DEF Scanner
<1>6. Active(u) # {}
  <2>1. 1 \in 1 .. MaxTracked
    BY BandsTyped
  <2>2. CASE in = {}
    BY <1>2, <1>4, <1>5, <2>1, <2>2 DEF Active
  <2>3. CASE in # {}
    <3>1. PICK i \in in : TRUE
      BY <2>3
    <3>2. i \in 1 .. MaxTracked /\ slots[i].dec = d /\ d # None
      BY <1>2, <1>4, <3>1, BandsTyped
    <3> QED  BY <1>5, <3>2 DEF Active
  <2> QED  BY <2>2, <2>3
<1>7. First(u) \in Decs
  BY <1>5, <1>6, FirstIs
<1> HIDE DEF u
<1>8. t \in Scanner /\ t.slots = slots /\ t.offs = offs /\ Alike(u, t)
  BY <1>5, <1>7 DEF Scanner, Alike
<1>9. Alike(m, t)
  <2>1. Alike(m, u)
    BY DEF u, Alike, Scanner
  <2> QED  BY <1>8, <2>1 DEF Alike
<1> HIDE DEF t
<1>10. \A i \in 1 .. MaxTracked : i \in Active(t) <=> slots[i].dec # None
  BY <1>8 DEF Active
<1>11. ASSUME NEW i \in Active(t)
       PROVE  /\ i \in 1 .. MaxTracked
              /\ i \in in => slots[i].dec = d /\ slots[i].f = f
              /\ i \notin in => i \in Active(m) /\ slots[i] = m.slots[i]
  BY <1>4, <1>10 DEF Active
<1>12. Locked(t) \subseteq Locked(m) \cup {f}
  BY <1>8, <1>11 DEF Locked
<1>13. ASSUME OneEach(m) PROVE OneEach(t)
  <2> SUFFICES ASSUME NEW i \in Active(t), NEW j \in Active(t), slots[i].dec = slots[j].dec
               PROVE  i = j
    BY <1>8 DEF OneEach
  <2>1. CASE i \in in /\ j \in in
    BY <1>2, <2>1
  <2>2. CASE i \notin in /\ j \notin in
    BY <1>11, <2>2, <1>13 DEF OneEach
  <2>3. ASSUME NEW x \in Active(t), NEW y \in Active(t), x \in in, y \notin in,
               slots[x].dec = slots[y].dec
        PROVE  FALSE
    <3>1. m.slots[y].dec = d /\ y \in 1 .. MaxTracked /\ y \in Active(m)
      BY <1>11, <2>3
    <3>2. PICK k \in 1 .. MaxTracked : m.slots[k].dec = d /\ in = {k}
      BY <1>2, <3>1
    <3>3. k \in Active(m)
      BY <3>2, BandsTyped DEF Active
    <3>4. k = y
      BY <1>13, <3>1, <3>2, <3>3 DEF OneEach
    <3> QED  BY <2>3, <3>2, <3>4
  <2> QED  BY <2>1, <2>2, <2>3
<1>14. ASSUME OneEach(m), NEW ds, Tuned(m, ds, c) PROVE Tuned(t, ds, c)
  <2> SUFFICES ASSUME NEW i \in Active(t), slots[i].dec \in ds
               PROVE  slots[i].f = c + offs[slots[i].dec]
    BY <1>8 DEF Tuned
  <2>1. CASE i \in in
    BY <1>3, <1>11, <2>1, BandsTyped DEF Spectrum
  <2>2. CASE i \notin in
    <3>1. i \in Active(m) /\ slots[i] = m.slots[i] /\ m.slots[i].dec \in Decs
      BY <1>0, <1>11, <2>2 DEF Active
    <3>2. m.slots[i].dec # d
      <4>1. SUFFICES ASSUME m.slots[i].dec = d PROVE FALSE
        OBVIOUS
      <4>2. PICK k \in 1 .. MaxTracked : m.slots[k].dec = d /\ in = {k}
        BY <1>2, <1>11, <4>1
      <4>3. k \in Active(m)
        BY <4>2, BandsTyped DEF Active
      <4>4. k = i
        BY <1>14, <3>1, <4>1, <4>2, <4>3 DEF OneEach
      <4> QED  BY <2>2, <4>2, <4>4
    <3>3. m.slots[i].f = c + m.offs[m.slots[i].dec]
      BY <1>14, <3>1 DEF Tuned
    <3> QED  BY <1>3, <3>1, <3>2, <3>3
  <2> QED  BY <2>1, <2>2
<1> QED  BY <1>1, <1>8, <1>9, <1>12, <1>13, <1>14 DEF t

\* The same of the first n decimators, one after the other (the loops around tuneTo
\* in scannerThread).
LEMMA TuneAllKeeps ==
    ASSUME NEW m \in Scanner, NEW S \in SUBSET Spectrum, NEW from \in Nat \ {0}, NEW n \in Nat,
           NEW c \in Nat, decs \subseteq Decs, n <= Cardinality(decs), n > 0 => S # {}
    PROVE  LET t == TuneAll(m, Sorted(S), from, n, c) IN
           /\ t \in Scanner /\ Alike(m, t) /\ Locked(t) \subseteq Locked(m) \cup S
           /\ OneEach(m) => /\ OneEach(t)
                            /\ \A ds : Tuned(m, ds, c) => Tuned(t, ds, c)
<1> DEFINE list == Sorted(S)
           at(k) == list[1 + ((from + k - 2) % Len(list))]
           ds == Sorted(decs)
           a == CHOOSE b : b = [k \in 0 .. n |->
                                 IF k = 0 THEN m ELSE TuneTo(b[k - 1], ds[k], at(k), c)]
<1> HIDE DEF list, ds, at
<1>1. \E b : b = [k \in 0 .. n |-> IF k = 0 THEN m ELSE TuneTo(b[k - 1], ds[k], at(k), c)]
  <2> DEFINE Fits(b, k) ==
               b = [i \in 0 .. k |-> IF i = 0 THEN m ELSE TuneTo(b[i - 1], ds[i], at(i), c)]
             Bad == {k \in 0 .. n : ~ \E b : Fits(b, k)}
  <2>1. SUFFICES Bad = {}
    OBVIOUS
  <2>2. SUFFICES ASSUME Bad # {} PROVE FALSE
    OBVIOUS
  <2>3. PICK k \in Bad : \A j \in Bad : k <= j
    <3>1. Bad \in SUBSET Nat
      OBVIOUS
    <3> QED  BY <2>2, <3>1, LeastNat
  <2>4. k \in 0 .. n /\ ~ \E g : Fits(g, k)
    OBVIOUS
  <2>5. k # 0
    <3>1. ASSUME k = 0 PROVE Fits([i \in 0 .. k |-> m], k)
      BY <3>1
    <3> QED  BY <2>4, <3>1
  <2>6. k - 1 \in 0 .. n /\ k - 1 < k
    BY <2>4, <2>5
  <2>7. k - 1 \notin Bad
    <3>1. ~(k <= k - 1)
      BY <2>4
    <3> HIDE DEF Bad
    <3> QED  BY <2>3, <3>1
  <2>8. PICK b : Fits(b, k - 1)
    BY <2>6, <2>7
  <2> DEFINE g == [i \in 0 .. k |-> IF i = k THEN TuneTo(b[k - 1], ds[k], at(k), c) ELSE b[i]]
  <2>9. ASSUME NEW i \in 0 .. k
        PROVE  g[i] = IF i = 0 THEN m ELSE TuneTo(g[i - 1], ds[i], at(i), c)
    <3>1. CASE i = k
      BY <2>4, <2>5, <2>6, <3>1
    <3>2. CASE i # k
      BY <2>4, <3>2, <2>8
    <3> QED  BY <3>1, <3>2
  <2>10. Fits(g, k)
    BY <2>9
  <2> QED  BY <2>4, <2>10
<1>2. TuneAll(m, list, from, n, c) = a[n]
  BY DEF TuneAll, ds, at
<1> HIDE DEF a
<1>3. \A k \in 1 .. n : ds[k] \in Decs
  <2>1. decs \in SUBSET Nat /\ IsFiniteSet(decs)
    BY BandsTyped, FS_Subset
  <2>2. Cardinality(decs) \in Nat /\ \A k \in 1 .. Cardinality(decs) : ds[k] \in decs
    BY <2>1, SortedLists DEF ds
  <2> QED  BY <2>2
<1>4. \A k \in 1 .. n : at(k) \in S
  <2> SUFFICES ASSUME NEW k \in 1 .. n PROVE at(k) \in S
    OBVIOUS
  <2>1. S # {} /\ IsFiniteSet(S) /\ S \in SUBSET Nat
    BY SpectrumFinite
  <2>2. /\ Len(list) = Cardinality(S) /\ Cardinality(S) \in Nat /\ list # <<>>
        /\ \A i \in 1 .. Cardinality(S) : list[i] \in S
    BY <2>1, SortedLists DEF list
  <2>3. Cardinality(S) # 0
    BY <2>1, FS_EmptySet
  <2> DEFINE l == Len(list)
             j == from + k - 2
  <2>4. l \in Nat \ {0} /\ j \in Int
    BY <2>2, <2>3
  <2> HIDE DEF l, j
  <2>5. j % l \in 0 .. l - 1
    BY <2>4
  <2>6. 1 + (j % l) \in 1 .. l
    BY <2>4, <2>5
  <2>7. list[1 + (j % l)] \in S
    BY <2>2, <2>6 DEF l
  <2> QED  BY <2>7 DEF l, j, at
<1>5. a[0] = m /\ \A k \in 1 .. n : a[k] = TuneTo(a[k - 1], ds[k], at(k), c)
  <2>1. a = [k \in 0 .. n |-> IF k = 0 THEN m ELSE TuneTo(a[k - 1], ds[k], at(k), c)]
    BY <1>1 DEF a
  <2> QED  BY <2>1
<1> DEFINE Good(t) == /\ t \in Scanner /\ Alike(m, t) /\ Locked(t) \subseteq Locked(m) \cup S
                      /\ OneEach(m) => /\ OneEach(t)
                                       /\ \A es : Tuned(m, es, c) => Tuned(t, es, c)
           Bad == {k \in 0 .. n : ~Good(a[k])}
<1>6. Bad = {}
  <2>1. SUFFICES ASSUME Bad # {} PROVE FALSE
    OBVIOUS
  <2>2. PICK k \in Bad : \A j \in Bad : k <= j
    <3>1. Bad \in SUBSET Nat
      OBVIOUS
    <3> QED  BY <2>1, <3>1, LeastNat
  <2>3. Good(a[0])
    BY <1>5 DEF Alike
  <2>4. k \in 1 .. n /\ k - 1 \in 0 .. n /\ ~(k <= k - 1) /\ ~Good(a[k])
    <3>1. k \in 0 .. n /\ ~Good(a[k])
      OBVIOUS
    <3> HIDE DEF Good, Bad
    <3>2. k # 0
      BY <2>3, <3>1
    <3> QED  BY <3>1, <3>2
  <2>5. Good(a[k - 1])
    <3> HIDE DEF Good
    <3> QED  BY <2>2, <2>4
  <2> DEFINE b == a[k - 1]
             t == a[k]
             f == at(k)
  <2>6. t = TuneTo(b, ds[k], f, c) /\ ds[k] \in Decs /\ f \in S /\ f \in Spectrum
    BY <1>3, <1>4, <1>5, <2>4
  <2>7. b \in Scanner /\ Alike(m, b) /\ Locked(b) \subseteq Locked(m) \cup S
        /\ (OneEach(m) => OneEach(b) /\ \A es : Tuned(m, es, c) => Tuned(b, es, c))
    BY <2>5
  <2> HIDE DEF b, t, f
  <2>8. /\ t \in Scanner /\ Alike(b, t) /\ Locked(t) \subseteq Locked(b) \cup {f}
        /\ OneEach(b) => OneEach(t) /\ \A es : Tuned(b, es, c) => Tuned(t, es, c)
    BY <2>6, <2>7, TuneToKeeps
  <2>9. Alike(m, t)
    BY <2>7, <2>8 DEF Alike
  <2>10. Good(t)
    BY <2>6, <2>7, <2>8, <2>9
  <2> QED  BY <2>4, <2>10 DEF t
<1>7. n \in 0 .. n
  OBVIOUS
<1>8. Good(a[n])
  <2> HIDE DEF Good
  <2> QED  BY <1>6, <1>7
<1> QED  BY <1>2, <1>8 DEF list

-----------------------------------------------------------------------------
(* The band plan.                                                              *)

\* Nothing is tuned any more, and the band is about to be scanned or waited for.
Moved(m, n) ==
    /\ n.running = m.running /\ n.plan = m.plan
    /\ Active(n) = {} /\ n.mem \subseteq m.mem
    /\ \/ n.state = "scanning" /\ n.mem = {} /\ n.started = m.started /\ n.done = m.done
       \/ n.state = "retuning" /\ ~n.started /\ ~n.done

LEMMA NothingIn ==
    ASSUME NEW m, m.slots = NoSlots
    PROVE  Active(m) = {} /\ Locked(m) = {} /\ OneEach(m) /\ \A ds, c : Tuned(m, ds, c)
<1>1. \A i \in 1 .. MaxTracked : m.slots[i].dec = None
  BY DEF NoSlots, Free
<1>2. Active(m) = {}
  BY <1>1 DEF Active
<1> QED  BY <1>2 DEF Locked, OneEach, Tuned

LEMMA Empties ==
    ASSUME NEW m \in Scanner
    PROVE  /\ ClearBand(m) = [m EXCEPT !.mem = {}, !.slots = NoSlots] /\ ClearBand(m) \in Scanner
           /\ Release(m) \in Scanner /\ Release(m).slots = NoSlots
           /\ Release(m).running = m.running /\ Release(m).plan = m.plan /\ Release(m).mem = m.mem
           /\ Release(m).state = m.state /\ Release(m).started = m.started
           /\ Release(m).done = m.done
<1>1. NoSlots \in [1 .. MaxTracked -> [dec : Decs \cup {None}, f : Spectrum]]
  BY BandsTyped DEF NoSlots, Free
<1>2. ClearBand(m) \in Scanner
  BY <1>1 DEF ClearBand, Scanner
<1> DEFINE offs == [d \in Decs |-> IF \E i \in Active(m) : m.slots[i].dec = d /\ d \in decs
                                   THEN 0 ELSE m.offs[d]]
<1>3. m.offs \in [Decs -> Int]
  BY DEF Scanner
<1>4. offs \in [Decs -> Int]
  BY <1>3
<1>5. Release(m) = [m EXCEPT !.slots = NoSlots, !.offs = offs]
  BY DEF Release, Scanner
<1> HIDE DEF offs
<1> QED  BY <1>1, <1>2, <1>4, <1>5 DEF ClearBand, Scanner

LEMMA Retunes ==
    ASSUME NEW m \in Scanner, NEW b \in Bands
    PROVE  LET n == Retune(m, b) IN n \in Scanner /\ Moved(m, n) /\ n.band = b
<1> DEFINE n == Retune(m, b)
<1>1. CASE AlreadyAt(b)
  <2> DEFINE k == [m EXCEPT !.band = b]
  <2>1. k \in Scanner
    BY DEF Scanner
  <2>2. n = [ClearBand(k) EXCEPT !.state = "scanning"]
    BY <1>1 DEF Retune
  <2>3. ClearBand(k) = [k EXCEPT !.mem = {}, !.slots = NoSlots] /\ ClearBand(k) \in Scanner
    BY <2>1, Empties
  <2>4. n \in Scanner /\ n.slots = NoSlots /\ n.mem = {} /\ n.state = "scanning"
        /\ n.running = m.running /\ n.plan = m.plan /\ n.band = b
        /\ n.started = m.started /\ n.done = m.done
    BY <2>2, <2>3 DEF Scanner
  <2> QED  BY <2>4, NothingIn DEF Moved
<1>2. CASE ~AlreadyAt(b)
  <2> DEFINE r == Release(m)
  <2>1. n = [r EXCEPT !.band = b, !.state = "retuning", !.started = FALSE, !.done = FALSE]
    BY <1>2 DEF Retune
  <2>2. r \in Scanner /\ r.slots = NoSlots /\ r.running = m.running /\ r.plan = m.plan
        /\ r.mem = m.mem
    BY Empties
  <2> HIDE DEF r
  <2>3. n \in Scanner /\ n.slots = NoSlots /\ n.mem = m.mem /\ n.state = "retuning"
        /\ n.running = m.running /\ n.plan = m.plan /\ n.band = b /\ ~n.started /\ ~n.done
    BY <2>1, <2>2 DEF Scanner
  <2> QED  BY <2>3, NothingIn DEF Moved
<1> QED  BY <1>1, <1>2

\* A scan over bands has a plan.
Planned(m) == m.plan > 0 => m.band < m.plan

LEMMA Advances ==
    ASSUME NEW m \in Scanner, Planned(m)
    PROVE  LET n == Advance(m) IN
           /\ n \in Scanner /\ Planned(n)
           /\ m.plan = 0 => n = m
           /\ m.plan # 0 => Moved(m, n)
<1>1. m.plan \in 0 .. MaxBands /\ m.band \in Bands /\ m.band \in Nat /\ MaxBands \in Nat
  BY BandsTyped DEF Scanner
<1>2. CASE m.plan = 0
  BY <1>2 DEF Advance
<1>3. CASE m.plan # 0
  <2>1. m.plan \in Nat \ {0}
    BY <1>1, <1>3
  <2> DEFINE p == m.plan
             b == m.band + 1
  <2>2. p \in Nat \ {0} /\ b \in Nat /\ p <= MaxBands
    BY <1>1, <2>1
  <2> HIDE DEF p, b
  <2>3. b % p \in 0 .. p - 1
    BY <2>2
  <2>4. b % p \in Bands /\ b % p < p
    BY <1>1, <2>2, <2>3 DEF Bands
  <2>5. NextBand(m) = b % p
    BY DEF NextBand, b, p
  <2>6. NextBand(m) \in Bands /\ NextBand(m) < m.plan
    BY <2>4, <2>5 DEF p
  <2>7. Advance(m) = Retune(m, NextBand(m))
    BY <1>3 DEF Advance
  <2> QED  BY <1>3, <2>6, <2>7, Retunes DEF Moved, Planned
<1> QED  BY <1>2, <1>3

-----------------------------------------------------------------------------
(* Types, and what a poll does.                                                *)

ScannerStates == {"idle", "scanning", "dwelling", "retuning"}
Average == [band : Bands, pure : BOOLEAN]

LocksTyped ==
    /\ opt \in [wide : BOOLEAN, range : 0 .. MaxBands, decay : BOOLEAN]
    /\ me \in Scanner /\ Planned(me)
    /\ thread \in [pc : {"none", "top", "poll"}, copy : Average, centre : Centres, old : BOOLEAN,
                   state : ScannerStates, paused : BOOLEAN]
    /\ who \in {"idle", "joining"} /\ decs \in (SUBSET Decs) \ {{}}
    /\ cmd \in Bands \cup {None}
    /\ heim \in [band : Bands, cal : {"cool", "work", "pause", "done", "pulse"}]
    /\ seen \in [noise : BOOLEAN, low : BOOLEAN, centre : Centres]
    /\ fft \in [avg : Average, valid : BOOLEAN, pending : BOOLEAN, stale : BOOLEAN]
    /\ timer \in [quiet : {"new", "polled", "over"}, hold : BOOLEAN, wait : BOOLEAN, late : BOOLEAN]
    /\ air \in [Bands -> SUBSET Positions] /\ InAir(air) \subseteq aired
    /\ trusted \in BOOLEAN
    /\ budget \in [commands : 0 .. MaxScanCommands, faults : 0 .. MaxFaults]

\* The commands that start and stop the thread.  What a poll under way acts on is
\* still so, unless a stop has come.
Polling(states) == thread.pc = "poll" /\ thread.state \in states
Stopping ==
    /\ who = "joining" => ~me.running
    /\ me.running => Alive /\ me.state # "idle"
    /\ ~me.running /\ who = "idle" => Active(me) = {} /\ me.mem = {} /\ ~Alive
    /\ thread.pc = "poll" => IF me.running THEN me.state = thread.state ELSE me.state = "idle"
    /\ me.done => me.started

LEMMA DetectedTyped ==
    ASSUME LocksTyped, NEW found \in Detected
    PROVE  found \in SUBSET Spectrum
<1>1. PICK ps \in Found : found = {thread.centre + p : p \in ps}
  BY DEF Detected
<1>2. ps \in SUBSET Positions
  BY <1>1 DEF LocksTyped, Average, Found
<1>3. PICK b \in Bands : thread.centre = Centre(b)
  BY DEF LocksTyped, Centres
<1> QED  BY <1>1, <1>2, <1>3, InBand

LEMMA LockedTyped ==
    ASSUME NEW m \in Scanner
    PROVE  Locked(m) \in SUBSET Spectrum
<1>1. \A i \in 1 .. MaxTracked : m.slots[i].f \in Spectrum
  BY DEF Scanner
<1> QED  BY <1>1 DEF Locked, Active

\* What a scanner keeps of what it has tuned and remembered, and what it has found.
Gathers(m, n, found) ==
    /\ Locked(n) \cup n.mem \subseteq Locked(m) \cup m.mem \cup found
    /\ OneEach(m) => /\ OneEach(n)
                     /\ \A ds : Tuned(m, ds, thread.centre) => Tuned(n, ds, thread.centre)
Tells0 == cmd' = cmd /\ seen' = seen
Sent == cmd' \in Bands /\ seen' = [seen EXCEPT !.centre = Centre(cmd')]

\* A poll while the band is scanned.
Remains == /\ Tells0 /\ me'.started = me.started /\ me'.done = me.done
           /\ me'.state = me.state \/ me'.state \in Sweeping
Goes == /\ Active(me') = {} /\ me'.state \in {"scanning", "retuning"}
        /\ me'.state = "scanning" => /\ Tells0 /\ me'.started = me.started
                                    /\ me'.done = me.done
        /\ me'.state = "retuning" => Sent /\ ~me'.started /\ ~me'.done
SweepPoll == \/ Pauses \/ Waits \/ Tunes \/ FindsNothing \/ NothingTuned \/ Dwells \/ DwellIsOver
Kept(n) == n \in Scanner /\ Planned(n) /\ n.running = me.running /\ n.plan = me.plan
Swept == /\ Kept(me') /\ thread.state \in Sweeping /\ ~Calibrating
         /\ \E found \in Heard : Gathers(me, me', found)
         /\ Remains \/ Goes

LEMMA GathersAlike ==
    ASSUME NEW m, NEW n, n.slots = m.slots, n.offs = m.offs, n.mem = m.mem
    PROVE  Gathers(m, n, {})
<1>1. Active(n) = Active(m) /\ Locked(n) = Locked(m)
  BY DEF Active, Locked
<1> QED  BY <1>1 DEF Gathers, OneEach, Tuned

LEMMA GathersNone ==
    ASSUME NEW m, NEW n, Active(n) = {}, n.mem \subseteq m.mem
    PROVE  Gathers(m, n, {})
BY DEF Gathers, OneEach, Tuned, Locked

LEMMA GathersOn ==
    ASSUME NEW l, NEW m, NEW n, NEW F, NEW S, Gathers(l, m, F), Gathers(m, n, S),
           S \subseteq Locked(l) \cup l.mem \cup F
    PROVE  Gathers(l, n, F)
<1>1. OneEach(l) => OneEach(n) /\ \A ds : Tuned(l, ds, thread.centre) => Tuned(n, ds, thread.centre)
  BY DEF Gathers
<1>2. Locked(n) \cup n.mem \subseteq Locked(l) \cup l.mem \cup F
  BY DEF Gathers
<1> QED  BY <1>1, <1>2 DEF Gathers

\* What is remembered comes from what is found, was remembered or is tuned.
LEMMA Keeping ==
    ASSUME LocksTyped, NEW found \in SUBSET Spectrum, NEW kept,
           kept \in Remember(me, found) \/ kept \in Keeps(me, found)
    PROVE  LET m == [me EXCEPT !.mem = kept] IN
           /\ Kept(m) /\ m.mem = kept /\ kept \subseteq Locked(me) \cup me.mem \cup found
           /\ m.slots = me.slots /\ m.state = me.state /\ m.started = me.started /\ m.done = me.done
           /\ Gathers(me, m, found)
<1> DEFINE m == [me EXCEPT !.mem = kept]
           more == [me EXCEPT !.mem = @ \cup Locked(me)]
<1>0. me \in Scanner /\ Locked(me) \in SUBSET Spectrum
  BY LockedTyped DEF LocksTyped
<1>1. more.mem = me.mem \cup Locked(me)
  BY <1>0 DEF Scanner
<1>2. kept \subseteq Locked(me) \cup me.mem \cup found
  <2>1. CASE kept \in Remember(me, found)
    BY <2>1 DEF Remember
  <2>2. CASE kept \in Keeps(me, found)
    BY <2>2, <1>1 DEF Keeps, Remember
  <2> QED  BY <2>1, <2>2
<1>3. kept \in SUBSET Spectrum
  BY <1>0, <1>2 DEF Scanner
<1>4. /\ m \in Scanner /\ m.mem = kept /\ m.slots = me.slots /\ m.offs = me.offs
      /\ m.state = me.state /\ m.started = me.started /\ m.done = me.done
      /\ m.running = me.running /\ m.plan = me.plan /\ m.band = me.band
  BY <1>0, <1>3 DEF Scanner
<1> HIDE DEF m
<1>5. Active(m) = Active(me) /\ Locked(m) = Locked(me)
  BY <1>4 DEF Active, Locked
<1>6. Gathers(me, m, found)
  BY <1>2, <1>4, <1>5 DEF Gathers, OneEach, Tuned
<1> QED  BY <1>2, <1>4, <1>6 DEF Kept, LocksTyped, Planned, m

\* The scan goes on to the next band, if there is a plan.
LEMMA GoingOn ==
    ASSUME LocksTyped, NEW m, Kept(m), m.state = me.state, m.state # "retuning",
           m.started = me.started, m.done = me.done, NEW n,
           n \in {Advance(m), [Advance(m) EXCEPT !.empty = 0]}
    PROVE  /\ Kept(n) /\ Gathers(m, n, {})
           /\ \A l : l.state = me.state /\ Tells(l, n) => me' = n /\ (Remains \/ Goes)
<1> DEFINE a == Advance(m)
<1>1. m \in Scanner /\ Planned(m) /\ m.running = me.running /\ m.plan = me.plan
  BY DEF Kept
<1>2. a \in Scanner /\ Planned(a) /\ (m.plan = 0 => a = m) /\ (m.plan # 0 => Moved(m, a))
  BY <1>1, Advances
<1> HIDE DEF a
<1>3. /\ n \in Scanner /\ Planned(n) /\ n.slots = a.slots /\ n.offs = a.offs /\ n.mem = a.mem
      /\ n.state = a.state /\ n.started = a.started /\ n.done = a.done
      /\ n.running = a.running /\ n.plan = a.plan /\ n.band = a.band
  <2>1. n = a \/ n = [a EXCEPT !.empty = 0]
    BY DEF a
  <2>2. 0 \in 0 .. MaxEmpty
    BY BandsTyped
  <2> QED  BY <1>2, <2>1, <2>2 DEF Scanner, Planned
<1>4. Active(n) = Active(a)
  BY <1>3 DEF Active
<1>5. Kept(n)
  BY <1>1, <1>2, <1>3 DEF Kept, Moved
<1>6. Gathers(m, n, {})
  <2>1. CASE m.plan = 0
    BY <1>2, <1>3, <2>1, GathersAlike
  <2>2. CASE m.plan # 0
    BY <1>2, <1>3, <1>4, <2>2, GathersNone DEF Moved
  <2> QED  BY <2>1, <2>2
<1>7. ASSUME NEW l, l.state = me.state, Tells(l, n) PROVE me' = n /\ (Remains \/ Goes)
  <2>1. me' = n /\ n.band \in Bands
    BY <1>3, <1>7 DEF Tells, Scanner
  <2>2. n.state = "retuning" => Sent
    BY <1>7, <2>1 DEF Tells, Sends, Sent
  <2>3. n.state # "retuning" => Tells0
    BY <1>7, <2>1 DEF Tells, Sends, Tells0
  <2>4. CASE m.plan = 0
    BY <1>2, <1>3, <2>1, <2>3, <2>4 DEF Remains
  <2>5. CASE m.plan # 0
    BY <1>2, <1>3, <1>4, <2>1, <2>2, <2>3, <2>5 DEF Goes, Moved
  <2> QED  BY <2>4, <2>5
<1> QED  BY <1>5, <1>6, <1>7

LEMMA Smallest ==
    ASSUME NEW a \in Nat, NEW b \in Nat
    PROVE  Smaller(a, b) \in Nat /\ Smaller(a, b) <= a /\ Smaller(a, b) <= b
BY DEF Smaller

\* Signals that are found, or remembered, are tuned to.
LEMMA Tuning1 ==
    ASSUME LocksTyped, NEW m, Kept(m), NEW S \in SUBSET Spectrum, NEW from \in Nat \ {0},
           NEW n \in Nat, n <= Cardinality(decs), n > 0 => S # {}, NEW state \in Sweeping \cup {m.state}
    PROVE  LET t == TuneAll(m, Sorted(S), from, n, thread.centre)
               u == [t EXCEPT !.state = state, !.empty = 0] IN
           /\ Kept(u) /\ u.state = state /\ u.started = m.started /\ u.done = m.done
           /\ Gathers(m, u, S)
<1> DEFINE t == TuneAll(m, Sorted(S), from, n, thread.centre)
           u == [t EXCEPT !.state = state, !.empty = 0]
<1>1. m \in Scanner /\ decs \subseteq Decs /\ thread.centre \in Nat
  BY InBand DEF LocksTyped, Centres, Kept
<1>2. /\ t \in Scanner /\ Alike(m, t) /\ Locked(t) \subseteq Locked(m) \cup S
      /\ OneEach(m) => /\ OneEach(t)
                       /\ \A ds : Tuned(m, ds, thread.centre) => Tuned(t, ds, thread.centre)
  BY <1>1, TuneAllKeeps
<1> HIDE DEF t
<1>3. 0 \in 0 .. MaxEmpty /\ state \in ScannerStates
  BY <1>1, BandsTyped DEF Sweeping, ScannerStates, Scanner
<1>4. /\ u \in Scanner /\ u.slots = t.slots /\ u.offs = t.offs /\ u.mem = t.mem /\ u.state = state
      /\ u.started = t.started /\ u.done = t.done
      /\ u.running = t.running /\ u.plan = t.plan /\ u.band = t.band
  BY <1>2, <1>3 DEF Scanner, ScannerStates
<1>5. Kept(u) /\ u.started = m.started /\ u.done = m.done
  BY <1>2, <1>4 DEF Kept, Alike, Planned
<1>6. Gathers(m, t, S)
  BY <1>2 DEF Gathers, Alike
<1>7. Gathers(t, u, {})
  BY <1>4, GathersAlike
<1>8. Gathers(m, u, S)
  BY <1>6, <1>7, GathersOn
<1> QED  BY <1>4, <1>5, <1>8 DEF t

\* A poll that is not under way for a retune.
LEMMA Pauser ==
    ASSUME LocksTyped, Pauses \/ Waits
    PROVE  /\ me' = me /\ Tells0 /\ thread.state # "retuning"
           /\ \E waits \in BOOLEAN : Polled(FALSE, waits)
<1>1. timer.wait \in BOOLEAN
  BY DEF LocksTyped
<1> QED  BY <1>1 DEF Pauses, Waits, Still, Tells0, Calibrating

LEMMA Tuner ==
    ASSUME LocksTyped, Stopping, Tunes
    PROVE  Swept /\ Polled(FALSE, TRUE)
<1>1. thread.state = "scanning" /\ ~Calibrating /\ Ready /\ cmd' = cmd /\ seen' = seen
      /\ Polled(FALSE, TRUE)
  BY DEF Tunes
<1>a. PICK found \in Detected \ {{}} : \E kept \in Remember(me, found) :
        LET m == [me EXCEPT !.mem = kept]
            n == Smaller(Cardinality(found), Cardinality(decs))
        IN  me' = IF n = 0 THEN m
                  ELSE [TuneAll(m, Sorted(found), 1, n, thread.centre)
                         EXCEPT !.state = "dwelling", !.empty = 0]
  BY DEF Tunes
<1>2. PICK kept \in Remember(me, found) :
        LET m == [me EXCEPT !.mem = kept]
            n == Smaller(Cardinality(found), Cardinality(decs))
        IN  me' = IF n = 0 THEN m
                  ELSE [TuneAll(m, Sorted(found), 1, n, thread.centre)
                         EXCEPT !.state = "dwelling", !.empty = 0]
  BY <1>a
<1> DEFINE m == [me EXCEPT !.mem = kept]
           n == Smaller(Cardinality(found), Cardinality(decs))
<1>3. found \in SUBSET Spectrum /\ found \in Heard
  BY <1>1, <1>a, DetectedTyped DEF Heard
<1>4. /\ Kept(m) /\ m.state = me.state /\ m.started = me.started /\ m.done = me.done
      /\ Gathers(me, m, found)
  BY <1>2, <1>3, Keeping
<1>5. Cardinality(found) \in Nat /\ Cardinality(decs) \in Nat
  <2>1. IsFiniteSet(decs)
    BY BandsTyped, FS_Subset DEF LocksTyped
  <2> QED  BY <1>3, <2>1, SpectrumFinite, FS_CardinalityType
<1>6. n \in Nat /\ n <= Cardinality(decs)
  BY <1>5, Smallest
<1>7. me' = IF n = 0 THEN m ELSE [TuneAll(m, Sorted(found), 1, n, thread.centre)
                                    EXCEPT !.state = "dwelling", !.empty = 0]
  BY <1>2
<1> HIDE DEF m, n
<1>8. CASE n = 0
  BY <1>1, <1>3, <1>4, <1>7, <1>8 DEF Swept, Remains, Tells0, Sweeping
<1>9. CASE n # 0
  <2> DEFINE u == [TuneAll(m, Sorted(found), 1, n, thread.centre)
                     EXCEPT !.state = "dwelling", !.empty = 0]
  <2>1. found # {} /\ 1 \in Nat \ {0} /\ "dwelling" \in Sweeping \cup {m.state}
    BY <1>a DEF Sweeping
  <2>2. /\ Kept(u) /\ u.state = "dwelling" /\ u.started = m.started /\ u.done = m.done
        /\ Gathers(m, u, found)
    BY <1>3, <1>4, <1>6, <2>1, Tuning1
  <2>3. me' = u
    BY <1>7, <1>9
  <2> HIDE DEF u
  <2>4. Gathers(me, u, found)
    BY <1>4, <2>2, GathersOn
  <2> QED  BY <1>1, <1>3, <1>4, <2>2, <2>3, <2>4 DEF Swept, Remains, Tells0, Sweeping
<1> QED  BY <1>1, <1>8, <1>9

LEMMA NotRetuning ==
    ASSUME Stopping, Polling(Sweeping)
    PROVE  me.state # "retuning"
BY DEF Stopping, Polling, Sweeping

LEMMA FindsNoSignal ==
    ASSUME LocksTyped, Stopping, FindsNothing
    PROVE  Swept /\ Polled(FALSE, timer.wait)
<1>1. /\ thread.state = "scanning" /\ ~Calibrating /\ Ready /\ {} \in Detected
      /\ Polled(FALSE, timer.wait)
  BY DEF FindsNothing
<1>2. PICK kept \in Remember(me, {}) :
        LET m == [me EXCEPT !.mem = kept] IN
        IF ~opt.wide THEN Tells(me, m)
        ELSE IF me.empty < MaxEmpty THEN Tells(me, [m EXCEPT !.empty = @ + 1])
        ELSE Tells(m, [Advance(m) EXCEPT !.empty = 0])
  BY DEF FindsNothing
<1> DEFINE m == [me EXCEPT !.mem = kept]
<1>3. {} \in SUBSET Spectrum /\ {} \in Heard
  BY <1>1 DEF Heard
<1>4. /\ Kept(m) /\ m.state = me.state /\ m.started = me.started /\ m.done = me.done
      /\ Gathers(me, m, {})
  BY <1>2, <1>3, Keeping
<1>5. me.state # "retuning"
  BY <1>1, NotRetuning DEF Polled, Polling, Sweeping
<1>6. \/ ~opt.wide /\ Tells(me, m)
      \/ me.empty < MaxEmpty /\ Tells(me, [m EXCEPT !.empty = @ + 1])
      \/ Tells(m, [Advance(m) EXCEPT !.empty = 0])
  BY <1>2
<1>7. me.empty = m.empty
  BY DEF LocksTyped, Scanner
<1> HIDE DEF m
<1>8. CASE Tells(me, m)
  <2>1. me' = m /\ Tells0
    BY <1>4, <1>5, <1>8 DEF Tells, Sends, Tells0
  <2> QED  BY <1>1, <1>3, <1>4, <2>1 DEF Swept, Remains, Sweeping
<1>9. CASE me.empty < MaxEmpty /\ Tells(me, [m EXCEPT !.empty = @ + 1])
  <2> DEFINE n == [m EXCEPT !.empty = @ + 1]
  <2>1. m.empty + 1 \in 0 .. MaxEmpty
    BY <1>4, <1>7, <1>9, BandsTyped DEF Kept, Scanner
  <2>2. /\ n \in Scanner /\ n.slots = m.slots /\ n.offs = m.offs /\ n.mem = m.mem /\ n.state = m.state
        /\ n.started = m.started /\ n.done = m.done /\ n.running = m.running /\ n.plan = m.plan
        /\ n.band = m.band
    BY <1>4, <2>1 DEF Kept, Scanner
  <2> HIDE DEF n
  <2>3. me' = n /\ Tells0
    BY <1>4, <1>5, <1>9, <2>2 DEF Tells, Sends, Tells0, n
  <2>4. Gathers(me, n, {})
    BY <1>4, <2>2, GathersAlike, GathersOn
  <2>5. Kept(n)
    BY <1>4, <2>2 DEF Kept, Planned
  <2> QED  BY <1>1, <1>3, <1>4, <2>2, <2>3, <2>4, <2>5 DEF Swept, Remains, Sweeping
<1>10. CASE Tells(m, [Advance(m) EXCEPT !.empty = 0])
  <2> DEFINE n == [Advance(m) EXCEPT !.empty = 0]
  <2>1. n \in {Advance(m), [Advance(m) EXCEPT !.empty = 0]}
    OBVIOUS
  <2> HIDE DEF n
  <2>2. m.state # "retuning"
    BY <1>4, <1>5
  <2>3. /\ Kept(n) /\ Gathers(m, n, {})
        /\ \A l : l.state = me.state /\ Tells(l, n) => me' = n /\ (Remains \/ Goes)
    BY <1>4, <2>1, <2>2, GoingOn
  <2>4. me' = n /\ (Remains \/ Goes)
    BY <1>4, <1>10, <2>3 DEF n
  <2>5. Gathers(me, n, {})
    BY <1>4, <2>3, GathersOn
  <2> QED  BY <1>1, <1>3, <2>3, <2>4, <2>5 DEF Swept, Sweeping
<1> QED  BY <1>1, <1>6, <1>8, <1>9, <1>10

LEMMA FindsNoneTuned ==
    ASSUME LocksTyped, Stopping, NothingTuned
    PROVE  Swept /\ Polled(FALSE, timer.wait)
<1>1. /\ thread.state = "dwelling" /\ ~Calibrating /\ Polled(FALSE, timer.wait)
      /\ cmd' = cmd /\ seen' = seen
  BY DEF NothingTuned
<1>2. PICK found \in Heard : \E kept \in Keeps(me, found) :
        me' = [me EXCEPT !.state = "scanning", !.mem = kept]
  BY DEF NothingTuned
<1>3. PICK kept \in Keeps(me, found) : me' = [me EXCEPT !.state = "scanning", !.mem = kept]
  BY <1>2
<1> DEFINE m == [me EXCEPT !.mem = kept]
           n == [m EXCEPT !.state = "scanning"]
<1>4. found \in SUBSET Spectrum
  BY DetectedTyped DEF Heard
<1>5. Kept(m) /\ m.started = me.started /\ m.done = me.done /\ Gathers(me, m, found)
  BY <1>3, <1>4, Keeping
<1>6. me' = n
  BY <1>3
<1> HIDE DEF m
<1>7. /\ n \in Scanner /\ n.slots = m.slots /\ n.offs = m.offs /\ n.mem = m.mem
      /\ n.state = "scanning" /\ n.started = m.started /\ n.done = m.done
      /\ n.running = m.running /\ n.plan = m.plan /\ n.band = m.band
  BY <1>5 DEF Kept, Scanner
<1> HIDE DEF n
<1>8. Gathers(me, n, found)
  BY <1>5, <1>7, GathersAlike, GathersOn
<1> QED  BY <1>1, <1>2, <1>5, <1>6, <1>7, <1>8 DEF Swept, Kept, Planned, Remains, Tells0, Sweeping

LEMMA Dweller ==
    ASSUME LocksTyped, Stopping, Dwells
    PROVE  Swept /\ Polled(FALSE, TRUE)
<1>1. /\ thread.state = "dwelling" /\ ~Calibrating /\ Polled(FALSE, TRUE)
      /\ cmd' = cmd /\ seen' = seen
  BY DEF Dwells
<1>2. PICK found \in Heard : \E kept \in Keeps(me, found) : me' = [me EXCEPT !.mem = kept]
  BY DEF Dwells
<1>3. PICK kept \in Keeps(me, found) : me' = [me EXCEPT !.mem = kept]
  BY <1>2
<1>4. found \in SUBSET Spectrum
  BY DetectedTyped DEF Heard
<1>5. /\ Kept(me') /\ me'.state = me.state /\ me'.started = me.started /\ me'.done = me.done
      /\ Gathers(me, me', found)
  BY <1>3, <1>4, Keeping
<1> QED  BY <1>1, <1>2, <1>5 DEF Swept, Remains, Tells0, Sweeping

\* The sweep of the signals goes on, or the scan to the next band.
LEMMA Sweeps ==
    ASSUME LocksTyped, NEW m, Kept(m), m.state = me.state, m.state # "retuning",
           m.started = me.started, m.done = me.done,
           NEW S \in SUBSET Spectrum, S # {}, Tells(m, SweepOn(m, Sorted(S)))
    PROVE  Kept(me') /\ Gathers(m, me', S) /\ (Remains \/ Goes)
<1> DEFINE list == Sorted(S)
           n == Smaller(Smaller(Len(list), Cardinality(decs)), 3)
           later == NextIn(list, Highest(m))
           from == IF later = {} THEN 1 ELSE LeastOf(later)
           t == TuneAll(m, list, from, n, thread.centre)
           u == [t EXCEPT !.empty = 0]
           a == [Advance(m) EXCEPT !.empty = 0]
<1>0. m.state # "retuning"
  OBVIOUS
<1>1. S \in SUBSET Nat /\ IsFiniteSet(S)
  BY SpectrumFinite
<1>2. Len(list) \in Nat /\ DOMAIN list = 1 .. Len(list)
  BY <1>1, SortedLists
<1>3. later \in SUBSET (1 .. Len(list))
  BY <1>2 DEF NextIn
<1>4. from \in Nat \ {0}
  <2>1. CASE later = {}
    BY <2>1
  <2>2. CASE later # {}
    <3> HIDE DEF later
    <3>1. later \in SUBSET Nat
      BY <1>2, <1>3
    <3>2. LeastOf(later) \in later
      BY <2>2, <3>1, LeastIs DEF LeastOf
    <3>3. from = LeastOf(later)
      BY <2>2
    <3> DEFINE l == Len(list)
    <3>4. later \in SUBSET (1 .. l) /\ l \in Nat
      BY <1>2, <1>3
    <3> HIDE DEF l, from
    <3>5. LeastOf(later) \in 1 .. l
      BY <3>2, <3>4
    <3>6. LeastOf(later) \in Nat \ {0}
      BY <3>4, <3>5
    <3> QED  BY <3>3, <3>6
  <2> QED  BY <2>1, <2>2
<1>5. Cardinality(decs) \in Nat
  <2>1. IsFiniteSet(decs)
    BY BandsTyped, FS_Subset DEF LocksTyped
  <2> QED  BY <2>1, FS_CardinalityType
<1>6. n \in Nat /\ n <= Cardinality(decs)
  <2> DEFINE l == Smaller(Len(list), Cardinality(decs))
  <2>1. l \in Nat /\ l <= Cardinality(decs)
    BY <1>2, <1>5, Smallest
  <2> HIDE DEF l
  <2>2. Smaller(l, 3) \in Nat /\ Smaller(l, 3) <= l
    BY <2>1, Smallest
  <2> QED  BY <1>5, <2>1, <2>2 DEF l
<1>7. SweepOn(m, list) \in {a, u}
  BY DEF SweepOn
<1> HIDE DEF list, from, n, later
<1>8. CASE SweepOn(m, list) = a
  <2>1. a \in {Advance(m), [Advance(m) EXCEPT !.empty = 0]}
    OBVIOUS
  <2>2. Tells(m, a)
    BY <1>8 DEF list
  <2> HIDE DEF a
  <2>3. Kept(a) /\ Gathers(m, a, {}) /\ me' = a /\ (Remains \/ Goes)
    BY <1>0, <2>1, <2>2, GoingOn
  <2> QED  BY <2>3 DEF Gathers
<1>9. CASE SweepOn(m, list) = u
  <2>1. Tells(m, u)
    BY <1>9 DEF list
  <2> DEFINE s == m.state
             v == [t EXCEPT !.state = s, !.empty = 0]
  <2>2. s \in Sweeping \cup {m.state}
    OBVIOUS
  <2>3. /\ Kept(v) /\ v.state = s /\ v.started = m.started /\ v.done = m.done
        /\ Gathers(m, v, S)
    BY <1>4, <1>6, <2>2, Tuning1 DEF list
  <2>4. t \in Scanner /\ t.state = s
    <3>1. m \in Scanner /\ decs \subseteq Decs /\ thread.centre \in Nat
      BY InBand DEF LocksTyped, Centres, Kept
    <3>2. t \in Scanner /\ Alike(m, t)
      BY <1>4, <1>6, <3>1, TuneAllKeeps DEF list
    <3> QED  BY <3>2 DEF Alike
  <2> HIDE DEF s, t
  <2>5. u = v
    BY <2>4 DEF Scanner
  <2>6. me' = u
    BY <2>1 DEF Tells
  <2> HIDE DEF u, v
  <2>7. s # "retuning" /\ s = me.state
    BY <1>0 DEF s
  <2>8. Tells0
    BY <2>1, <2>3, <2>5, <2>7 DEF Tells, Sends, Tells0
  <2> QED  BY <2>3, <2>5, <2>6, <2>7, <2>8 DEF Remains
<1> QED  BY <1>7, <1>8, <1>9

\* Nothing is left of the signals.
LEMMA Fading ==
    ASSUME LocksTyped, NEW m, Kept(m), m.state = me.state, m.state # "retuning",
           m.started = me.started, m.done = me.done, Tells(m, Fades(m))
    PROVE  Kept(me') /\ Gathers(m, me', {}) /\ (Remains \/ Goes)
<1> DEFINE more == [m EXCEPT !.empty = @ + 1]
           f == [m EXCEPT !.slots = NoSlots, !.empty = 0]
           g == [f EXCEPT !.state = "scanning"]
<1>0. m \in Scanner /\ m.state # "retuning" /\ Planned(m)
  BY DEF Kept
<1>1. m.empty \in 0 .. MaxEmpty /\ MaxEmpty \in Nat
  BY <1>0, BandsTyped DEF Scanner
<1>2. CASE m.empty < MaxEmpty
  <2>1. me' = more /\ Tells(m, more)
    BY <1>2 DEF Fades, Tells
  <2>2. m.empty + 1 \in 0 .. MaxEmpty
    BY <1>1, <1>2
  <2>3. /\ more \in Scanner /\ more.slots = m.slots /\ more.offs = m.offs /\ more.mem = m.mem
        /\ more.state = m.state /\ more.started = m.started /\ more.done = m.done
        /\ more.running = m.running /\ more.plan = m.plan /\ more.band = m.band
    BY <1>0, <2>2 DEF Scanner
  <2> HIDE DEF more
  <2>4. Tells0
    BY <1>0, <2>1, <2>3 DEF Tells, Sends, Tells0
  <2>5. Gathers(m, more, {})
    BY <2>3, GathersAlike
  <2> QED  BY <2>1, <2>3, <2>4, <2>5 DEF Kept, Planned, Remains
<1>3. CASE ~(m.empty < MaxEmpty)
  <2>1. NoSlots \in [1 .. MaxTracked -> [dec : Decs \cup {None}, f : Spectrum]]
        /\ 0 \in 0 .. MaxEmpty
    BY BandsTyped DEF NoSlots, Free
  <2>2. /\ f \in Scanner /\ f.slots = NoSlots /\ f.mem = m.mem /\ f.state = m.state
        /\ f.started = m.started /\ f.done = m.done
        /\ f.running = m.running /\ f.plan = m.plan /\ f.band = m.band
    BY <1>0, <2>1 DEF Scanner
  <2>3. Tells(m, IF opt.wide THEN Advance(f) ELSE g)
    BY <1>3 DEF Fades
  <2> HIDE DEF f
  <2>4. Kept(f) /\ Gathers(m, f, {})
    BY <2>2, NothingIn, GathersNone DEF Kept, Planned
  <2>5. CASE opt.wide
    <3> DEFINE a == Advance(f)
    <3>1. a \in {Advance(f), [Advance(f) EXCEPT !.empty = 0]}
      OBVIOUS
    <3>2. Tells(m, a)
      BY <2>3, <2>5
    <3> HIDE DEF a
    <3>3. f.state = me.state /\ f.state # "retuning" /\ f.started = me.started /\ f.done = me.done
      BY <1>0, <2>2
    <3>4. Kept(a) /\ Gathers(f, a, {}) /\ me' = a /\ (Remains \/ Goes)
      BY <2>4, <3>1, <3>2, <3>3, GoingOn
    <3> QED  BY <2>4, <3>4, GathersOn
  <2>6. CASE ~opt.wide
    <3>1. Tells(m, g)
      BY <2>3, <2>6
    <3>2. /\ g \in Scanner /\ g.slots = f.slots /\ g.offs = f.offs /\ g.mem = f.mem
          /\ g.state = "scanning" /\ g.started = f.started /\ g.done = f.done
          /\ g.running = f.running /\ g.plan = f.plan /\ g.band = f.band
      BY <2>2 DEF Scanner
    <3> HIDE DEF g
    <3>3. me' = g /\ Tells0
      BY <1>0, <3>1, <3>2 DEF Tells, Sends, Tells0
    <3>4. Gathers(m, g, {})
      BY <2>4, <3>2, GathersAlike, GathersOn
    <3> QED  BY <2>2, <2>4, <3>2, <3>3, <3>4 DEF Kept, Planned, Remains, Sweeping
  <2> QED  BY <2>5, <2>6
<1> QED  BY <1>2, <1>3

LEMMA DwellOver ==
    ASSUME LocksTyped, Stopping, DwellIsOver
    PROVE  Swept /\ \E waits \in BOOLEAN : Polled(FALSE, waits)
<1>1. /\ thread.state = "dwelling" /\ ~Calibrating /\ thread.pc = "poll" /\ Active(me) # {}
      /\ \E waits \in BOOLEAN : Polled(FALSE, waits)
  BY DEF DwellIsOver, Polled
<1>2. PICK found \in Heard : \E kept \in Keeps(me, found) :
        LET m == [me EXCEPT !.mem = kept]
            list == Sorted(IF kept # {} THEN kept ELSE found) IN
        Tells(m, IF list = <<>> THEN Fades(m) ELSE SweepOn(m, list))
  BY DEF DwellIsOver
<1>3. PICK kept \in Keeps(me, found) :
        LET m == [me EXCEPT !.mem = kept]
            list == Sorted(IF kept # {} THEN kept ELSE found) IN
        Tells(m, IF list = <<>> THEN Fades(m) ELSE SweepOn(m, list))
  BY <1>2
<1> DEFINE m == [me EXCEPT !.mem = kept]
           S == IF kept # {} THEN kept ELSE found
<1>4. found \in SUBSET Spectrum
  BY DetectedTyped DEF Heard
<1>5. /\ Kept(m) /\ m.mem = kept /\ kept \subseteq Locked(me) \cup me.mem \cup found
      /\ m.state = me.state /\ m.started = me.started /\ m.done = me.done
      /\ Gathers(me, m, found)
  BY <1>3, <1>4, Keeping
<1>6. S \in SUBSET Spectrum /\ S \subseteq Locked(me) \cup me.mem \cup found
  BY <1>4, <1>5 DEF Kept, Scanner
<1>7. Tells(m, IF Sorted(S) = <<>> THEN Fades(m) ELSE SweepOn(m, Sorted(S)))
  BY <1>3
<1> HIDE DEF m, S
<1>8. Sorted(S) = <<>> <=> S = {}
  BY <1>6, SpectrumFinite, SortedLists
<1>9. me.state # "retuning"
  BY <1>1, NotRetuning DEF Polling, Sweeping
<1>10. CASE S = {}
  BY <1>7, <1>8, <1>10, <1>5, <1>9, Fading, GathersOn, <1>1, <1>2 DEF Swept, Sweeping
<1>11. CASE S # {}
  BY <1>7, <1>8, <1>11, <1>5, <1>6, <1>9, Sweeps, GathersOn, <1>1, <1>2 DEF Swept, Sweeping
<1> QED  BY <1>10, <1>11

\* A poll while the band is scanned leaves everything or what Swept says.
LEMMA SweepPolls ==
    ASSUME LocksTyped, Stopping, SweepPoll
    PROVE  /\ thread.state # "retuning" /\ thread.pc = "poll"
           /\ \E waits \in BOOLEAN : Polled(FALSE, waits)
           /\ (me' = me /\ Tells0) \/ Swept
<1>1. timer.wait \in BOOLEAN
  BY DEF LocksTyped
<1>2. CASE Pauses \/ Waits
  BY <1>2, Pauser DEF Polled
<1>3. CASE Tunes
  BY <1>3, Tuner DEF Swept, Sweeping, Polled
<1>4. CASE FindsNothing
  BY <1>1, <1>4, FindsNoSignal DEF Swept, Sweeping, Polled
<1>5. CASE NothingTuned
  BY <1>1, <1>5, FindsNoneTuned DEF Swept, Sweeping, Polled
<1>6. CASE Dwells
  BY <1>6, Dweller DEF Swept, Sweeping, Polled
<1>7. CASE DwellIsOver
  BY <1>7, DwellOver DEF Swept, Sweeping, Polled
<1> QED  BY <1>2, <1>3, <1>4, <1>5, <1>6, <1>7 DEF SweepPoll

\* The polls while the scanner awaits a retune.
StillAwaits ==
    /\ me' = me /\ Tells0 /\ (me.done => timer.wait) /\ (timer.late => me.started)
    /\ \E waits \in BOOLEAN : Polled(FALSE, waits) /\ (me.done => waits)
SeesStart ==
    /\ me' = [me EXCEPT !.started = TRUE] /\ Tells0 /\ Polled(FALSE, FALSE)
    /\ seen.noise \/ seen.low
    /\ ~me.started
SeesEnd ==
    /\ me' = [me EXCEPT !.done = TRUE] /\ Tells0 /\ Polled(FALSE, TRUE)
    /\ ~Unsettled /\ me.started /\ ~me.done
GivesItUp ==
    /\ Kept(me') /\ Active(me') = {} /\ me'.mem = {} /\ Polled(FALSE, FALSE)
    /\ timer.late /\ ~me.done
    /\ \/ ~me.started /\ ~seen.noise /\ ~seen.low
       \/ me.started /\ Unsettled
    /\ \/ me'.state = "scanning" /\ Tells0 /\ me'.started = me.started /\ ~me'.done
       \/ me'.state = "retuning" /\ Sent /\ ~me'.started /\ ~me'.done
Arrives ==
    /\ me' = [ClearBand(me) EXCEPT !.state = "scanning", !.empty = 0] /\ Tells0
    /\ Polled(TRUE, FALSE) /\ me.done /\ ~timer.wait

LEMMA GivingUp ==
    ASSUME LocksTyped, ~me.done,
           LET l == [me EXCEPT !.state = "scanning"] IN Tells(l, GivesUp(l))
    PROVE  /\ Kept(me') /\ Active(me') = {} /\ me'.mem = {}
           /\ \/ me'.state = "scanning" /\ Tells0 /\ me'.started = me.started /\ ~me'.done
              \/ me'.state = "retuning" /\ Sent /\ ~me'.started /\ ~me'.done
<1> DEFINE l == [me EXCEPT !.state = "scanning"]
           c == ClearBand(l)
           a == Advance(c)
           n == [a EXCEPT !.empty = 0]
<1>1. /\ l \in Scanner /\ l.state = "scanning" /\ l.started = me.started /\ l.done = me.done
      /\ l.running = me.running /\ l.plan = me.plan /\ l.band = me.band
  BY DEF LocksTyped, Scanner
<1>2. Tells(l, n)
  BY DEF GivesUp
<1> HIDE DEF l
<1>3. c = [l EXCEPT !.mem = {}, !.slots = NoSlots] /\ c \in Scanner
  BY <1>1, Empties
<1>4. /\ c.mem = {} /\ c.slots = NoSlots /\ c.state = "scanning" /\ c.started = me.started
      /\ c.done = me.done /\ c.running = me.running /\ c.plan = me.plan /\ c.band = me.band
  BY <1>1, <1>3 DEF Scanner
<1> HIDE DEF c
<1>5. Planned(c)
  BY <1>4 DEF Planned, LocksTyped
<1>6. a \in Scanner /\ Planned(a) /\ (c.plan = 0 => a = c) /\ (c.plan # 0 => Moved(c, a))
  BY <1>3, <1>5, Advances
<1> HIDE DEF a
<1>7. /\ n \in Scanner /\ Planned(n) /\ n.slots = a.slots /\ n.mem = a.mem
      /\ n.state = a.state /\ n.started = a.started /\ n.done = a.done
      /\ n.running = a.running /\ n.plan = a.plan /\ n.band = a.band
  <2>1. 0 \in 0 .. MaxEmpty
    BY BandsTyped
  <2> QED  BY <1>6, <2>1 DEF Scanner, Planned
<1> HIDE DEF n
<1>8. Active(n) = Active(a) /\ Active(c) = {}
  BY <1>4, <1>7, NothingIn DEF Active
<1>9. Kept(n) /\ Active(n) = {} /\ n.mem = {}
  BY <1>4, <1>6, <1>7, <1>8 DEF Kept, Moved
<1>10. \/ n.state = "scanning" /\ n.started = me.started /\ ~n.done
       \/ n.state = "retuning" /\ ~n.started /\ ~n.done
  BY <1>4, <1>6, <1>7 DEF Moved
<1>11. n.state = "scanning" => me' = n /\ Tells0
  BY <1>1, <1>2 DEF Tells, Sends, Tells0
<1>12. n.state = "retuning" => me' = n /\ Sent
  <2>1. n.band \in Bands
    BY <1>7 DEF Scanner
  <2> QED  BY <1>1, <1>2, <2>1 DEF Tells, Sends, Sent
<1> QED  BY <1>9, <1>10, <1>11, <1>12

LEMMA RetunePolls ==
    ASSUME LocksTyped, Stopping, AwaitsStart \/ AwaitsEnd \/ Settles
    PROVE  /\ thread.state = "retuning" /\ thread.pc = "poll"
           /\ StillAwaits \/ SeesStart \/ SeesEnd \/ GivesItUp \/ Arrives
<1>0. thread.state = "retuning" /\ thread.pc = "poll"
  BY DEF AwaitsStart, AwaitsEnd, Settles, Polled
<1>1. me \in Scanner /\ timer.wait \in BOOLEAN
  BY DEF LocksTyped
<1>2. CASE AwaitsStart
  <2>0. ~me.started /\ ~me.done /\ Polled(FALSE, FALSE)
    BY <1>2 DEF AwaitsStart, Stopping
  <2>1. CASE seen.noise \/ seen.low
    BY <1>2, <2>1, <1>1, <1>0, <2>0 DEF AwaitsStart, Scanner, SeesStart, Tells, Sends, Tells0
  <2>2. CASE ~seen.noise /\ ~seen.low /\ timer.late
    <3>1. LET l == [me EXCEPT !.state = "scanning"] IN Tells(l, GivesUp(l))
      BY <1>2, <2>2 DEF AwaitsStart
    <3> QED  BY <1>0, <2>0, <2>2, <3>1, GivingUp DEF GivesItUp
  <2>3. CASE ~seen.noise /\ ~seen.low /\ ~timer.late
    BY <1>0, <1>2, <2>0, <2>3 DEF AwaitsStart, Still, StillAwaits, Tells0
  <2> QED  BY <2>1, <2>2, <2>3
<1>3. CASE AwaitsEnd
  <2>0. me.started /\ ~me.done /\ Polled(FALSE, me'.done)
    BY <1>3 DEF AwaitsEnd
  <2>1. CASE ~Unsettled
    <3> DEFINE n == [me EXCEPT !.done = TRUE]
    <3>1. Tells(me, n)
      BY <1>3, <2>1 DEF AwaitsEnd
    <3>2. n.state = me.state /\ n.done = TRUE
      BY <1>1 DEF Scanner
    <3> HIDE DEF n
    <3>3. me' = n /\ Tells0 /\ Polled(FALSE, TRUE)
      BY <2>0, <3>1, <3>2 DEF Tells, Sends, Tells0
    <3> QED  BY <1>0, <2>0, <2>1, <3>3 DEF SeesEnd, n
  <2>2. CASE Unsettled /\ timer.late
    <3>1. LET l == [me EXCEPT !.state = "scanning"] IN Tells(l, GivesUp(l))
      BY <1>3, <2>2 DEF AwaitsEnd
    <3>2. /\ Kept(me') /\ Active(me') = {} /\ me'.mem = {}
          /\ \/ me'.state = "scanning" /\ Tells0 /\ me'.started = me.started /\ ~me'.done
             \/ me'.state = "retuning" /\ Sent /\ ~me'.started /\ ~me'.done
      BY <2>0, <3>1, GivingUp
    <3>3. me'.done = FALSE
      BY <3>2 DEF Kept, Scanner
    <3>4. Polled(FALSE, FALSE)
      BY <2>0, <3>3
    <3> QED  BY <1>0, <2>0, <2>2, <3>2, <3>4 DEF GivesItUp
  <2>3. CASE Unsettled /\ ~timer.late
    BY <1>0, <1>1, <1>3, <2>0, <2>3 DEF AwaitsEnd, Still, StillAwaits, Tells0, Scanner
  <2> QED  BY <2>1, <2>2, <2>3
<1>4. CASE Settles
  <2>1. CASE timer.wait
    BY <1>0, <1>4, <2>1 DEF Settles, Still, StillAwaits, Tells0, Stopping
  <2>2. CASE ~timer.wait
    <3> DEFINE n == [ClearBand(me) EXCEPT !.state = "scanning", !.empty = 0]
    <3>1. Tells(me, n) /\ Polled(TRUE, FALSE) /\ me.done
      BY <1>4, <2>2 DEF Settles
    <3>2. n.state = "scanning"
      BY <1>1, Empties DEF Scanner
    <3> HIDE DEF n
    <3>3. me' = n /\ Tells0
      BY <3>1, <3>2 DEF Tells, Sends, Tells0
    <3> QED  BY <1>0, <2>2, <3>1, <3>3 DEF Arrives, n
  <2> QED  BY <2>1, <2>2
<1> QED  BY <1>0, <1>2, <1>3, <1>4

-----------------------------------------------------------------------------
(* The types, and who runs.                                                    *)

LEMMA PolledLeaves ==
    ASSUME LocksTyped, NEW afresh \in BOOLEAN, NEW waits \in BOOLEAN, Polled(afresh, waits)
    PROVE  /\ thread' \in [pc : {"none", "top", "poll"}, copy : Average, centre : Centres,
                           old : BOOLEAN, state : ScannerStates, paused : BOOLEAN]
           /\ fft' \in [avg : Average, valid : BOOLEAN, pending : BOOLEAN, stale : BOOLEAN]
           /\ timer' \in [quiet : {"new", "polled", "over"}, hold : BOOLEAN, wait : BOOLEAN,
                          late : BOOLEAN]
           /\ UNCHANGED <<opt, who, decs, heim, air, aired, budget>>
           /\ thread.pc = "poll" /\ thread'.pc = "top" /\ thread'.paused = Calibrating
           /\ fft'.avg = fft.avg /\ fft'.stale = fft.stale
           /\ Resumes \/ afresh => fft'.pending /\ ~fft'.valid /\ timer'.hold
           /\ ~Resumes /\ ~afresh => fft' = fft
           /\ timer.hold => timer'.hold
           /\ timer'.wait = waits
           /\ timer'.late => timer.late /\ cmd' = cmd /\ me'.state = "retuning"
           /\ \/ timer'.quiet = timer.quiet
              \/ timer.quiet = "new" /\ ~Settling /\ timer'.quiet = "polled"
           /\ trusted' = (trusted \/ afresh)
           /\ ~afresh => trusted' = trusted
<1>1. Calibrating \in BOOLEAN
  BY DEF Calibrating
<1>2. NoCopy \in Average /\ 0 \in Centres /\ "idle" \in ScannerStates
  BY BandsTyped DEF NoCopy, Average, ScannerStates
<1>3. thread' = [AtRest EXCEPT !.paused = Calibrating, !.old = thread.old \/ Resumes \/ afresh]
  BY DEF Polled
<1>4. /\ thread' \in [pc : {"none", "top", "poll"}, copy : Average, centre : Centres,
                      old : BOOLEAN, state : ScannerStates, paused : BOOLEAN]
      /\ thread'.pc = "top" /\ thread'.paused = Calibrating
  <2> DEFINE calibrating == Calibrating
             old == thread.old \/ Resumes \/ afresh
  <2>1. calibrating \in BOOLEAN /\ old \in BOOLEAN
    BY <1>1
  <2>2. thread' = [AtRest EXCEPT !.paused = calibrating, !.old = old]
    BY <1>3
  <2> HIDE DEF calibrating, old
  <2>3. /\ thread' \in [pc : {"none", "top", "poll"}, copy : Average, centre : Centres,
                        old : BOOLEAN, state : ScannerStates, paused : BOOLEAN]
        /\ thread'.pc = "top" /\ thread'.paused = calibrating
    BY <1>2, <2>1, <2>2 DEF AtRest, LocksTyped
  <2> QED  BY <2>3 DEF calibrating
<1>5. /\ fft' \in [avg : Average, valid : BOOLEAN, pending : BOOLEAN, stale : BOOLEAN]
      /\ fft'.avg = fft.avg /\ fft'.stale = fft.stale
      /\ Resumes \/ afresh => fft'.pending /\ ~fft'.valid
      /\ ~Resumes /\ ~afresh => fft' = fft
  BY DEF Polled, Reset, LocksTyped
<1>6. /\ timer' \in [quiet : {"new", "polled", "over"}, hold : BOOLEAN, wait : BOOLEAN,
                     late : BOOLEAN]
      /\ Resumes \/ afresh => timer'.hold
      /\ timer.hold => timer'.hold
      /\ timer'.wait = waits
      /\ timer'.late => timer.late /\ cmd' = cmd /\ me'.state = "retuning"
      /\ \/ timer'.quiet = timer.quiet
         \/ timer.quiet = "new" /\ ~Settling /\ timer'.quiet = "polled"
  <2> DEFINE hold == timer.hold \/ Resumes \/ afresh
             quiet == IF timer.quiet = "new" /\ ~Settling THEN "polled" ELSE timer.quiet
             late == timer.late /\ cmd' = cmd /\ me'.state = "retuning"
  <2>1. hold \in BOOLEAN /\ late \in BOOLEAN /\ quiet \in {"new", "polled", "over"}
        /\ timer \in [quiet : {"new", "polled", "over"}, hold : BOOLEAN, wait : BOOLEAN,
                      late : BOOLEAN]
    BY DEF LocksTyped
  <2>2. timer' = [timer EXCEPT !.hold = hold, !.wait = waits, !.quiet = quiet, !.late = late]
    BY DEF Polled
  <2> HIDE DEF hold, quiet, late
  <2>3. /\ timer' \in [quiet : {"new", "polled", "over"}, hold : BOOLEAN, wait : BOOLEAN,
                       late : BOOLEAN]
        /\ timer'.hold = hold /\ timer'.wait = waits /\ timer'.quiet = quiet /\ timer'.late = late
    BY <2>1, <2>2
  <2> QED  BY <2>3 DEF hold, quiet, late
<1>7. UNCHANGED <<opt, who, decs, heim, air, aired, budget>> /\ thread.pc = "poll"
      /\ trusted' = (trusted \/ afresh)
  BY DEF Polled
<1>8. ~afresh => trusted' = trusted
  <2>1. trusted \in BOOLEAN
    BY DEF LocksTyped
  <2> QED  BY <1>7, <2>1
<1> QED  BY <1>4, <1>5, <1>6, <1>7, <1>8

\* What every poll does to the scanner.
LEMMA PollsMe ==
    ASSUME LocksTyped, Stopping, Poll
    PROVE  /\ Kept(me') /\ thread.pc = "poll"
           /\ \E afresh, waits \in BOOLEAN : Polled(afresh, waits)
           /\ Tells0 \/ Sent
           /\ me.running => me'.state # "idle"
           /\ me'.done => me'.started
           /\ OneLockEach => OneLockEach'
<1>0. me \in Scanner /\ Planned(me)
  BY DEF LocksTyped
<1>1. Kept(me) /\ me \in Scanner /\ (me.done => me.started)
  BY DEF Kept, LocksTyped, Stopping
<1>2. me.running /\ thread.pc = "poll" => me.state = thread.state /\ me.state # "idle"
  BY DEF Stopping
<1>3. OneLockEach = OneEach(me) /\ OneLockEach' = OneEach(me')
  BY DEF OneLockEach, OneEach, Active
<1>4. CASE SweepPoll
  <2>1. thread.pc = "poll" /\ (\E waits \in BOOLEAN : Polled(FALSE, waits))
    BY <1>4, SweepPolls
  <2>2. CASE me' = me /\ Tells0
    BY <1>1, <1>2, <1>3, <2>1, <2>2
  <2>3. CASE Swept
    <3>1. Kept(me') /\ OneLockEach => OneLockEach'
      BY <1>3, <2>3 DEF Swept, Gathers
    <3>2. CASE Remains
      BY <1>1, <1>2, <2>1, <2>3, <3>1, <3>2 DEF Swept, Remains, Sweeping
    <3>3. CASE Goes
      BY <3>3, <1>1, <2>1, <2>3 DEF Goes, OneLockEach, Swept
    <3> QED  BY <2>3, <3>2, <3>3 DEF Swept
  <2> QED  BY <1>4, <2>2, <2>3, SweepPolls
<1>5. CASE AwaitsStart \/ AwaitsEnd \/ Settles
  <2>1. thread.pc = "poll" /\ thread.state = "retuning"
    BY <1>5, RetunePolls
  <2>2. CASE StillAwaits
    BY <1>1, <1>2, <1>3, <2>1, <2>2 DEF StillAwaits
  <2>3. CASE SeesStart
    <3>1. /\ me' \in Scanner /\ me'.slots = me.slots /\ me'.state = me.state /\ me'.started = TRUE
          /\ me'.running = me.running /\ me'.plan = me.plan /\ me'.band = me.band
      BY <1>0, <2>3 DEF SeesStart, Scanner
    <3>2. OneLockEach => OneLockEach'
      BY <3>1 DEF OneLockEach, Active
    <3>3. Kept(me')
      BY <1>0, <3>1 DEF Kept, Planned
    <3>4. Tells0 /\ \E waits \in BOOLEAN : Polled(FALSE, waits)
      BY <2>3 DEF SeesStart
    <3>5. me'.done => me'.started
      BY <2>3, <3>1 DEF SeesStart
    <3> QED  BY <1>2, <2>1, <3>1, <3>2, <3>3, <3>4, <3>5
  <2>4. CASE SeesEnd
    <3>1. /\ me' \in Scanner /\ me'.slots = me.slots /\ me'.state = me.state
          /\ me'.started = me.started
          /\ me'.running = me.running /\ me'.plan = me.plan /\ me'.band = me.band
      BY <1>0, <2>4 DEF SeesEnd, Scanner
    <3>2. OneLockEach => OneLockEach'
      BY <3>1 DEF OneLockEach, Active
    <3>3. Kept(me')
      BY <1>0, <3>1 DEF Kept, Planned
    <3>4. Tells0 /\ \E waits \in BOOLEAN : Polled(FALSE, waits)
      BY <2>4 DEF SeesEnd
    <3>5. me'.done => me'.started
      BY <2>4, <3>1 DEF SeesEnd
    <3> QED  BY <1>2, <2>1, <3>1, <3>2, <3>3, <3>4, <3>5
  <2>5. CASE GivesItUp
    BY <2>5, <2>1 DEF GivesItUp, OneLockEach
  <2>6. CASE Arrives
    <3> DEFINE c == ClearBand(me)
    <3>1. c = [me EXCEPT !.mem = {}, !.slots = NoSlots] /\ c \in Scanner /\ 0 \in 0 .. MaxEmpty
      <4>1. 0 \in 0 .. MaxEmpty
        BY BandsTyped
      <4> QED  BY <1>1, <4>1, Empties
    <3>2. /\ c.slots = NoSlots /\ c.started = me.started /\ c.done = me.done
          /\ c.running = me.running /\ c.plan = me.plan /\ c.band = me.band
      BY <1>1, <3>1 DEF Scanner
    <3>3. me' = [c EXCEPT !.state = "scanning", !.empty = 0]
      BY <2>6 DEF Arrives
    <3> HIDE DEF c
    <3>4. /\ me' \in Scanner /\ me'.slots = NoSlots /\ me'.state = "scanning"
          /\ me'.started = me.started /\ me'.done = me.done
          /\ me'.running = me.running /\ me'.plan = me.plan /\ me'.band = me.band
      BY <3>1, <3>2, <3>3 DEF Scanner
    <3>5. OneEach(me')
      BY <3>4, NothingIn
    <3> QED  BY <1>1, <1>3, <2>1, <2>6, <3>4, <3>5 DEF Arrives, Kept, Planned
  <2> QED  BY <1>5, <2>2, <2>3, <2>4, <2>5, <2>6, RetunePolls
<1> QED  BY <1>4, <1>5 DEF Poll, SweepPoll

LEMMA LocksTypedInit == ScannerInit => LocksTyped /\ Stopping /\ OneLockEach
<1> SUFFICES ASSUME ScannerInit PROVE LocksTyped /\ Stopping /\ OneLockEach
  OBVIOUS
<1>1. /\ NoSlots \in [1 .. MaxTracked -> [dec : Decs \cup {None}, f : Spectrum]]
      /\ 0 \in 0 .. MaxBands /\ 0 \in Bands /\ 0 \in 0 .. MaxEmpty /\ MaxBands \in 0 .. MaxBands
      /\ 0 \in Centres /\ Centre(0) \in Centres /\ 0 \in Spectrum
  BY BandsTyped DEF NoSlots, Free
<1>2. LeastOf(Decs) \in Decs
  BY DEF ScannerInit
<1>3. me \in Scanner /\ Planned(me) /\ me.slots = NoSlots /\ me.mem = {}
      /\ ~me.running /\ ~me.done
  BY <1>1, <1>2 DEF ScannerInit, Scanner, Planned
<1>4. Active(me) = {}
  BY <1>3, NothingIn
<1>5. /\ opt \in [wide : BOOLEAN, range : 0 .. MaxBands, decay : BOOLEAN]
      /\ who = "idle" /\ decs \in (SUBSET Decs) \ {{}} /\ cmd = None
      /\ air \in [Bands -> SUBSET Positions] /\ InAir(air) \subseteq aired /\ trusted \in BOOLEAN
      /\ budget \in [commands : 0 .. MaxScanCommands, faults : 0 .. MaxFaults]
  BY ContinuousAssumption, <1>1 DEF ScannerInit
<1>6. thread \in [pc : {"none", "top", "poll"}, copy : Average, centre : Centres,
                  old : BOOLEAN, state : ScannerStates, paused : BOOLEAN] /\ thread.pc = "none"
  BY <1>1 DEF ScannerInit, NoCopy, Average, ScannerStates
<1>7. /\ heim \in [band : Bands, cal : {"cool", "work", "pause", "done", "pulse"}]
      /\ seen \in [noise : BOOLEAN, low : BOOLEAN, centre : Centres]
  BY <1>1 DEF ScannerInit, Flags, Noisy, Low
<1>8. Fresh \in Average
  BY <1>7 DEF Fresh, Average, Noisy
<1>9. /\ fft \in [avg : Average, valid : BOOLEAN, pending : BOOLEAN, stale : BOOLEAN]
      /\ timer \in [quiet : {"new", "polled", "over"}, hold : BOOLEAN, wait : BOOLEAN,
                    late : BOOLEAN]
  BY <1>8 DEF ScannerInit
<1>10. LocksTyped
  BY <1>3, <1>5, <1>6, <1>7, <1>9 DEF LocksTyped
<1> QED  BY <1>3, <1>4, <1>5, <1>6, <1>10 DEF Stopping, Alive, OneLockEach

\* What heimdall, the packets, the air and the clock do leaves the scanner alone.
Around == Heimdall \/ CommandLost \/ CalibrationTurn \/ AirChanges \/ Data \/ Clock

LEMMA AroundTyped ==
    ASSUME LocksTyped, Around
    PROVE  LocksTyped' /\ UNCHANGED <<opt, me, thread, who, decs, trusted>>
<1>0. UNCHANGED <<opt, me, thread, who, decs, trusted>>
  BY DEF Around, Heimdall, CommandLost, CalibrationTurn, AirChanges, Data, Clock, Retuned,
         CalibrationStep, Packet, Frame, StaleFrame, Forgets, QuietPasses, HoldPasses, WaitPasses,
         MinutePasses
<1> DEFINE Heims == [band : Bands, cal : {"cool", "work", "pause", "done", "pulse"}]
           Seens == [noise : BOOLEAN, low : BOOLEAN, centre : Centres]
           Ffts == [avg : Average, valid : BOOLEAN, pending : BOOLEAN, stale : BOOLEAN]
           Timers == [quiet : {"new", "polled", "over"}, hold : BOOLEAN, wait : BOOLEAN,
                      late : BOOLEAN]
           Budgets == [commands : 0 .. MaxScanCommands, faults : 0 .. MaxFaults]
           Others == /\ cmd' \in Bands \cup {None} /\ heim' \in Heims /\ seen' \in Seens
                     /\ fft' \in Ffts /\ timer' \in Timers
                     /\ air' \in [Bands -> SUBSET Positions] /\ InAir(air') \subseteq aired'
                     /\ budget' \in Budgets
<1>1. /\ cmd \in Bands \cup {None} /\ heim \in Heims /\ seen \in Seens
      /\ fft \in Ffts /\ timer \in Timers
      /\ air \in [Bands -> SUBSET Positions] /\ InAir(air) \subseteq aired
      /\ budget \in Budgets
  BY DEF LocksTyped
<1>2. Fault => budget' \in Budgets
  BY <1>1, ContinuousAssumption DEF Fault
<1>3. Flags \in Seens
  BY <1>1, InBand DEF Flags, Noisy, Low
<1>4. Fresh \in Average /\ \A a \in Average : Blended(a) \in Average
  BY <1>1 DEF Fresh, Blended, Average, Noisy
<1>5. \A a \in Average : Averaged(a) \in Ffts /\ [Averaged(a) EXCEPT !.stale = FALSE] \in Ffts
  BY <1>1 DEF Averaged
<1>6. Reset(fft) \in Ffts
  BY <1>1 DEF Reset
<1>7. Others
  <2>1. CASE Retuned
    BY <1>1, <1>6, <2>1 DEF Retuned
  <2>2. CASE CommandLost
    BY <1>1, <1>2, <2>2 DEF CommandLost
  <2>3. CASE CalibrationStep
    BY <1>1, <2>3 DEF CalibrationStep, CalSteps
  <2>4. CASE CalibrationTurn
    BY <1>1, <1>2, <2>4 DEF CalibrationTurn, CalFaults
  <2>5. CASE AirChanges
    BY <1>1, <2>5, <1>2 DEF AirChanges
  <2>6. CASE Packet
    <3>1. seen' \in Seens
      BY <1>3, <2>6 DEF Packet
    <3>2. timer' \in Timers
      BY <1>1, <2>6 DEF Packet
    <3>3. fft' \in Ffts
      <4> DEFINE s == fft.stale \/ seen.noise \/ fft.avg.band # heim.band
      <4>1. fft' = [fft EXCEPT !.stale = s] /\ s \in BOOLEAN
        BY <1>1, <2>6 DEF Packet
      <4> QED  BY <1>1, <4>1
    <3> QED  BY <1>1, <2>6, <3>1, <3>2, <3>3 DEF Packet
  <2>7. CASE Frame \/ StaleFrame
    <3>1. fft.avg \in Average /\ [fft.avg EXCEPT !.pure = FALSE] \in Average
      BY <1>1 DEF Average
    <3>2. Blended(fft.avg) \in Average
      BY <1>4, <3>1
    <3>3. \E a \in Average : fft' = Averaged(a)
      <4>1. CASE Frame
        BY <1>4, <3>2, <4>1 DEF Frame
      <4>2. CASE StaleFrame
        BY <3>1, <4>2 DEF StaleFrame
      <4> QED  BY <2>7, <4>1, <4>2
    <3>4. fft' \in Ffts
      BY <1>5, <3>3
    <3>5. UNCHANGED <<cmd, heim, seen, timer, air, aired, budget>>
      BY <2>7 DEF Frame, StaleFrame
    <3> QED  BY <1>1, <3>4, <3>5
  <2>8. CASE Forgets
    BY <1>1, <1>4, <2>8 DEF Forgets
  <2>9. CASE QuietPasses
    BY <1>1, <2>9 DEF QuietPasses
  <2>10. CASE HoldPasses
    BY <1>1, <2>10 DEF HoldPasses
  <2>11. CASE WaitPasses
    BY <1>1, <2>11 DEF WaitPasses
  <2>12. CASE MinutePasses
    BY <1>1, <1>2, <1>4, <1>5, <2>12 DEF MinutePasses
  <2> QED  BY <2>1, <2>2, <2>3, <2>4, <2>5, <2>6, <2>7, <2>8, <2>9, <2>10, <2>11, <2>12
           DEF Around, Heimdall, Data, Clock
<1> QED  BY <1>0, <1>7 DEF LocksTyped, Planned

\* What the user does to the scanner.
LEMMA Starts ==
    ASSUME LocksTyped, Stopping, Start
    PROVE  /\ LocksTyped' /\ Stopping' /\ Active(me') = {}
           /\ me'.state = "retuning" => ~me'.done
           /\ ~trusted' /\ ~timer'.late /\ thread'.pc = "top"
           /\ timer'.quiet = timer.quiet /\ fft' = fft /\ seen'.noise = seen.noise
<1> DEFINE plan == Plan
           band == IF opt.wide /\ Plan > 0 THEN 0 ELSE me.band
           m == [me EXCEPT !.running = TRUE, !.state = "idle", !.slots = NoSlots, !.mem = {},
                           !.plan = plan, !.empty = 0, !.band = band]
           n == IF opt.wide /\ Plan > 0 THEN Retune(m, 0) ELSE [m EXCEPT !.state = "scanning"]
<1>1. me \in Scanner /\ Planned(me) /\ opt.range \in 0 .. MaxBands /\ MaxBands \in Nat
  BY BandsTyped DEF LocksTyped
<1>2. plan \in 0 .. MaxBands /\ band \in Bands /\ (plan > 0 => band < plan)
  BY <1>1, BandsTyped DEF Plan, Planned, Scanner
<1>3. Tells(m, n)
  BY DEF Start
<1> HIDE DEF plan, band
<1>4. NoSlots \in [1 .. MaxTracked -> [dec : Decs \cup {None}, f : Spectrum]]
      /\ 0 \in 0 .. MaxEmpty /\ 0 \in Bands
  BY BandsTyped DEF NoSlots, Free
<1>5. /\ m \in Scanner /\ m.running /\ m.state = "idle" /\ m.slots = NoSlots /\ m.mem = {}
      /\ m.plan = plan /\ m.band = band /\ m.done = me.done /\ m.started = me.started
  BY <1>1, <1>2, <1>4 DEF Scanner
<1> HIDE DEF m
<1>6. /\ n \in Scanner /\ Planned(n) /\ n.running /\ Active(n) = {}
      /\ n.state \in {"scanning", "retuning"} /\ (n.state = "retuning" => ~n.done)
      /\ n.done => n.started
  <2>0. me.done => me.started
    BY DEF Stopping
  <2>1. CASE opt.wide /\ Plan > 0
    <3>1. n = Retune(m, 0)
      BY <2>1
    <3>2. n \in Scanner /\ Moved(m, n) /\ n.band = 0
      BY <1>4, <1>5, <3>1, Retunes
    <3>3. n.plan > 0 => n.band < n.plan
      BY <1>5, <2>1, <3>2 DEF Moved, plan, Plan
    <3> HIDE DEF n
    <3> QED  BY <1>5, <2>0, <3>2, <3>3 DEF Moved, Planned
  <2>2. CASE ~(opt.wide /\ Plan > 0)
    BY <2>2, <1>5, <1>2, <2>0, NothingIn DEF Scanner, Planned
  <2> QED  BY <2>1, <2>2
<1> HIDE DEF n
<1>7. /\ me' = n /\ cmd' \in Bands \cup {None} /\ seen'.noise = seen.noise
      /\ seen' \in [noise : BOOLEAN, low : BOOLEAN, centre : Centres]
  BY <1>6, <1>3 DEF Scanner, Centres, Tells, LocksTyped
<1>8. /\ thread' = [thread EXCEPT !.pc = "top", !.paused = FALSE]
      /\ timer' = [timer EXCEPT !.hold = FALSE, !.wait = FALSE, !.late = FALSE]
      /\ trusted' = FALSE /\ who = "idle" /\ ~me.running
      /\ UNCHANGED <<opt, who, decs, heim, fft, air, aired>>
      /\ budget.commands > 0 /\ budget' = [budget EXCEPT !.commands = @ - 1]
  BY DEF Start, Obeys
<1>9. /\ thread' \in [pc : {"none", "top", "poll"}, copy : Average, centre : Centres,
                      old : BOOLEAN, state : ScannerStates, paused : BOOLEAN]
      /\ thread'.pc = "top"
      /\ timer' \in [quiet : {"new", "polled", "over"}, hold : BOOLEAN, wait : BOOLEAN,
                     late : BOOLEAN]
      /\ timer'.quiet = timer.quiet /\ ~timer'.late
  BY <1>8 DEF LocksTyped
<1>10. budget' \in [commands : 0 .. MaxScanCommands, faults : 0 .. MaxFaults]
  BY <1>8, ContinuousAssumption DEF LocksTyped
<1>11. LocksTyped'
  BY <1>6, <1>7, <1>8, <1>9, <1>10 DEF LocksTyped, Planned
<1>12. Stopping'
  BY <1>6, <1>7, <1>8, <1>9 DEF Stopping, Alive
<1> QED  BY <1>6, <1>7, <1>8, <1>9, <1>11, <1>12

LEMMA OtherCommands ==
    ASSUME LocksTyped, Stopping, OneLockEach,
           Stop \/ SetWideband \/ (\E n \in 1 .. MaxBands : SetRange(n))
           \/ (\E d \in Decs : RemoveDecimator(d))
    PROVE  /\ LocksTyped' /\ Stopping' /\ OneLockEach'
           /\ UNCHANGED <<thread, cmd, heim, seen, fft, timer, air, aired>>
           /\ me'.slots = me.slots /\ me'.mem = me.mem /\ me'.offs = me.offs
           /\ me'.started = me.started /\ me'.done = me.done
           /\ me'.state = me.state \/ me'.state = "idle"
           /\ me'.running => me.running
           /\ decs' \subseteq decs
           /\ trusted' => trusted /\ opt'.wide = opt.wide
<1>0. me \in Scanner /\ Planned(me) /\ Active(me) = Active(me)
  BY DEF LocksTyped
<1>1. budget' \in [commands : 0 .. MaxScanCommands, faults : 0 .. MaxFaults]
  BY ContinuousAssumption DEF Obeys, Stop, SetWideband, SetRange, RemoveDecimator, LocksTyped
<1>2. CASE Stop
  <2>1. /\ me' = [me EXCEPT !.running = FALSE, !.state = "idle"] /\ who' = "joining" /\ Obeys("stop")
        /\ UNCHANGED <<opt, thread, decs, cmd, heim, seen, fft, timer, air, aired, trusted>>
    BY <1>2 DEF Stop, Halted
  <2>2. /\ me' \in Scanner /\ ~me'.running /\ me'.state = "idle" /\ me'.slots = me.slots
        /\ me'.mem = me.mem /\ me'.offs = me.offs /\ me'.started = me.started /\ me'.done = me.done
        /\ me'.plan = me.plan /\ me'.band = me.band
    BY <1>0, <2>1 DEF Scanner
  <2>3. LocksTyped'
    <3>1. Planned(me')
      BY <1>0, <2>2 DEF Planned
    <3> QED  BY <1>1, <2>1, <2>2, <3>1 DEF LocksTyped
  <2>4. Stopping' /\ OneLockEach'
    BY <2>1, <2>2 DEF Stopping, Alive, OneLockEach, Active
  <2> QED  BY <2>1, <2>2, <2>3, <2>4
<1>3. CASE SetWideband \/ \E n \in 1 .. MaxBands : SetRange(n)
  <2>1. /\ UNCHANGED <<me, thread, who, decs, cmd, heim, seen, fft, timer, air, aired>>
        /\ trusted' => trusted /\ opt'.wide = opt.wide
        /\ trusted' \in BOOLEAN /\ opt' \in [wide : BOOLEAN, range : 0 .. MaxBands, decay : BOOLEAN]
    <3>1. CASE SetWideband
      BY <3>1 DEF SetWideband, LocksTyped
    <3>2. CASE \E n \in 1 .. MaxBands : SetRange(n)
      BY <3>2 DEF SetRange, LocksTyped
    <3> QED  BY <1>3, <3>1, <3>2
  <2>2. LocksTyped'
    BY <1>1, <2>1 DEF LocksTyped, Planned
  <2>3. Stopping' /\ OneLockEach'
    BY <2>1 DEF Stopping, Alive, OneLockEach, Active
  <2> QED  BY <2>1, <2>2, <2>3
<1>4. CASE \E d \in Decs : RemoveDecimator(d)
  <2>1. PICK d \in Decs : RemoveDecimator(d)
    BY <1>4
  <2>2. /\ Obeys("remove") /\ d \in decs /\ Cardinality(decs) > 1 /\ decs' = decs \ {d}
        /\ me' = IF me.fm = d THEN [me EXCEPT !.fm = LeastOf(decs')] ELSE me
        /\ UNCHANGED <<opt, thread, who, cmd, heim, seen, fft, timer, air, aired, trusted>>
    BY <2>1 DEF RemoveDecimator
  <2>3. decs' # {}
    <3>1. CASE decs = {d}
      BY <2>2, <3>1, FS_Singleton
    <3>2. CASE decs # {d}
      BY <2>2, <3>2
    <3> QED  BY <3>1, <3>2
  <2>4. decs' \in SUBSET Nat /\ decs' \in SUBSET Decs
    BY <2>2, BandsTyped DEF LocksTyped
  <2>5. LeastOf(decs') \in Decs
    <3> DEFINE ds == decs'
    <3>1. ds \in SUBSET Nat /\ ds # {} /\ ds \subseteq Decs
      BY <2>3, <2>4
    <3> HIDE DEF ds
    <3>2. LeastOf(ds) \in ds
      BY <3>1, LeastIs DEF LeastOf
    <3> QED  BY <3>1, <3>2 DEF ds
  <2>6. /\ me' \in Scanner /\ me'.running = me.running /\ me'.state = me.state
        /\ me'.slots = me.slots
        /\ me'.mem = me.mem /\ me'.offs = me.offs /\ me'.started = me.started /\ me'.done = me.done
        /\ me'.plan = me.plan /\ me'.band = me.band
    BY <1>0, <2>2, <2>5 DEF Scanner
  <2>7. LocksTyped'
    <3>1. Planned(me')
      BY <1>0, <2>6 DEF Planned
    <3> QED  BY <1>1, <2>2, <2>3, <2>4, <2>6, <3>1 DEF LocksTyped
  <2>8. Stopping' /\ OneLockEach'
    BY <2>2, <2>6 DEF Stopping, Alive, OneLockEach, Active
  <2> QED  BY <2>2, <2>6, <2>7, <2>8
<1> QED  BY <1>2, <1>3, <1>4

LEMMA Clears ==
    ASSUME LocksTyped, Stopping, StopClears
    PROVE  /\ LocksTyped' /\ Stopping' /\ Active(me') = {} /\ me'.mem = {}
           /\ me'.state = me.state /\ me'.done = me.done /\ ~me.running /\ ~me'.running /\ ~Alive
           /\ UNCHANGED <<opt, thread, decs, cmd, heim, seen, fft, timer, air, aired, trusted, budget>>
<1> DEFINE r == Release(me)
<1>1. /\ who = "joining" /\ ~Alive /\ who' = "idle" /\ me' = [r EXCEPT !.mem = {}, !.band = 0]
      /\ UNCHANGED <<opt, thread, decs, cmd, heim, seen, fft, timer, air, aired, trusted, budget>>
  BY DEF StopClears, MayClear, Cleared
<1>2. /\ r \in Scanner /\ r.slots = NoSlots /\ r.running = me.running /\ r.plan = me.plan
      /\ r.state = me.state /\ r.started = me.started /\ r.done = me.done
  BY Empties DEF LocksTyped
<1> HIDE DEF r
<1>3. 0 \in Bands
  BY BandsTyped
<1>4. /\ me' \in Scanner /\ me'.slots = NoSlots /\ me'.mem = {} /\ me'.running = me.running
      /\ me'.plan = me.plan /\ me'.state = me.state /\ me'.started = me.started
      /\ me'.done = me.done /\ me'.band = 0
  BY <1>1, <1>2, <1>3 DEF Scanner
<1>5. ~me.running /\ (me.done => me.started)
  BY <1>1 DEF Stopping
<1>6. LocksTyped'
  <2>1. Planned(me')
    BY <1>4 DEF Planned
  <2> QED  BY <1>1, <1>4, <2>1 DEF LocksTyped
<1>7. Active(me') = {}
  BY <1>4, NothingIn
<1> QED  BY <1>1, <1>4, <1>5, <1>6, <1>7 DEF Stopping, Alive

LEMMA PollTyped ==
    ASSUME LocksTyped, Stopping, OneLockEach, Poll
    PROVE  LocksTyped' /\ Stopping' /\ OneLockEach'
<1>1. /\ Kept(me') /\ thread.pc = "poll" /\ (Tells0 \/ Sent)
      /\ (me.running => me'.state # "idle") /\ (me'.done => me'.started) /\ OneLockEach'
  BY PollsMe
<1>2. PICK afresh \in BOOLEAN, waits \in BOOLEAN : Polled(afresh, waits)
  BY PollsMe
<1>3. /\ thread' \in [pc : {"none", "top", "poll"}, copy : Average, centre : Centres,
                      old : BOOLEAN, state : ScannerStates, paused : BOOLEAN]
      /\ fft' \in [avg : Average, valid : BOOLEAN, pending : BOOLEAN, stale : BOOLEAN]
      /\ timer' \in [quiet : {"new", "polled", "over"}, hold : BOOLEAN, wait : BOOLEAN,
                     late : BOOLEAN]
      /\ UNCHANGED <<opt, who, decs, heim, air, aired, budget>>
      /\ thread'.pc = "top" /\ trusted' = (trusted \/ afresh)
  BY <1>2, PolledLeaves
<1>4. cmd' \in Bands \cup {None} /\ seen' \in [noise : BOOLEAN, low : BOOLEAN, centre : Centres]
  BY <1>1 DEF Tells0, Sent, LocksTyped, Centres
<1>5. trusted' \in BOOLEAN
  BY <1>3 DEF LocksTyped
<1>6. LocksTyped'
  BY <1>1, <1>3, <1>4, <1>5 DEF LocksTyped, Kept, Planned
<1>7. Stopping'
  BY <1>1, <1>3 DEF Stopping, Alive, Kept
<1> QED  BY <1>1, <1>6, <1>7

LEMMA RefreshTyped ==
    ASSUME LocksTyped, Stopping, OneLockEach, Refresh
    PROVE  LocksTyped' /\ Stopping' /\ OneLockEach'
<1>1. /\ thread.pc = "top"
      /\ UNCHANGED <<opt, me, who, decs, cmd, heim, seen, fft, timer, air, aired, trusted, budget>>
  BY DEF Refresh
<1>2. /\ thread' \in [pc : {"none", "top", "poll"}, copy : Average, centre : Centres,
                      old : BOOLEAN, state : ScannerStates, paused : BOOLEAN]
      /\ me.running => thread'.pc = "poll" /\ thread'.state = me.state
      /\ ~me.running => thread'.pc = "none"
  <2>1. fft.avg \in Average /\ seen.centre \in Centres /\ fft.pending \in BOOLEAN
        /\ me.state \in ScannerStates
    BY DEF LocksTyped, Scanner, ScannerStates
  <2>2. NoCopy \in Average /\ 0 \in Centres /\ "idle" \in ScannerStates
    BY BandsTyped DEF NoCopy, Average, ScannerStates
  <2>3. CASE me.running
    BY <2>1, <2>3 DEF Refresh, LocksTyped
  <2>4. CASE ~me.running
    BY <2>2, <2>4 DEF Refresh, AtRest, LocksTyped
  <2> QED  BY <2>3, <2>4
<1>3. LocksTyped'
  BY <1>1, <1>2 DEF LocksTyped, Planned
<1>4. Stopping'
  <2>1. me' = me /\ who' = who /\ Alive
    BY <1>1 DEF Alive
  <2>2. CASE me.running
    BY <1>2, <2>2, <2>1 DEF Alive, Stopping
  <2>3. CASE ~me.running
    BY <1>2, <2>1, <2>3 DEF Alive, Stopping
  <2> QED  BY <2>2, <2>3
<1>5. OneLockEach'
  BY <1>1 DEF OneLockEach, Active
<1> QED  BY <1>3, <1>4, <1>5

-----------------------------------------------------------------------------
(* Where the tuners are.                                                       *)

\* No retune is on its way, and what the client has is of heimdall's band.
Known ==
    /\ cmd = None /\ seen.centre = Centre(heim.band) /\ fft.avg.band = heim.band
    /\ fft.stale => timer.quiet # "over"

\* A retune is given up, or has settled, only when the client has caught up with
\* heimdall; a band's scan that began with a new average looks at heimdall's band.
Where ==
    /\ seen.noise => timer.quiet # "over"
    /\ timer.late => Known
    /\ (me.state = "retuning" \/ Polling({"retuning"})) /\ me.done =>
          (timer.wait \/ Known) /\ timer.quiet # "polled"
    /\ trusted /\ (me.state \in Sweeping \/ Polling(Sweeping) \/ Active(me) # {}) => Known
    /\ trusted /\ Polling(Sweeping) =>
          thread.centre = seen.centre /\ thread.copy.band = heim.band

LocksInv == LocksTyped /\ Stopping /\ OneLockEach /\ Where /\ LocksAreTuned

LEMMA AroundWhere ==
    ASSUME LocksInv, Around
    PROVE  Where' /\ LocksAreTuned'
<1>1. UNCHANGED <<opt, me, thread, who, decs, trusted>>
  BY AroundTyped DEF LocksInv
<1>2. UNCHANGED me /\ UNCHANGED thread /\ UNCHANGED trusted /\ UNCHANGED decs
  BY <1>1
<1>3. /\ Active(me') = Active(me)
      /\ \A states : Polling(states)' <=> Polling(states)
  BY <1>2 DEF Active, Polling
<1>4. LocksTyped /\ Where /\ LocksAreTuned
  BY DEF LocksInv
<1> USE DEF Where
<1>5. SUFFICES /\ seen'.noise => timer'.quiet # "over"
               /\ Known => Known'
               /\ Known /\ trusted => seen'.centre = seen.centre /\ heim'.band = heim.band
               /\ timer'.quiet = "polled" => timer.quiet = "polled"
               /\ timer'.late => timer.late \/ Known'
               /\ (me.state = "retuning" \/ Polling({"retuning"})) /\ timer.wait =>
                     timer'.wait \/ Known'
  <2>1. trusted /\ (me.state \in Sweeping \/ Polling(Sweeping) \/ Active(me) # {})
          => Known' /\ seen'.centre = seen.centre /\ heim'.band = heim.band
    BY <1>4, <1>5
  <2>2. LocksAreTuned'
    BY <1>2, <1>3, <1>4, <2>1 DEF LocksAreTuned
  <2>3. timer'.late => Known'
    BY <1>4, <1>5
  <2>4. (me.state = "retuning" \/ Polling({"retuning"})) /\ me.done =>
          (timer'.wait \/ Known') /\ timer'.quiet # "polled"
    BY <1>4, <1>5
  <2>5. trusted /\ Polling(Sweeping) =>
          thread.centre = seen'.centre /\ thread.copy.band = heim'.band
    BY <1>4, <2>1
  <2> QED  BY <1>2, <1>3, <1>5, <2>1, <2>2, <2>3, <2>4, <2>5
<1> DEFINE Goal == /\ seen'.noise => timer'.quiet # "over"
                   /\ Known => Known'
                   /\ Known /\ trusted => seen'.centre = seen.centre /\ heim'.band = heim.band
                   /\ timer'.quiet = "polled" => timer.quiet = "polled"
                   /\ timer'.late => timer.late \/ Known'
                   /\ (me.state = "retuning" \/ Polling({"retuning"})) /\ timer.wait =>
                         timer'.wait \/ Known'
<1>6. /\ seen.noise => timer.quiet # "over"
      /\ fft \in [avg : Average, valid : BOOLEAN, pending : BOOLEAN, stale : BOOLEAN]
      /\ timer \in [quiet : {"new", "polled", "over"}, hold : BOOLEAN, wait : BOOLEAN,
                    late : BOOLEAN]
      /\ heim \in [band : Bands, cal : {"cool", "work", "pause", "done", "pulse"}]
  BY <1>4 DEF LocksTyped
<1>7. Fresh.band = heim.band /\ \A a : Blended(a).band = heim.band
  BY DEF Fresh, Blended
<1>8. Flags.centre = Centre(heim.band) /\ Flags.noise = Noisy(heim)
  BY DEF Flags
<1>9. \A a : /\ Averaged(a).avg = a /\ Averaged(a).stale = fft.stale
             /\ [Averaged(a) EXCEPT !.stale = FALSE].avg = a
             /\ [Averaged(a) EXCEPT !.stale = FALSE].stale = FALSE
  BY <1>6 DEF Averaged
<1> USE DEF Known
<1>10. CASE Retuned \/ CommandLost
  BY <1>10, <1>6 DEF Retuned, CommandLost
<1>11. CASE CalibrationStep \/ CalibrationTurn
  BY <1>6, <1>11 DEF CalibrationStep, CalibrationTurn
<1>12. CASE Packet
  <2>1. seen' = Flags /\ UNCHANGED <<cmd, heim>>
    BY <1>12 DEF Packet
  <2>2. timer'.quiet = (IF seen'.noise THEN "new" ELSE timer.quiet)
        /\ timer'.late = timer.late /\ timer'.wait = timer.wait
    <3> DEFINE q == IF seen'.noise THEN "new" ELSE timer.quiet
    <3>1. timer' = [timer EXCEPT !.quiet = q]
      BY <1>12 DEF Packet
    <3> HIDE DEF q
    <3>2. timer'.quiet = q /\ timer'.late = timer.late /\ timer'.wait = timer.wait
      BY <1>6, <3>1
    <3> QED  BY <3>2 DEF q
  <2>3. fft'.avg = fft.avg /\ (fft'.stale => fft.stale \/ seen.noise \/ fft.avg.band # heim.band)
    <3> DEFINE s == fft.stale \/ seen.noise \/ fft.avg.band # heim.band
    <3>1. fft' = [fft EXCEPT !.stale = s]
      BY <1>12 DEF Packet
    <3> HIDE DEF s
    <3>2. fft'.avg = fft.avg /\ fft'.stale = s
      BY <1>6, <3>1
    <3> QED  BY <3>2 DEF s
  <2>4. seen'.centre = Centre(heim.band)
    BY <1>8, <2>1
  <2>5. Known => Known'
    BY <1>6, <2>3, <2>1, <2>2, <2>4
  <2> QED  BY <1>6, <2>1, <2>2, <2>4, <2>5
<1>13. CASE Frame \/ Forgets \/ StaleFrame
  <2>1. UNCHANGED <<cmd, heim, seen, timer>> /\ fft'.stale = fft.stale
        /\ (fft'.avg.band = heim.band \/ fft'.avg.band = fft.avg.band)
    <3>1. CASE Frame
      BY <1>7, <1>9, <3>1 DEF Frame
    <3>2. CASE Forgets
      BY <1>6, <1>7, <3>2 DEF Forgets
    <3>3. CASE StaleFrame
      <4>1. [fft.avg EXCEPT !.pure = FALSE].band = fft.avg.band
        BY <1>6 DEF Average
      <4> QED  BY <1>9, <3>3, <4>1 DEF StaleFrame
    <3> QED  BY <1>13, <3>1, <3>2, <3>3
  <2> QED  BY <1>6, <2>1
<1>14. CASE AirChanges
  BY <1>6, <1>14 DEF AirChanges
<1>15. CASE QuietPasses
  BY <1>6, <1>15 DEF QuietPasses
<1>16. CASE HoldPasses
  BY <1>6, <1>16 DEF HoldPasses
<1>17. CASE WaitPasses
  <2>1. /\ thread.pc # "poll" /\ timer' = [timer EXCEPT !.wait = FALSE]
        /\ UNCHANGED <<cmd, heim, seen>>
        /\ me.state = "retuning" => CaughtUp
        /\ fft' = IF me.state = "retuning" THEN [fft EXCEPT !.stale = FALSE] ELSE fft
    BY <1>17 DEF WaitPasses, Pace
  <2>2. timer'.quiet = timer.quiet /\ timer'.late = timer.late
    BY <1>6, <2>1
  <2>3. CASE me.state = "retuning"
    BY <2>1, <2>3, <1>6, <1>8, <2>2 DEF CaughtUp, Current
  <2>4. CASE me.state # "retuning"
    BY <1>6, <2>1, <2>2, <2>4 DEF Polling
  <2> QED  BY <2>3, <2>4
<1>18. CASE MinutePasses
  BY <1>18, <1>6, <1>7, <1>8, <1>9 DEF MinutePasses, CaughtUp, Current
<1>19. Goal
  BY <1>10, <1>11, <1>12, <1>13, <1>14, <1>15, <1>16, <1>17, <1>18
     DEF Around, Heimdall, Data, Clock
<1> QED  BY <1>19

LEMMA StartWhere ==
    ASSUME LocksInv, Start
    PROVE  Where' /\ LocksAreTuned'
<1>1. /\ Active(me') = {} /\ (me'.state = "retuning" => ~me'.done)
      /\ ~trusted' /\ ~timer'.late /\ thread'.pc = "top"
      /\ timer'.quiet = timer.quiet /\ fft' = fft /\ seen'.noise = seen.noise
  BY Starts DEF LocksInv
<1> QED  BY <1>1 DEF LocksInv, Where, LocksAreTuned, Polling

LEMMA CommandsWhere ==
    ASSUME LocksInv,
           Stop \/ SetWideband \/ (\E n \in 1 .. MaxBands : SetRange(n))
           \/ (\E d \in Decs : RemoveDecimator(d))
    PROVE  Where' /\ LocksAreTuned'
<1>1. /\ UNCHANGED <<thread, cmd, heim, seen, fft, timer, air, aired>>
      /\ me'.slots = me.slots /\ me'.offs = me.offs /\ me'.done = me.done
      /\ me'.state = me.state \/ me'.state = "idle"
      /\ decs' \subseteq decs
      /\ trusted' => trusted
  BY OtherCommands DEF LocksInv
<1>2. Active(me') = Active(me) /\ (Known' <=> Known) /\ \A states : Polling(states)' <=> Polling(states)
  BY <1>1 DEF Active, Known, Polling
<1>3. Where'
  BY <1>1, <1>2 DEF LocksInv, Where, Sweeping
<1>4. LocksAreTuned'
  BY <1>1, <1>2 DEF LocksInv, LocksAreTuned
<1> QED  BY <1>3, <1>4

LEMMA ClearsWhere ==
    ASSUME LocksInv, StopClears
    PROVE  Where' /\ LocksAreTuned'
<1>1. /\ UNCHANGED <<thread, cmd, heim, seen, fft, timer, trusted>>
      /\ Active(me') = {} /\ me'.done = me.done /\ me'.state = me.state
  BY Clears DEF LocksInv
<1>2. (Known' <=> Known) /\ \A states : Polling(states)' <=> Polling(states)
  BY <1>1 DEF Known, Polling
<1> QED  BY <1>1, <1>2 DEF LocksInv, Where, LocksAreTuned

LEMMA RefreshWhere ==
    ASSUME LocksInv, Refresh
    PROVE  Where' /\ LocksAreTuned'
<1>1. UNCHANGED <<me, decs, cmd, heim, seen, fft, timer, trusted>>
  BY DEF Refresh
<1>2. LocksAreTuned' /\ (Known' <=> Known) /\ Active(me') = Active(me)
  BY <1>1 DEF LocksInv, LocksAreTuned, Known, Active
<1>3. /\ thread'.pc = "poll" => /\ me.running /\ thread'.state = me.state
                                /\ thread'.centre = seen.centre /\ thread'.copy = fft.avg
  BY DEF LocksInv, LocksTyped, Refresh, AtRest
<1>4. \A states : Polling(states)' => me.state \in states
  BY <1>3 DEF Polling
<1>5. Where'
  BY <1>4, <1>3, <1>1, <1>2 DEF LocksInv, Where, Polling, Known
<1> QED  BY <1>2, <1>5

LEMMA PolledKnown ==
    ASSUME LocksTyped, NEW afresh \in BOOLEAN, NEW waits \in BOOLEAN, Polled(afresh, waits),
           Tells0, Known
    PROVE  Known'
<1>1. /\ fft'.avg = fft.avg /\ fft'.stale = fft.stale /\ heim' = heim
      /\ timer'.quiet = "over" => timer.quiet = "over"
  BY PolledLeaves
<1> QED  BY <1>1 DEF Known, Tells0

\* What the case of a poll has to show.
LEMMA PollSteps ==
    ASSUME LocksInv, Poll,
           me'.state = "retuning" /\ me'.done =>
              (timer'.wait \/ Known') /\ timer'.quiet # "polled",
           trusted' /\ (me'.state \in Sweeping \/ Active(me') # {}) => Known',
           LocksAreTuned'
    PROVE  Where' /\ LocksAreTuned'
<1>1. LocksTyped /\ Where /\ Stopping
  BY DEF LocksInv
<1>2. PICK afresh \in BOOLEAN, waits \in BOOLEAN : Polled(afresh, waits)
  BY <1>1, PollsMe
<1>3. Tells0 \/ Sent
  BY <1>1, PollsMe
<1>4. /\ thread'.pc = "top"
      /\ timer'.late => timer.late /\ cmd' = cmd
      /\ \/ timer'.quiet = timer.quiet
         \/ timer.quiet = "new" /\ timer'.quiet = "polled"
  BY <1>1, <1>2, PolledLeaves
<1>5. seen'.noise = seen.noise
  BY <1>1, <1>3 DEF Tells0, Sent, LocksTyped
<1>6. seen'.noise => timer'.quiet # "over"
  BY <1>1, <1>4, <1>5 DEF Where
<1>7. timer'.late => Known'
  BY <1>1, <1>4, <1>3, BandsTyped, <1>2, PolledKnown DEF Where, Known, Sent
<1>8. \A states : ~Polling(states)'
  BY <1>4 DEF Polling
<1> QED  BY <1>6, <1>7, <1>8 DEF Where

LEMMA PollWhere ==
    ASSUME LocksInv, Poll
    PROVE  Where' /\ LocksAreTuned'
<1>1. LocksTyped /\ Where /\ Stopping /\ LocksAreTuned /\ OneLockEach
  BY DEF LocksInv
<1>2. me \in Scanner
  BY <1>1 DEF LocksTyped
<1>3. thread.pc = "poll" => IF me.running THEN me.state = thread.state ELSE me.state = "idle"
  BY <1>1 DEF Stopping
<1>4. decs' = decs
  <2>1. PICK afresh \in BOOLEAN, waits \in BOOLEAN : Polled(afresh, waits)
    BY <1>1, PollsMe
  <2> QED  BY <1>1, <2>1, PolledLeaves
<1>5. ASSUME NEW afresh \in BOOLEAN, NEW waits \in BOOLEAN, Polled(afresh, waits), Tells0,
             me'.slots = me.slots, me'.offs = me.offs, trusted' = trusted,
             me'.state = me.state
      PROVE  /\ trusted' /\ (me'.state \in Sweeping \/ Active(me') # {}) => Known'
             /\ LocksAreTuned'
  BY <1>5, <1>1, <1>4, PolledKnown DEF Active, Tells0, LocksAreTuned, Where
<1>6. CASE SweepPoll
  <2>1. /\ thread.state # "retuning" /\ thread.pc = "poll"
        /\ (me' = me /\ Tells0) \/ Swept
    BY <1>1, <1>6, SweepPolls
  <2>2. PICK waits \in BOOLEAN : Polled(FALSE, waits)
    BY <1>1, <1>6, SweepPolls
  <2>3. trusted' = trusted
    BY <1>1, <2>2, PolledLeaves
  <2>4. me.state # "retuning"
    BY <1>3, <2>1
  <2>5. CASE me' = me /\ Tells0
    BY <1>5, <2>2, <2>3, <2>4, <2>5, PollSteps
  <2>6. CASE Swept
    <3>1. thread.state \in Sweeping /\ Polling(Sweeping)
      BY <2>1, <2>6 DEF Swept, Polling
    <3>2. trusted => Known /\ thread.centre = seen.centre
      BY <1>1, <3>1 DEF Where
    <3>3. CASE Remains
      <4>1. trusted => Known'
        BY <1>1, <2>2, <3>2, <3>3, PolledKnown DEF Remains
      <4>2. me'.state # "retuning"
        BY <2>4, <3>3 DEF Remains, Sweeping
      <4>3. trusted => Tuned(me', decs, seen.centre)
        BY <1>1, <3>2, <2>6 DEF LocksAreTuned, Tuned, OneLockEach, OneEach, Swept, Gathers
      <4>4. LocksAreTuned'
        BY <1>4, <2>3, <3>3, <4>3 DEF LocksAreTuned, Tuned, Remains, Tells0
      <4> QED  BY <2>3, <4>1, <4>2, <4>4, PollSteps
    <3>4. CASE Goes
      BY <1>1, <2>2, <3>2, <3>4, PolledKnown, <2>3, PollSteps DEF Goes, LocksAreTuned, Sweeping
    <3> QED  BY <2>6, <3>3, <3>4 DEF Swept
  <2> QED  BY <2>1, <2>5, <2>6
<1>7. CASE AwaitsStart \/ AwaitsEnd \/ Settles
  <2>1. /\ thread.state = "retuning" /\ thread.pc = "poll" /\ Polling({"retuning"})
        /\ StillAwaits \/ SeesStart \/ SeesEnd \/ GivesItUp \/ Arrives
    BY <1>1, <1>7, RetunePolls DEF Polling
  <2>2. me.done => (timer.wait \/ Known) /\ timer.quiet # "polled"
    BY <1>1, <2>1 DEF Where
  <2>3. CASE StillAwaits
    <3>1. PICK waits \in BOOLEAN : Polled(FALSE, waits) /\ (me.done => waits)
      BY <2>3 DEF StillAwaits
    <3>2. /\ trusted' = trusted /\ timer'.wait = waits
          /\ \/ timer'.quiet = timer.quiet
             \/ ~Settling
      <4>1. Polled(FALSE, waits)
        BY <3>1
      <4>2. timer'.wait = waits /\ (timer'.quiet = timer.quiet \/ ~Settling)
        BY <1>1, <4>1, PolledLeaves
      <4>3. trusted' = trusted
        BY <1>1, <4>1, PolledLeaves
      <4> QED  BY <4>2, <4>3
    <3>3. me.done => timer'.wait /\ timer'.quiet # "polled"
      BY <2>1, <2>2, <3>1, <3>2 DEF Settling
    <3> QED  BY <1>5, <2>3, <3>1, <3>2, <3>3, PollSteps DEF StillAwaits
  <2>4. CASE SeesStart
    BY <1>1, <2>4, PolledLeaves, <1>2, <1>5, PollSteps DEF SeesStart, Stopping, LocksTyped, Scanner
  <2>5. CASE SeesEnd
    BY <2>5, <1>1, PolledLeaves, <1>2, <1>5, PollSteps DEF SeesEnd, Unsettled, LocksTyped, Scanner
  <2>6. CASE GivesItUp
    BY <1>1, <2>6, PolledKnown, PollSteps DEF GivesItUp, Where, Sweeping, LocksAreTuned
  <2>7. CASE Arrives
    <3>1. Polled(TRUE, FALSE) /\ Tells0 /\ Known
      BY <2>2, <2>7 DEF Arrives
    <3>2. Known'
      BY <1>1, <3>1, PolledKnown
    <3>3. me'.state = "scanning" /\ me'.slots = NoSlots
      <4> DEFINE c == ClearBand(me)
      <4>1. c = [me EXCEPT !.mem = {}, !.slots = NoSlots] /\ c \in Scanner
        BY <1>2, Empties
      <4>2. c.slots = NoSlots
        BY <1>2, <4>1 DEF Scanner
      <4>3. me' = [c EXCEPT !.state = "scanning", !.empty = 0]
        BY <2>7 DEF Arrives
      <4> HIDE DEF c
      <4> QED  BY <4>1, <4>2, <4>3 DEF Scanner
    <3>4. LocksAreTuned'
      BY <3>3, NothingIn DEF LocksAreTuned
    <3> QED  BY <3>2, <3>3, <3>4, PollSteps
  <2> QED  BY <2>1, <2>3, <2>4, <2>5, <2>6, <2>7
<1> QED  BY <1>6, <1>7 DEF Poll, SweepPoll

LEMMA LocksInvKept == ASSUME LocksInv, [ScannerNext]_contVars PROVE LocksInv'
<1>0. LocksTyped /\ Stopping /\ OneLockEach
  BY DEF LocksInv
<1>1. CASE Around
  BY <1>0, <1>1, AroundTyped, AroundWhere DEF Stopping, Alive, OneLockEach, Active, LocksInv
<1>2. CASE Refresh
  BY <1>0, <1>2, RefreshTyped, RefreshWhere DEF LocksInv
<1>3. CASE Poll
  BY <1>0, <1>3, PollTyped, PollWhere DEF LocksInv
<1>4. CASE StopClears
  BY <1>0, <1>4, Clears, ClearsWhere DEF OneLockEach, LocksInv
<1>5. CASE Start
  BY <1>0, <1>5, Starts, StartWhere DEF OneLockEach, LocksInv
<1>6. CASE Stop \/ SetWideband \/ (\E n \in 1 .. MaxBands : SetRange(n))
           \/ (\E d \in Decs : RemoveDecimator(d))
  BY <1>0, <1>6, OtherCommands, CommandsWhere DEF LocksInv
<1>7. CASE UNCHANGED contVars
  BY <1>7 DEF contVars, LocksInv, LocksTyped, Planned, Stopping, Alive, OneLockEach, Where, Known,
              Polling, LocksAreTuned, Active
<1> QED  BY <1>1, <1>2, <1>3, <1>4, <1>5, <1>6, <1>7
         DEF ScannerNext, Around, Scanning, UserCommand

LEMMA LocksInvInit == ScannerInit => LocksInv
<1> SUFFICES ASSUME ScannerInit PROVE LocksInv
  OBVIOUS
<1>1. LocksTyped /\ Stopping /\ OneLockEach
  BY LocksTypedInit
<1>2. /\ ~trusted /\ me.state = "idle" /\ thread.pc = "none" /\ ~seen.noise
      /\ timer.late = FALSE
  BY DEF ScannerInit, Flags, Noisy
<1> QED  BY <1>1, <1>2 DEF LocksInv, Where, LocksAreTuned, Polling

-----------------------------------------------------------------------------
(* What is in the average.                                                     *)

\* The average has noise or another band's signals in it only while the scan does
\* not look at it: the quiet is not over, the pause is noted, or a new one is due.
CleanScan ==
    /\ fft.avg.pure \/ timer.quiet # "over" \/ thread.paused \/ fft.pending
    /\ fft.pending => timer.hold
    /\ timer.quiet = "polled" => thread.paused
CleanCopy == thread.copy.pure \/ timer.quiet # "over" \/ thread.paused \/ timer.hold

\* After a minute without a calibration there is none in it.
CleanLate ==
    \/ timer.quiet = "new"
    \/ ~seen.noise /\ ~fft.stale /\ (fft.avg.pure \/ fft.pending)

Clean ==
    /\ fft.valid <=> ~fft.pending
    /\ trusted /\ opt.wide /\ me.running /\ me.state \in Sweeping => CleanScan
    /\ trusted /\ opt.wide /\ Polling(Sweeping) => CleanCopy
    /\ timer.late => (fft.pending => timer.hold)
    /\ timer.late /\ me.state = "retuning" /\ ~me.started /\ Alive => CleanLate

CleanInv == LocksInv /\ Clean /\ LocksAreReal

LEMMA AroundClean ==
    ASSUME CleanInv, Around
    PROVE  Clean' /\ LocksAreReal'
<1>1. UNCHANGED <<opt, me, thread, who, decs, trusted>>
  BY AroundTyped DEF CleanInv, LocksInv
<1>2. UNCHANGED me /\ UNCHANGED thread /\ UNCHANGED trusted /\ UNCHANGED opt
  BY <1>1
<1>3. /\ Active(me') = Active(me) /\ Locked(me') = Locked(me) /\ (Alive' <=> Alive)
      /\ \A states : Polling(states)' <=> Polling(states)
  BY <1>2 DEF Active, Polling, Locked, Alive
<1>4. LocksTyped /\ Where /\ Clean /\ LocksAreReal /\ Stopping
  BY DEF LocksInv, CleanInv
<1>5. LocksAreReal'
  <2>1. aired \subseteq aired'
    BY <1>4 DEF Around, Heimdall, CommandLost, CalibrationTurn, AirChanges, Data, Clock, Retuned,
           CalibrationStep, Packet, Frame, StaleFrame, Forgets, QuietPasses, HoldPasses, WaitPasses,
           MinutePasses
  <2> QED  BY <1>2, <1>3, <1>4, <2>1 DEF LocksAreReal
<1> DEFINE Goal == /\ fft'.valid <=> ~fft'.pending
                   /\ Known /\ Alive /\ CleanScan => CleanScan'
                   /\ thread.pc = "poll" /\ CleanCopy => CleanCopy'
                   /\ Known /\ (fft.pending => timer.hold) => (fft'.pending => timer'.hold)
                   /\ Known /\ Alive /\ CleanLate => CleanLate'
                   /\ timer'.late /\ ~timer.late =>
                         ~fft'.pending /\ (~me.started => CleanLate')
<1>6. SUFFICES Goal
  <2>1. trusted /\ opt.wide /\ me.running /\ me.state \in Sweeping => CleanScan'
    BY <1>4, <1>6 DEF Clean, Where, Stopping
  <2>2. trusted /\ opt.wide /\ Polling(Sweeping) => CleanCopy'
    BY <1>4, <1>6 DEF Clean, Polling
  <2>3. timer'.late => (fft'.pending => timer'.hold)
    BY <1>4, <1>6 DEF Clean, Where
  <2>4. timer'.late /\ me.state = "retuning" /\ ~me.started /\ Alive => CleanLate'
    BY <1>4, <1>6 DEF Clean, Where
  <2> QED  BY <1>2, <1>3, <1>5, <1>6, <2>1, <2>2, <2>3, <2>4 DEF Clean
<1>7. /\ fft \in [avg : Average, valid : BOOLEAN, pending : BOOLEAN, stale : BOOLEAN]
      /\ timer \in [quiet : {"new", "polled", "over"}, hold : BOOLEAN, wait : BOOLEAN,
                    late : BOOLEAN]
      /\ heim \in [band : Bands, cal : {"cool", "work", "pause", "done", "pulse"}]
      /\ seen.noise \in BOOLEAN /\ Noisy(heim) \in BOOLEAN
      /\ fft.valid <=> ~fft.pending
      /\ seen.noise => timer.quiet # "over"
  BY <1>4 DEF LocksTyped, Clean, Where, Noisy
<1>8. /\ Fresh \in Average /\ (Fresh.pure <=> ~Noisy(heim))
      /\ seen = Flags => (seen.noise <=> Noisy(heim))
  <2> DEFINE noisy == Noisy(heim)
  <2>1. noisy \in BOOLEAN /\ heim.band \in Bands
    BY <1>7
  <2>2. Fresh = [band |-> heim.band, pure |-> ~noisy]
    BY DEF Fresh
  <2>3. seen = Flags => seen.noise = noisy
    BY DEF Flags
  <2> HIDE DEF noisy
  <2>4. Fresh \in Average /\ (Fresh.pure <=> ~noisy)
    BY <2>1, <2>2 DEF Average
  <2> QED  BY <2>3, <2>4 DEF noisy
<1>9. \A a \in Average : /\ Averaged(a).avg = a /\ Averaged(a).valid = TRUE
                         /\ Averaged(a).pending = FALSE /\ Averaged(a).stale = fft.stale
                         /\ [Averaged(a) EXCEPT !.stale = FALSE].avg = a
                         /\ [Averaged(a) EXCEPT !.stale = FALSE].valid = TRUE
                         /\ [Averaged(a) EXCEPT !.stale = FALSE].pending = FALSE
                         /\ [Averaged(a) EXCEPT !.stale = FALSE].stale = FALSE
  BY <1>7 DEF Averaged
<1> USE DEF CleanScan, CleanCopy, CleanLate
<1>10. CASE Retuned \/ CommandLost
  BY <1>10, <1>7 DEF Retuned, CommandLost, Reset, Known
<1>11. CASE CalibrationStep \/ CalibrationTurn \/ AirChanges
  BY <1>11, <1>7 DEF CalibrationStep, CalibrationTurn, AirChanges
<1>12. CASE Packet
  <2>2. timer'.quiet = (IF seen'.noise THEN "new" ELSE timer.quiet)
        /\ timer'.late = timer.late /\ timer'.hold = timer.hold
    <3> DEFINE q == IF seen'.noise THEN "new" ELSE timer.quiet
    <3>1. timer' = [timer EXCEPT !.quiet = q]
      BY <1>12 DEF Packet
    <3> HIDE DEF q
    <3>2. timer'.quiet = q /\ timer'.late = timer.late /\ timer'.hold = timer.hold
      BY <1>7, <3>1
    <3> QED  BY <3>2 DEF q
  <2>3. /\ fft'.avg = fft.avg /\ fft'.valid = fft.valid /\ fft'.pending = fft.pending
        /\ fft'.stale => fft.stale \/ seen.noise \/ fft.avg.band # heim.band
    <3> DEFINE s == fft.stale \/ seen.noise \/ fft.avg.band # heim.band
    <3>1. fft' = [fft EXCEPT !.stale = s]
      BY <1>12 DEF Packet
    <3> HIDE DEF s
    <3>2. /\ fft'.avg = fft.avg /\ fft'.stale = s /\ fft'.valid = fft.valid
          /\ fft'.pending = fft.pending
      BY <1>7, <3>1
    <3> QED  BY <3>2 DEF s
  <2>4. CASE seen'.noise
    BY <1>2, <1>7, <2>2, <2>3, <2>4
  <2>5. CASE ~seen'.noise
    BY <2>2, <2>5, <2>3, <1>2, <1>7 DEF Known
  <2> QED  BY <2>4, <2>5
<1>13. CASE Frame
  <2> DEFINE a == IF fft.pending THEN Fresh ELSE Blended(fft.avg)
  <2>1. seen = Flags /\ fft' = Averaged(a) /\ UNCHANGED <<timer, seen, thread>>
    BY <1>13 DEF Frame
  <2>2. /\ Blended(fft.avg) \in Average
        /\ Blended(fft.avg).pure <=> Fresh.pure /\ fft.avg.pure /\ fft.avg.band = heim.band
    <3> DEFINE pure == Fresh.pure /\ fft.avg.pure /\ fft.avg.band = heim.band
    <3>1. Blended(fft.avg) = [Fresh EXCEPT !.pure = pure] /\ pure \in BOOLEAN
      BY DEF Blended
    <3> HIDE DEF pure
    <3>2. Blended(fft.avg) \in Average /\ Blended(fft.avg).pure = pure
      BY <1>8, <3>1 DEF Average
    <3> QED  BY <3>2 DEF pure
  <2>3. a \in Average
    BY <1>8, <2>2
  <2>4. Known /\ ~seen.noise /\ (fft.avg.pure \/ fft.pending) => a.pure
    BY <1>8, <2>1, <2>2 DEF Known
  <2> HIDE DEF a
  <2>5. fft'.avg = a /\ fft'.valid /\ ~fft'.pending /\ fft'.stale = fft.stale
    BY <1>9, <2>1, <2>3
  <2> QED  BY <1>7, <2>1, <2>4, <2>5
<1>14. CASE StaleFrame
  <2> DEFINE a == [fft.avg EXCEPT !.pure = FALSE]
  <2>1. fft.stale /\ fft' = Averaged(a) /\ UNCHANGED <<timer, seen, thread>>
    BY <1>14 DEF StaleFrame
  <2>2. a \in Average
    BY <1>7 DEF Average
  <2> HIDE DEF a
  <2>3. fft'.avg = a /\ fft'.valid /\ ~fft'.pending /\ fft'.stale = fft.stale
    BY <1>9, <2>1, <2>2
  <2> QED  BY <1>7, <2>1, <2>3 DEF Known
<1>15. CASE Forgets
  BY <1>15, <1>7, <1>8 DEF Forgets
<1>16. CASE QuietPasses
  BY <1>16, <1>7 DEF QuietPasses, Pace
<1>17. CASE HoldPasses
  BY <1>17, <1>7 DEF HoldPasses, Pace
<1>18. CASE WaitPasses
  BY <1>18, <1>7 DEF WaitPasses
<1>19. CASE MinutePasses
  BY <1>19, <1>7, <1>8, <1>9 DEF MinutePasses, CaughtUp, Current
<1> QED  BY <1>10, <1>11, <1>12, <1>13, <1>14, <1>15, <1>16, <1>17, <1>18, <1>19
         DEF Around, Heimdall, Data, Clock

LEMMA StartClean ==
    ASSUME CleanInv, Start
    PROVE  Clean' /\ LocksAreReal'
<1>1. /\ ~trusted' /\ ~timer'.late /\ fft' = fft
  BY Starts DEF CleanInv, LocksInv
<1> QED  BY <1>1 DEF CleanInv, Clean, LocksAreReal

LEMMA CommandsClean ==
    ASSUME CleanInv,
           Stop \/ SetWideband \/ (\E n \in 1 .. MaxBands : SetRange(n))
           \/ (\E d \in Decs : RemoveDecimator(d))
    PROVE  Clean' /\ LocksAreReal'
<1>1. /\ UNCHANGED <<thread, cmd, heim, seen, fft, timer, air, aired>>
      /\ me'.slots = me.slots /\ me'.mem = me.mem /\ me'.started = me.started
      /\ me'.state = me.state \/ me'.state = "idle"
      /\ me'.running => me.running
      /\ trusted' => trusted /\ opt'.wide = opt.wide
  BY OtherCommands DEF CleanInv, LocksInv
<1>2. /\ Active(me') = Active(me) /\ (CleanScan' <=> CleanScan) /\ (CleanCopy' <=> CleanCopy)
      /\ (CleanLate' <=> CleanLate) /\ (Alive' <=> Alive)
      /\ \A states : Polling(states)' <=> Polling(states)
  BY <1>1 DEF Active, CleanScan, CleanCopy, CleanLate, Polling, Alive
<1>3. Locked(me') = Locked(me)
  BY <1>1, <1>2 DEF Locked
<1>4. Clean'
  BY <1>1, <1>2 DEF CleanInv, Clean, Sweeping
<1>5. LocksAreReal'
  BY <1>1, <1>3 DEF CleanInv, LocksAreReal
<1> QED  BY <1>4, <1>5

LEMMA ClearsClean ==
    ASSUME CleanInv, StopClears
    PROVE  Clean' /\ LocksAreReal'
<1>1. /\ Active(me') = {} /\ me'.mem = {} /\ ~me'.running /\ ~Alive
      /\ UNCHANGED <<opt, thread, decs, cmd, heim, seen, fft, timer, air, aired, trusted, budget>>
  BY Clears DEF CleanInv, LocksInv
<1>2. (CleanCopy' <=> CleanCopy) /\ ~Alive' /\ \A states : Polling(states)' <=> Polling(states)
  BY <1>1 DEF CleanCopy, Polling, Alive
<1>3. Clean'
  BY <1>1, <1>2 DEF CleanInv, Clean
<1>4. LocksAreReal'
  BY <1>1 DEF LocksAreReal, Locked
<1> QED  BY <1>3, <1>4

LEMMA RefreshClean ==
    ASSUME CleanInv, Refresh
    PROVE  Clean' /\ LocksAreReal'
<1>1. thread.pc = "top"
      /\ UNCHANGED <<opt, me, who, decs, cmd, heim, seen, fft, timer, air, aired, trusted, budget>>
  BY DEF Refresh
<1>2. /\ thread'.pc = "poll" => /\ me.running /\ thread'.state = me.state
                                /\ thread'.copy = fft.avg
      /\ thread'.paused = thread.paused
  BY DEF CleanInv, LocksInv, LocksTyped, Refresh, AtRest
<1>3. (CleanScan' <=> CleanScan) /\ (CleanLate' <=> CleanLate) /\ (Alive' => Alive)
  BY <1>1, <1>2 DEF CleanScan, CleanLate, Alive
<1>4. trusted /\ opt.wide /\ Polling(Sweeping)' => CleanCopy'
  <2>1. ASSUME trusted, opt.wide, Polling(Sweeping)' PROVE CleanCopy'
    BY <1>2, <2>1, <1>1 DEF Polling, CleanInv, Clean, CleanScan, CleanCopy
  <2> QED  BY <2>1
<1>5. Clean'
  BY <1>1, <1>3, <1>4 DEF CleanInv, Clean
<1>6. LocksAreReal'
  BY <1>1 DEF CleanInv, LocksAreReal, Locked, Active
<1> QED  BY <1>5, <1>6

\* A retune is given up after a minute only while heimdall does not calibrate: if
\* the tuners turn out to be on the next band already, the average is not discarded.
GivesUpCalmly ==
    me.running /\ me.state = "retuning" /\ ~me.done /\ me'.state = "scanning" => ~Unsettled

\* What the case of a poll has to show.
LEMMA CleanSteps ==
    ASSUME CleanInv, Poll,
           trusted' /\ opt.wide /\ me.running /\ me'.state \in Sweeping =>
              /\ fft'.avg.pure \/ timer'.quiet # "over" \/ Calibrating \/ fft'.pending
              /\ fft'.pending => timer'.hold
              /\ timer'.quiet = "polled" => Calibrating,
           timer'.late /\ me'.state = "retuning" => me'.started
    PROVE  Clean'
<1>1. LocksTyped /\ Clean /\ Stopping
  BY DEF CleanInv, LocksInv
<1>2. PICK afresh \in BOOLEAN, waits \in BOOLEAN : Polled(afresh, waits)
  BY <1>1, PollsMe
<1>3. me'.running = me.running
  BY <1>1, PollsMe DEF Kept
<1>4. /\ thread'.pc = "top" /\ thread'.paused = Calibrating /\ opt' = opt
      /\ Resumes \/ afresh => fft'.pending /\ ~fft'.valid /\ timer'.hold
      /\ ~Resumes /\ ~afresh => fft' = fft
      /\ timer.hold => timer'.hold
      /\ timer'.late => timer.late
  BY <1>1, <1>2, PolledLeaves
<1>5. /\ fft'.valid <=> ~fft'.pending
      /\ timer'.late => (fft'.pending => timer'.hold)
  <2>1. CASE Resumes \/ afresh
    BY <1>4, <2>1
  <2>2. CASE ~Resumes /\ ~afresh
    BY <1>1, <1>4, <2>2 DEF Clean
  <2> QED  BY <2>1, <2>2
<1>6. ~Polling(Sweeping)'
  BY <1>4 DEF Polling
<1>7. trusted' /\ opt'.wide /\ me'.running /\ me'.state \in Sweeping => CleanScan'
  BY <1>3, <1>4 DEF CleanScan
<1>8. ~(timer'.late /\ me'.state = "retuning" /\ ~me'.started)
  OBVIOUS
<1> QED  BY <1>5, <1>6, <1>7, <1>8 DEF Clean

\* What is found in a clean average is in the air.
LEMMA FoundIsReal ==
    ASSUME CleanInv, trusted, opt.wide, Polling(Sweeping), ~Calibrating, NEW found \in Heard
    PROVE  found \subseteq aired
<1>1. CASE ~Ready
  BY <1>1 DEF Heard
<1>2. CASE Ready
  <2>1. found \in Detected
    BY <1>2 DEF Heard
  <2>2. thread.copy.pure
    BY <1>2 DEF CleanInv, Clean, Calibrating, Unsettled, Polling, Sweeping, Ready, Resumes,
       CleanCopy
  <2>3. thread.centre = Centre(heim.band) /\ thread.copy.band = heim.band
    BY DEF CleanInv, LocksInv, Where, Known
  <2>4. found = {thread.centre + p : p \in air[thread.copy.band]}
    BY <2>1, <2>2 DEF Detected, Found
  <2>5. heim.band \in Bands /\ InAir(air) \subseteq aired
    BY DEF CleanInv, LocksInv, LocksTyped
  <2>6. {Centre(heim.band) + p : p \in air[heim.band]} \subseteq InAir(air)
    BY <2>5 DEF InAir
  <2> QED  BY <2>3, <2>4, <2>5, <2>6
<1> QED  BY <1>1, <1>2

LEMMA SweepClean ==
    ASSUME CleanInv, SweepPoll
    PROVE  Clean' /\ LocksAreReal'
<1>1. LocksTyped /\ Where /\ Clean /\ LocksAreReal /\ Stopping
  BY DEF LocksInv, CleanInv
<1>2. /\ thread.state # "retuning" /\ thread.pc = "poll"
      /\ (me' = me /\ Tells0) \/ Swept
  BY <1>1, SweepPolls
<1>3. PICK waits \in BOOLEAN : Polled(FALSE, waits)
  BY <1>1, SweepPolls
<1>4. /\ UNCHANGED <<opt, air, aired>> /\ fft'.avg = fft.avg
      /\ Resumes => fft'.pending /\ timer'.hold
      /\ ~Resumes => fft' = fft
      /\ timer.hold => timer'.hold
      /\ \/ timer'.quiet = timer.quiet
         \/ timer.quiet = "new" /\ timer'.quiet = "polled"
      /\ timer'.late => timer.late /\ cmd' = cmd /\ me'.state = "retuning"
  BY <1>1, <1>3, PolledLeaves
<1>5. trusted' = trusted
  BY <1>1, <1>3, PolledLeaves
<1>6. me.running => me.state \in Sweeping /\ me.state = thread.state
  BY <1>1, <1>2 DEF Stopping, LocksTyped, Scanner, Sweeping
<1>7. trusted' /\ opt.wide /\ me.running /\ me'.state \in Sweeping =>
              /\ fft'.avg.pure \/ timer'.quiet # "over" \/ Calibrating \/ fft'.pending
              /\ fft'.pending => timer'.hold
              /\ timer'.quiet = "polled" => Calibrating
  <2> SUFFICES ASSUME trusted', opt.wide, me.running
               PROVE  /\ fft'.avg.pure \/ timer'.quiet # "over" \/ Calibrating \/ fft'.pending
                      /\ fft'.pending => timer'.hold
                      /\ timer'.quiet = "polled" => Calibrating
    OBVIOUS
  <2>1. CleanScan
    BY <1>1, <1>5, <1>6 DEF Clean
  <2>2. ~Calibrating => timer.quiet = "over"
    BY <1>2 DEF Calibrating, Unsettled
  <2>3. thread.paused /\ ~Calibrating => Resumes
    BY DEF Resumes
  <2> QED  BY <1>4, <2>1, <2>2, <2>3 DEF CleanScan
<1>8. timer'.late /\ me'.state = "retuning" => me'.started
  <2>1. me.state # "retuning"
    BY <1>1, <1>2 DEF Stopping
  <2>2. CASE me' = me
    BY <2>1, <2>2
  <2>3. CASE Swept
    <3>1. CASE Remains
      BY <2>1, <3>1 DEF Remains, Sweeping
    <3>2. CASE Goes
      BY <1>1, <3>2, BandsTyped, <1>4 DEF Where, Known, Goes, Sent
    <3> QED  BY <2>3, <3>1, <3>2 DEF Swept
  <2> QED  BY <1>2, <2>2, <2>3
<1>9. Clean'
  <2>1. Poll
    BY DEF Poll, SweepPoll
  <2> QED  BY <1>7, <1>8, <2>1, CleanSteps
<1>10. LocksAreReal'
  <2> SUFFICES ASSUME trusted', opt'.wide PROVE Locked(me') \cup me'.mem \subseteq aired'
    BY DEF LocksAreReal
  <2>1. trusted /\ opt.wide /\ aired' = aired /\ Locked(me) \cup me.mem \subseteq aired
    BY <1>1, <1>4, <1>5 DEF LocksAreReal
  <2>2. CASE me' = me
    BY <2>1, <2>2 DEF Locked, Active
  <2>3. CASE Swept
    <3>1. PICK found \in Heard : Gathers(me, me', found)
      BY <2>3 DEF Swept
    <3>2. found \subseteq aired
      BY <1>2, <2>1, <2>3, FoundIsReal DEF Swept, Polling
    <3> QED  BY <2>1, <3>1, <3>2 DEF Gathers
  <2> QED  BY <1>2, <2>2, <2>3
<1> QED  BY <1>9, <1>10

LEMMA RetuneClean ==
    ASSUME CleanInv, GivesUpCalmly, AwaitsStart \/ AwaitsEnd \/ Settles
    PROVE  Clean' /\ LocksAreReal'
<1>1. LocksTyped /\ Where /\ Clean /\ LocksAreReal /\ Stopping /\ me \in Scanner
  BY DEF LocksInv, CleanInv, LocksTyped
<1>2. /\ thread.state = "retuning" /\ thread.pc = "poll" /\ Polling({"retuning"})
      /\ StillAwaits \/ SeesStart \/ SeesEnd \/ GivesItUp \/ Arrives
  BY <1>1, RetunePolls DEF Polling
<1>3. Poll
  BY DEF Poll
<1>4. me.running => me.state = "retuning"
  BY <1>1, <1>2 DEF Stopping
<1>5. ~Calibrating
  BY <1>2 DEF Calibrating
<1>6. ASSUME NEW waits \in BOOLEAN, Polled(FALSE, waits), me'.slots = me.slots, me'.mem = me.mem
      PROVE  LocksAreReal'
  <2>1. UNCHANGED <<opt, aired>>
    BY <1>1, <1>6, PolledLeaves
  <2>2. trusted' = trusted
    BY <1>1, <1>6, PolledLeaves
  <2>3. Locked(me') = Locked(me)
    BY <1>6 DEF Locked, Active
  <2> QED  BY <1>1, <1>6, <2>1, <2>2, <2>3 DEF LocksAreReal
<1>7. CASE StillAwaits
  <2>1. me' = me /\ (timer.late => me.started)
    BY <1>7 DEF StillAwaits
  <2>2. PICK waits \in BOOLEAN : Polled(FALSE, waits)
    BY <1>7 DEF StillAwaits
  <2>3. timer'.late => timer.late
    BY <1>1, <2>2, PolledLeaves
  <2>4. me.running => me'.state \notin Sweeping
    BY <1>4, <2>1 DEF Sweeping
  <2>5. Clean'
    BY <1>3, <2>1, <2>3, <2>4, CleanSteps
  <2> QED  BY <1>6, <2>1, <2>2, <2>5
<1>8. CASE SeesStart
  <2>1. me'.slots = me.slots /\ me'.mem = me.mem /\ me'.state = me.state /\ me'.started = TRUE
    BY <1>1, <1>8 DEF SeesStart, Scanner
  <2>2. me.running => me'.state \notin Sweeping
    BY <1>4, <2>1 DEF Sweeping
  <2>3. Clean'
    BY <1>3, <2>1, <2>2, CleanSteps
  <2>4. Polled(FALSE, FALSE)
    BY <1>8 DEF SeesStart
  <2> QED  BY <1>6, <2>1, <2>3, <2>4
<1>9. CASE SeesEnd
  <2>1. /\ me'.slots = me.slots /\ me'.mem = me.mem /\ me'.state = me.state
        /\ me'.started = me.started /\ me.started
    BY <1>1, <1>9 DEF SeesEnd, Scanner
  <2>2. me.running => me'.state \notin Sweeping
    BY <1>4, <2>1 DEF Sweeping
  <2>3. Clean'
    BY <1>3, <2>1, <2>2, CleanSteps
  <2>4. Polled(FALSE, TRUE)
    BY <1>9 DEF SeesEnd
  <2> QED  BY <1>6, <2>1, <2>3, <2>4
<1>10. CASE GivesItUp
  <2>1. Polled(FALSE, FALSE) /\ Active(me') = {} /\ me'.mem = {} /\ timer.late /\ ~me.done
        /\ me'.state \in {"scanning", "retuning"} /\ (me'.state = "retuning" => Sent)
    BY <1>10 DEF GivesItUp
  <2>2. /\ UNCHANGED <<opt, aired>> /\ fft'.avg = fft.avg
        /\ Resumes => fft'.pending /\ timer'.hold
        /\ ~Resumes => fft' = fft
        /\ timer.hold => timer'.hold
        /\ timer.quiet = "over" => timer'.quiet = "over"
        /\ timer'.late => cmd' = cmd
    BY <1>1, <2>1, PolledLeaves
  <2>3. ~timer'.late \/ me'.state # "retuning"
    BY <1>1, <2>1, BandsTyped, <2>2 DEF Where, Known, Sent
  <2>4. trusted' /\ opt.wide /\ me.running /\ me'.state \in Sweeping =>
              /\ fft'.avg.pure \/ timer'.quiet # "over" \/ Calibrating \/ fft'.pending
              /\ fft'.pending => timer'.hold
              /\ timer'.quiet = "polled" => Calibrating
    <3> SUFFICES ASSUME me.running, me'.state \in Sweeping
                 PROVE  /\ fft'.avg.pure \/ timer'.quiet # "over" \/ Calibrating \/ fft'.pending
                        /\ fft'.pending => timer'.hold
                        /\ timer'.quiet = "polled" => Calibrating
      OBVIOUS
    <3>1. ~Unsettled
      BY <1>4, <2>1 DEF GivesUpCalmly, Sweeping
    <3>2. timer.quiet = "over" /\ ~me.started
      BY <1>10, <3>1 DEF GivesItUp, Unsettled
    <3>3. CleanLate /\ (fft.pending => timer.hold)
      BY <1>1, <1>2, <1>4, <2>1, <3>2 DEF Clean, Alive
    <3>4. fft.avg.pure \/ fft.pending
      BY <3>2, <3>3 DEF CleanLate
    <3> QED  BY <2>2, <3>2, <3>3, <3>4
  <2>5. Clean'
    BY <1>3, <2>3, <2>4, CleanSteps
  <2>6. LocksAreReal'
    BY <2>1 DEF LocksAreReal, Locked
  <2> QED  BY <2>5, <2>6
<1>11. CASE Arrives
  <2> DEFINE c == ClearBand(me)
  <2>1. c = [me EXCEPT !.mem = {}, !.slots = NoSlots] /\ c \in Scanner
    BY <1>1, Empties
  <2>2. c.slots = NoSlots /\ c.mem = {}
    BY <1>1, <2>1 DEF Scanner
  <2>3. me' = [c EXCEPT !.state = "scanning", !.empty = 0]
    BY <1>11 DEF Arrives
  <2> HIDE DEF c
  <2>4. me'.state = "scanning" /\ me'.slots = NoSlots /\ me'.mem = {}
    BY <2>1, <2>2, <2>3 DEF Scanner
  <2>5. Polled(TRUE, FALSE) /\ me.done
    BY <1>11 DEF Arrives
  <2>6. fft'.pending /\ timer'.hold /\ (timer'.quiet = timer.quiet \/ ~Settling)
    BY <1>1, <2>5, PolledLeaves
  <2>7. timer'.quiet # "polled"
    BY <1>1, <1>2, <2>5, <2>6 DEF Where, Settling
  <2>8. Clean'
    BY <1>3, <2>4, <2>6, <2>7, CleanSteps
  <2>9. LocksAreReal'
    BY <2>4, NothingIn DEF LocksAreReal
  <2> QED  BY <2>8, <2>9
<1> QED  BY <1>2, <1>7, <1>8, <1>9, <1>10, <1>11

LEMMA CleanInvKept ==
    ASSUME CleanInv, [ScannerNext]_contVars, [GivesUpCalmly]_contVars
    PROVE  CleanInv'
<1>0. LocksInv'
  BY LocksInvKept DEF CleanInv
<1>1. CASE UNCHANGED contVars
  BY <1>1, <1>0 DEF CleanInv, Clean, CleanScan, CleanCopy, CleanLate, Polling, Alive, contVars,
     LocksAreReal, Locked, Active
<1>2. CASE ScannerNext /\ GivesUpCalmly
  <2>1. CASE Around
    BY <1>0, <2>1, AroundClean DEF CleanInv
  <2>2. CASE Refresh
    BY <1>0, <2>2, RefreshClean DEF CleanInv
  <2>3. CASE SweepPoll
    BY <1>0, <2>3, SweepClean DEF CleanInv
  <2>4. CASE AwaitsStart \/ AwaitsEnd \/ Settles
    BY <1>0, <1>2, <2>4, RetuneClean DEF CleanInv
  <2>5. CASE StopClears
    BY <1>0, <2>5, ClearsClean DEF CleanInv
  <2>6. CASE Start
    BY <1>0, <2>6, StartClean DEF CleanInv
  <2>7. CASE Stop \/ SetWideband \/ (\E n \in 1 .. MaxBands : SetRange(n))
             \/ (\E d \in Decs : RemoveDecimator(d))
    BY <1>0, <2>7, CommandsClean DEF CleanInv
  <2> QED  BY <1>2, <2>1, <2>2, <2>3, <2>4, <2>5, <2>6, <2>7
           DEF ScannerNext, Around, Scanning, UserCommand, Poll, SweepPoll
<1> QED  BY <1>1, <1>2

LEMMA CleanInvInit == ScannerInit => CleanInv
<1> SUFFICES ASSUME ScannerInit PROVE CleanInv
  OBVIOUS
<1>1. LocksInv
  BY LocksInvInit
<1>2. /\ fft = [avg |-> Fresh, valid |-> TRUE, pending |-> FALSE, stale |-> FALSE]
      /\ ~trusted /\ timer.late = FALSE
  BY DEF ScannerInit
<1>3. fft.valid /\ ~fft.pending
  BY <1>2
<1> QED  BY <1>1, <1>2, <1>3 DEF CleanInv, Clean, LocksAreReal

\* Without a retune that takes a minute nothing is given up.
LEMMA InTimeIsCalm ==
    ASSUME LocksInv, [ScannerNext]_contVars, ~timer.late
    PROVE  GivesUpCalmly
<1> SUFFICES ASSUME me.running, me.state = "retuning", ~me.done PROVE me'.state # "scanning"
  BY DEF GivesUpCalmly
<1>1. LocksTyped /\ Stopping /\ OneLockEach /\ me \in Scanner
  BY DEF LocksInv, LocksTyped
<1>2. CASE Around \/ Refresh \/ UNCHANGED contVars
  <2>1. me' = me
    BY <1>1, <1>2, AroundTyped DEF Refresh, contVars
  <2> QED  BY <2>1
<1>3. CASE SweepPoll
  BY <1>1, <1>3, SweepPolls DEF Stopping
<1>4. CASE AwaitsStart \/ AwaitsEnd \/ Settles
  BY <1>1, <1>4, RetunePolls DEF GivesItUp, Arrives, StillAwaits, SeesStart, SeesEnd, Scanner
<1>5. CASE StopClears
  BY <1>1, <1>5, Clears
<1>6. CASE Start
  BY <1>6 DEF Start
<1>7. CASE Stop \/ SetWideband \/ (\E n \in 1 .. MaxBands : SetRange(n))
           \/ (\E d \in Decs : RemoveDecimator(d))
  BY <1>1, <1>7, OtherCommands
<1> QED  BY <1>2, <1>3, <1>4, <1>5, <1>6, <1>7
         DEF ScannerNext, Around, Scanning, UserCommand, Poll, SweepPoll

LEMMA LocksInvSays ==
    ASSUME LocksInv
    PROVE  ScannerTypeOK /\ LocksAreTuned /\ OneLockEach /\ StoppedIsClear
<1>1. ScannerTypeOK
  BY BandsTyped DEF LocksInv, LocksTyped, Scanner, Planned, ScannerTypeOK, Bands
<1> QED  BY <1>1 DEF LocksInv, Stopping, StoppedIsClear

(***************************************************************************)
(* The continuous scanner's inductive invariant, whatever the plan, the      *)
(* signals and the decimators, the commands of the user, the commands to     *)
(* heimdall that are lost and the calibrations that come or take their time: *)
(* a retune is given up, or has settled, only when what the client has is of *)
(* the band heimdall is on, and a band's scan that began with a new average  *)
(* keeps looking at that band (scannerThread, initiateRetune, tuneTo, stop). *)
(***************************************************************************)
THEOREM LocksInvariant == ScannerInit /\ [][ScannerNext]_contVars => []LocksInv
BY LocksInvInit, LocksInvKept, PTL

(***************************************************************************)
(* However its retunes go, a lock of the continuous scanner names the        *)
(* frequency its decimator listens to, no decimator has two, and once stop() *)
(* is through nothing is locked, remembered or running (tuneTo,              *)
(* initiateRetune, stop).                                                    *)
(***************************************************************************)
THEOREM LocksKept ==
    ScannerSpec => [](ScannerTypeOK /\ LocksAreTuned /\ OneLockEach /\ StoppedIsClear)
BY LocksInvariant, LocksInvSays, PTL DEF ScannerSpec

(***************************************************************************)
(* As long as no retune is given up in the middle of a calibration, what a   *)
(* scan over bands locks on and remembers is or was in the air where it says,*)
(* too: neither the bursts of a calibration nor their late frames nor what is*)
(* left of another band gets into the average it looks at                    *)
(* (isCalibrationActive, scannerThread).                                     *)
(***************************************************************************)
THEOREM LocksCorrect == ScannerSpec /\ [][GivesUpCalmly]_contVars => []LocksSound
<1>1. CleanInv => LocksSound
  BY LocksInvSays DEF CleanInv, LocksSound
<1> QED  BY CleanInvInit, CleanInvKept, <1>1, PTL DEF ScannerSpec

(***************************************************************************)
(* In particular when each retune is over within the minute the scanner      *)
(* gives it, whatever calibrations heimdall goes through by itself           *)
(* (scannerThread, RETUNING).                                                *)
(***************************************************************************)
THEOREM LocksCorrectInTime == ScannerSpec /\ []~timer.late => []LocksSound
<1>1. ScannerSpec /\ []~timer.late => [][GivesUpCalmly]_contVars
  <2>1. LocksInv /\ [ScannerNext]_contVars /\ ~timer.late => [GivesUpCalmly]_contVars
    BY InTimeIsCalm
  <2> QED  BY <2>1, LocksInvariant, PTL DEF ScannerSpec
<1> QED  BY <1>1, LocksCorrect, PTL
=============================================================================
