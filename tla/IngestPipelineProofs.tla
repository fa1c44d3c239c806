------------------------ MODULE IngestPipelineProofs ------------------------
(***************************************************************************)
(* Theorems about IngestPipeline, for every number of devices and clearers *)
(* and every bound.                                                        *)
(*                                                                         *)
(* The argument for the counters: Control says where each thread is when   *)
(* it holds an item, CountersAccounted is then preserved by every step     *)
(* because a step that moves an item between a queue and a thread moves    *)
(* one unit between Len(queue) and Outgoing or Incoming, and a fetch_add   *)
(* or fetch_sub moves one between those and size.                          *)
(***************************************************************************)
EXTENDS IngestPipeline, FiniteSetTheorems, SequenceTheorems, TLAPS

USE DEF None, If1

\* What each thread holds at each place of its loop, and which threads have
\* ended when the queues are flushed for a restart.
Places ==
    /\ drain \in {"begin", "count", "exited"} => raw_set = None
    /\ drain = "collect" => Len(raw_set) < active
    /\ drain = "taken" => Len(raw_set) \in 1..active
    /\ drain \in {"check", "push"} => Len(raw_set) = active
    /\ conv \in {"taken", "push", "count"} <=> conv_set # None
    /\ ctl # "flushing" => flush[Control] = Resting
    /\ ctl = "joining" => ~streaming
    /\ ctl = "flushing" => /\ ~streaming
                           /\ drain = "exited" /\ conv = "exited"
                           /\ \A d \in Dev : cb[d] = "idle"
    /\ restarts <= MaxRestarts + 1
    /\ ctl \notin {"up", "started"} => restarts <= MaxRestarts

IInv == TypeOK /\ Places

-----------------------------------------------------------------------------
(* Facts about the data. *)

LEMMA Numbers ==
    /\ NumDevices \in Nat \ {0} /\ Raw = NumDevices + 1 /\ L2 = NumDevices + 2
    /\ Dev = 1..NumDevices /\ Queues = 1..NumDevices + 2
    /\ Raw \notin Dev /\ L2 \notin Dev /\ Raw # L2
    /\ Dev \subseteq Queues /\ Raw \in Queues /\ L2 \in Queues
BY ConstantsAssumption DEF Raw, L2, Dev, Queues

\* The blocks of run r are blocks, as long as r is a run.
LEMMA RunsAreBlocks ==
    ASSUME NEW r \in Nat, r <= MaxRestarts + 1
    PROVE  LastOfRun(r) \in Nat /\ LastOfRun(r) <= LastBlock /\ LastBlock \in Nat
<1> DEFINE k == MaxRestarts + 1 - r
<1>1. k \in Nat /\ MaxTick \in Nat /\ MaxRestarts \in Nat
  BY ConstantsAssumption
<1>2. (MaxRestarts + 1 + 1) * MaxTick = (r + 1) * MaxTick + k * MaxTick
  BY <1>1
<1>3. (r + 1) * MaxTick \in Nat /\ k * MaxTick \in Nat
  BY <1>1
<1> QED  BY <1>2, <1>3 DEF LastOfRun, LastBlock

\* A set of fewer blocks than there are devices can grow by a block.
LEMMA SetGrows ==
    ASSUME NEW set \in {None} \cup Set, NEW b \in Block, Len(set) < NumDevices
    PROVE  /\ Append(set, b) \in Set
           /\ Len(Append(set, b)) = Len(set) + 1
<1>1. CASE set = None
  BY <1>1, Numbers DEF Set
<1>2. CASE set \in Set
  <2>1. PICK n \in Dev : set \in [1..n -> Block]
    BY <1>2 DEF Set
  <2>2. set \in Seq(Block) /\ Len(set) = n /\ n + 1 \in Dev
    BY <2>1, Numbers
  <2>3. Append(set, b) \in [1..n + 1 -> Block] /\ Len(Append(set, b)) = n + 1
    BY <2>2, AppendProperties, LenProperties
  <2> QED  BY <2>2, <2>3 DEF Set
<1> QED  BY <1>1, <1>2

\* The length of a set.
LEMMA SetLength ==
    ASSUME NEW set \in Set
    PROVE  Len(set) \in Dev /\ set # None /\ set \in [1..Len(set) -> Block]
<1>1. PICK n \in Dev : set \in [1..n -> Block]
  BY DEF Set
<1>2. n \in Nat /\ n >= 1
  BY <1>1, Numbers
<1>3. set \in Seq(Block) /\ Len(set) = n
  BY <1>1, <1>2
<1> QED  BY <1>1, <1>2, <1>3

\* The programs of the clearers.
LEMMA Programs ==
    /\ ClearL1 \in Seq(Queues) /\ ClearL1 # <<>>
    /\ ClearL2 \in Seq(Queues) /\ ClearL2 # <<>>
    /\ StopFlush \in Seq(Queues) /\ StopFlush # <<>>
<1>1. [d \in Dev |-> d] \in Seq(Queues)
  BY Numbers
<1>2. <<Raw>> \in Seq(Queues) /\ <<Raw, L2>> \in Seq(Queues)
  BY Numbers
<1>3. ClearL1 \in Seq(Queues) /\ Len(ClearL1) = 1 + Len([d \in Dev |-> d])
  BY <1>1, <1>2, ConcatProperties DEF ClearL1
<1>4. StopFlush \in Seq(Queues) /\ Len(StopFlush) = Len(ClearL1) + 2
  BY <1>2, <1>3, ConcatProperties DEF StopFlush, ClearL2
<1>5. Len([d \in Dev |-> d]) \in Nat
  BY <1>1, LenProperties
<1> QED  BY <1>2, <1>3, <1>4, <1>5 DEF ClearL2

-----------------------------------------------------------------------------
(* Type correctness. *)

LEMMA InitIInv == Init => IInv
<1> SUFFICES ASSUME Init PROVE IInv
  OBVIOUS
<1> USE ConstantsAssumption, Numbers DEF Init
<1>1. LastBlock \in Nat /\ 1 <= MaxRestarts + 1
  BY RunsAreBlocks
<1>2. QueuesOK
  BY DEF QueuesOK
<1>3. ClearersOK
  <2>1. \A f \in Clearers : flush[f] = Resting
    OBVIOUS
  <2>2. Resting.todo = <<>> /\ Resting.held = None /\ <<>> \in Seq(Queues)
    BY DEF Resting
  <2>3. flush = [f \in Clearers |-> [todo |-> flush[f].todo, held |-> flush[f].held]]
    BY <2>1, <2>2, Zenon DEF Resting
  <2>4. \A f \in Clearers : flush[f].todo \in Seq(Queues) /\ flush[f].held = None
    BY <2>1, <2>2
  <2> QED  BY <2>3, <2>4 DEF ClearersOK
<1>4. TypeOK
  <2>1. tick \in [Dev -> 1..LastBlock + 1]
    BY <1>1
  <2>2. free \in [Dev -> Nat] /\ cb \in [Dev -> {"idle", "enqueued"}]
    OBVIOUS
  <2>3. active \in ActiveCounts /\ restarts = 0
    OBVIOUS
  <2>4. /\ pipeline_running \in BOOLEAN /\ streaming \in BOOLEAN
        /\ coherence_lost \in BOOLEAN /\ lossy \in BOOLEAN /\ flushed \in BOOLEAN
    OBVIOUS
  <2>5. /\ l2_raw_cap \in {L2RawCalMax, L2RawMax}
        /\ gen_at_start \in Nat /\ timeouts \in Nat /\ flush_generation \in Nat /\ flushes \in Nat
    OBVIOUS
  <2>6. /\ raw_set \in {None} \cup Set
    /\ conv_set \in {None} \cup Set
    /\ broadcast \in {None} \cup Set
    OBVIOUS
  <2>7. /\ drain = "begin" /\ conv = "wait" /\ corr = "wait" /\ ctl = "up"
    OBVIOUS
  <2> HIDE DEF Init
  <2> QED  BY <1>2, <1>3, <2>1, <2>2, <2>3, <2>4, <2>5, <2>6, <2>7 DEF TypeOK
<1>5. Places
  BY DEF Places, Clearers
<1> QED  BY <1>4, <1>5 DEF IInv

\* The queues after the operations that all threads use.
LEMMA QueueTypes ==
    ASSUME TypeOK, NEW q \in Queues
    PROVE  /\ \A item \in Item(q) : Put(q, item) =>
                 /\ queue' = [p \in Queues |-> queue'[p]]
                 /\ \A p \in Queues : queue'[p] \in Seq(Item(p))
                 /\ \A p \in Queues : Len(queue'[p]) = Len(queue[p]) + If1(p = q)
           /\ Take(q) =>
                 /\ queue' = [p \in Queues |-> queue'[p]]
                 /\ \A p \in Queues : queue'[p] \in Seq(Item(p))
                 /\ \A p \in Queues : Len(queue'[p]) = Len(queue[p]) - If1(p = q)
                 /\ Head(queue[q]) \in Item(q)
           /\ CountIn(q) => /\ size' \in [Queues -> Int]
                            /\ \A p \in Queues : size'[p] = size[p] + If1(p = q)
           /\ CountOut(q) => /\ size' \in [Queues -> Int]
                             /\ \A p \in Queues : size'[p] = size[p] - If1(p = q)
<1> USE DEF TypeOK, QueuesOK
<1>1. \A p \in Queues : queue[p] \in Seq(Item(p)) /\ Len(queue[p]) \in Nat
  BY LenProperties
<1>2. ASSUME NEW item \in Item(q), Put(q, item)
      PROVE  /\ queue' = [p \in Queues |-> queue'[p]]
             /\ \A p \in Queues : queue'[p] \in Seq(Item(p))
             /\ \A p \in Queues : Len(queue'[p]) = Len(queue[p]) + If1(p = q)
  <2>1. queue' = [p \in Queues |-> IF p = q THEN Append(queue[q], item) ELSE queue[p]]
    BY <1>2 DEF Put
  <2>2. Append(queue[q], item) \in Seq(Item(q)) /\ Len(Append(queue[q], item)) = Len(queue[q]) + 1
    BY <1>1, AppendProperties
  <2> QED  BY <1>1, <2>1, <2>2
<1>3. ASSUME Take(q)
      PROVE  /\ queue' = [p \in Queues |-> queue'[p]]
             /\ \A p \in Queues : queue'[p] \in Seq(Item(p))
             /\ \A p \in Queues : Len(queue'[p]) = Len(queue[p]) - If1(p = q)
             /\ Head(queue[q]) \in Item(q)
  <2>1. queue' = [p \in Queues |-> IF p = q THEN Tail(queue[q]) ELSE queue[p]]
    BY <1>3 DEF Take
  <2>2. Tail(queue[q]) \in Seq(Item(q)) /\ Len(Tail(queue[q])) = Len(queue[q]) - 1
        /\ Head(queue[q]) \in Item(q)
    BY <1>1, <1>3, HeadTailProperties DEF Take
  <2> QED  BY <1>1, <2>1, <2>2
<1>4. CountIn(q) => /\ size' \in [Queues -> Int]
                    /\ \A p \in Queues : size'[p] = size[p] + If1(p = q)
  BY DEF CountIn
<1>5. CountOut(q) => /\ size' \in [Queues -> Int]
                     /\ \A p \in Queues : size'[p] = size[p] - If1(p = q)
  BY DEF CountOut
<1> QED  BY <1>2, <1>3, <1>4, <1>5

LEMMA PushTypes ==
    ASSUME TypeOK, NEW q \in {Raw, L2}, NEW cap, NEW set \in Set,
           PushDropOldest(q, cap, set)
    PROVE  /\ queue' = [p \in Queues |-> queue'[p]]
           /\ \A p \in Queues : queue'[p] \in Seq(Item(p))
           /\ size' \in [Queues -> Int]
           /\ \A p \in Queues : Len(queue'[p]) - size'[p] = Len(queue[p]) - size[p] + If1(p = q)
<1>1. q \in Queues /\ Item(q) = Set
  BY Numbers DEF Item
<1>2. CASE MustDrop(q, cap)
  <2>1. queue[q] # <<>> /\ queue[q] \in Seq(Set) /\ CountOut(q)
        /\ queue' = [queue EXCEPT ![q] = Append(Tail(@), set)]
    BY <1>1, <1>2 DEF PushDropOldest, MustDrop, TypeOK, QueuesOK
  <2>2. /\ Tail(queue[q]) \in Seq(Set) /\ Len(Tail(queue[q])) = Len(queue[q]) - 1
        /\ Len(queue[q]) \in Nat
    BY <2>1, HeadTailProperties, LenProperties
  <2>3. /\ Append(Tail(queue[q]), set) \in Seq(Set)
        /\ Len(Append(Tail(queue[q]), set)) = Len(queue[q])
    BY <2>2, AppendProperties
  <2>4. queue' = [p \in Queues |-> IF p = q THEN Append(Tail(queue[q]), set) ELSE queue[p]]
    BY <2>1 DEF TypeOK, QueuesOK
  <2>5. /\ size' \in [Queues -> Int]
        /\ \A p \in Queues : size'[p] = size[p] - If1(p = q)
    BY <1>1, <2>1, QueueTypes
  <2>6. \A p \in Queues : queue[p] \in Seq(Item(p)) /\ Len(queue[p]) \in Nat /\ size[p] \in Int
    BY LenProperties DEF TypeOK, QueuesOK
  <2> QED  BY <1>1, <2>3, <2>4, <2>5, <2>6
<1>3. CASE ~MustDrop(q, cap)
  <2>1. Put(q, set) /\ size' = size
    BY <1>3 DEF PushDropOldest
  <2>2. \A p \in Queues : Len(queue[p]) \in Nat /\ size[p] \in Int
    BY LenProperties DEF TypeOK, QueuesOK
  <2>3. size \in [Queues -> Int]
    BY DEF TypeOK, QueuesOK
  <2>4. /\ queue' = [p \in Queues |-> queue'[p]]
        /\ \A p \in Queues : queue'[p] \in Seq(Item(p))
        /\ \A p \in Queues : Len(queue'[p]) = Len(queue[p]) + If1(p = q)
    BY <1>1, <2>1, QueueTypes
  <2>5. \A p \in Queues : Len(queue'[p]) - size'[p] = Len(queue[p]) - size[p] + If1(p = q)
    <3> SUFFICES ASSUME NEW p \in Queues
                 PROVE  Len(queue'[p]) - size'[p] = Len(queue[p]) - size[p] + If1(p = q)
      OBVIOUS
    <3>1. Len(queue'[p]) = Len(queue[p]) + If1(p = q) /\ size'[p] = size[p]
      BY <2>1, <2>4
    <3>2. Len(queue[p]) \in Nat /\ size[p] \in Int
      BY <2>2
    <3>3. CASE p = q
      BY <3>1, <3>2, <3>3
    <3>4. CASE p # q
      BY <3>1, <3>2, <3>4
    <3> QED  BY <3>3, <3>4
  <2> QED  BY <2>1, <2>3, <2>4, <2>5
<1> QED  BY <1>2, <1>3

LEMMA RecycledType ==
    ASSUME TypeOK, NEW n
    PROVE  Recycled(n) \in [Dev -> Nat]
BY DEF Recycled, TypeOK

\* The parts of the invariant that a step leaves alone.
LEMMA Frames ==
    ASSUME TypeOK
    PROVE  /\ UNCHANGED <<queue, size, leaked>> => QueuesOK'
           /\ UNCHANGED flush => ClearersOK'
<1>1. QueuesOK /\ ClearersOK
  BY DEF TypeOK
<1>2. UNCHANGED <<queue, size, leaked>> => QueuesOK'
  BY <1>1 DEF QueuesOK
<1>3. UNCHANGED flush => ClearersOK'
  BY <1>1 DEF ClearersOK, Target
<1> QED  BY <1>2, <1>3

LEMMA CallbackIInv ==
    ASSUME IInv, NEW d \in Dev, Callback(d) \/ CallbackCount(d)
    PROVE  IInv'
<1> USE DEF IInv
<1>1. d \in Queues /\ Item(d) = Block /\ size \in [Queues -> Int] /\ leaked \in [Queues -> Nat]
  BY Numbers DEF Item, TypeOK, QueuesOK
<1>2. CASE Callback(d)
  <2> USE <1>2
  <2>1. /\ tick' = [tick EXCEPT ![d] = @ + 1]
        /\ UNCHANGED <<size, l2_raw_cap, drainVars, convVars, corr, flushVars, ctlVars, leaked>>
        /\ tick[d] <= LastOfRun(restarts) /\ streaming
    BY DEF Callback
  <2>2. tick[d] \in Block /\ tick' \in [Dev -> 1..LastBlock + 1]
    BY RunsAreBlocks, <2>1 DEF TypeOK, Places, Block
  <2>3. QueuesOK' /\ free' \in [Dev -> Nat] /\ cb' \in [Dev -> {"idle", "enqueued"}]
    <3>1. CASE CallbackDrop(d)
      BY <2>1, <3>1, Frames DEF CallbackDrop, TypeOK
    <3>2. CASE CallbackEnqueue(d)
      <4>1. Put(d, tick[d]) /\ free[d] > 0 /\ free' = [free EXCEPT ![d] = @ - 1]
            /\ cb' = [cb EXCEPT ![d] = "enqueued"]
        BY <3>2 DEF CallbackEnqueue, HasRoom
      <4>2. QueuesOK'
        BY <1>1, <2>1, <2>2, <4>1, QueueTypes DEF QueuesOK
      <4> QED  BY <4>1, <4>2 DEF TypeOK
    <3> QED  BY <3>1, <3>2 DEF Callback
  <2>4. coherence_lost' \in BOOLEAN /\ lossy' \in BOOLEAN
    BY DEF Callback, CallbackDrop, CallbackEnqueue, SignalDrop, SignalCoherenceLost,
           TypeOK, lossVars
  <2>5. TypeOK'
    BY <2>1, <2>2, <2>3, <2>4, Frames
       DEF TypeOK, drainVars, convVars, flushVars, ctlVars
  <2>6. Places'
    BY <2>1 DEF Places, drainVars, convVars, flushVars, ctlVars
  <2> QED  BY <2>5, <2>6
<1>3. CASE CallbackCount(d)
  <2> USE <1>3 DEF CallbackCount
  <2>1. QueuesOK'
    BY <1>1, QueueTypes DEF QueuesOK, TypeOK
  <2>2. cb' \in [Dev -> {"idle", "enqueued"}] /\ cb' = [cb EXCEPT ![d] = "idle"]
    BY DEF TypeOK
  <2>3. TypeOK'
    BY <2>1, <2>2, Frames DEF TypeOK, drainVars, convVars, flushVars, ctlVars, lossVars
  <2>4. Places'
    BY <2>2 DEF Places, drainVars, convVars, flushVars, ctlVars, TypeOK
  <2> QED  BY <2>3, <2>4
<1> QED  BY <1>2, <1>3

\* What a step of the drain has to keep.
DrainTypes ==
    /\ QueuesOK
    /\ free \in [Dev -> Nat]
    /\ drain \in {"begin", "collect", "taken", "check", "push", "count", "exited"}
    /\ raw_set \in {None} \cup Set
    /\ gen_at_start \in Nat /\ timeouts \in Nat
    /\ coherence_lost \in BOOLEAN /\ lossy \in BOOLEAN

DrainPlaces ==
    /\ drain \in {"begin", "count", "exited"} => raw_set = None
    /\ drain = "collect" => Len(raw_set) < active
    /\ drain = "taken" => Len(raw_set) \in 1..active
    /\ drain \in {"check", "push"} => Len(raw_set) = active

LEMMA GiveUpTypes ==
    ASSUME TypeOK, NEW pc \in {"begin", "exited"}, GiveUp(pc)
    PROVE  /\ drain' = pc /\ raw_set' = None /\ free' \in [Dev -> Nat]
BY RecycledType DEF GiveUp

LEMMA DrainIInv ==
    ASSUME IInv, Drain
    PROVE  IInv'
<1> USE DEF IInv
<1> DEFINE moves == UNCHANGED <<devVars, l2_raw_cap, convVars, corr, flushVars, ctlVars>>
<1>0. /\ active \in Dev /\ active \in Nat /\ DrainTypes /\ DrainPlaces /\ moves
      /\ Len(None) = 0
  BY ConstantsAssumption, Numbers
     DEF TypeOK, Places, Drain, DrainTypes, DrainPlaces
<1>1. (DrainTypes /\ DrainPlaces)'
  <2>1. CASE DrainBegin
    BY <1>0, <2>1, Frames, Numbers DEF DrainBegin, TypeOK, DrainPlaces, ctlVars, DrainTypes,
       lossVars
  <2>2. CASE DrainTake
    <3>1. /\ drain = "collect" /\ drain' = "taken" /\ Take(Waiting)
          /\ raw_set' = Append(raw_set, Head(queue[Waiting])) /\ active' = active
          /\ UNCHANGED <<gen_at_start, timeouts, free, size, lossVars, leaked>>
      BY <1>0, <2>2 DEF DrainTake, ctlVars
    <3>2. Len(raw_set) \in Nat /\ Len(raw_set) < active /\ raw_set \in {None} \cup Set
      BY <1>0, <3>1, SetLength, Numbers DEF DrainTypes, DrainPlaces
    <3>3. Waiting \in Dev /\ Waiting \in Queues /\ Item(Waiting) = Block
      BY <1>0, <3>2, Numbers DEF Waiting, Item
    <3>4. QueuesOK' /\ Head(queue[Waiting]) \in Block
      BY <3>1, <3>3, QueueTypes DEF QueuesOK, TypeOK
    <3>5. raw_set' \in Set /\ Len(raw_set') = Len(raw_set) + 1
      BY <1>0, <3>1, <3>2, <3>4, SetGrows, Numbers
    <3> QED  BY <1>0, <3>1, <3>2, <3>4, <3>5 DEF DrainTypes, DrainPlaces, lossVars
  <2>3. CASE DrainTimeout
    <3>1. UNCHANGED <<gen_at_start, queue, size, leaked>> /\ active' = active /\ QueuesOK'
      BY <1>0, <2>3, Frames DEF DrainTimeout, ctlVars
    <3>2. CASE StopSeen /\ GiveUp("exited") /\ UNCHANGED <<timeouts, lossVars>>
      BY <1>0, <3>1, <3>2, GiveUpTypes DEF DrainTypes, DrainPlaces, lossVars
    <3>3. CASE /\ ~StopSeen
               /\ timeouts' = NextTimeouts
               /\ IF timeouts + 1 = StuckMax THEN SignalCoherenceLost ELSE UNCHANGED lossVars
               /\ UNCHANGED <<drain, raw_set, free>>
      <4>1. timeouts' \in Nat
        BY <1>0, <3>3 DEF NextTimeouts, DrainTypes
      <4>2. coherence_lost' \in BOOLEAN /\ lossy' \in BOOLEAN
        BY <1>0, <3>3, Zenon DEF DrainTypes, SignalCoherenceLost, lossVars
      <4> QED  BY <1>0, <3>1, <3>3, <4>1, <4>2 DEF DrainTypes, DrainPlaces
    <3> QED  BY <2>3, <3>2, <3>3 DEF DrainTimeout
  <2>4. CASE DrainQuit
    <3>1. /\ drain = "taken" /\ GiveUp("exited")
          /\ leaked' = [leaked EXCEPT ![Len(raw_set)] = @ + 1] /\ active' = active
          /\ UNCHANGED <<gen_at_start, timeouts, queue, size, lossVars>>
      BY <1>0, <2>4 DEF DrainQuit, ctlVars
    <3>2. QueuesOK'
      <4>1. Len(raw_set) \in Queues
        BY <1>0, <3>1, Numbers DEF DrainPlaces
      <4>2. leaked' \in [Queues -> Nat]
        BY <1>0, <3>1, <4>1 DEF DrainTypes, QueuesOK
      <4> QED  BY <1>0, <3>1, <4>2 DEF DrainTypes, QueuesOK
    <3> QED  BY <1>0, <3>1, <3>2, GiveUpTypes DEF DrainTypes, DrainPlaces, lossVars
  <2>5. CASE DrainCountOut
    <3>1. /\ drain = "taken" /\ CountOut(Len(raw_set)) /\ timeouts' = 0
          /\ drain' = IF Len(raw_set) = active THEN "check" ELSE "collect"
          /\ active' = active
          /\ UNCHANGED <<raw_set, gen_at_start, free, queue, lossVars, leaked>>
      BY <1>0, <2>5 DEF DrainCountOut, ctlVars
    <3>2. Len(raw_set) \in 1..active /\ Len(raw_set) \in Queues
      BY <1>0, <3>1, Numbers DEF DrainPlaces
    <3>3. QueuesOK'
      BY <1>0, <3>1, <3>2, QueueTypes DEF DrainTypes, QueuesOK
    <3> QED  BY <1>0, <3>1, <3>2, <3>3 DEF DrainTypes, DrainPlaces, lossVars
  <2>6. CASE DrainCheck
    BY <1>0, <2>6, Frames, GiveUpTypes DEF DrainCheck, ctlVars, DrainTypes, DrainPlaces, lossVars
  <2>7. CASE DrainPush
    <3>1. /\ drain = "push" /\ drain' = "count" /\ PushDropOldest(Raw, l2_raw_cap, raw_set)
          /\ free' = IF MustDrop(Raw, l2_raw_cap)
                     THEN Recycled(Len(Head(queue[Raw]))) ELSE free
          /\ raw_set' = None /\ active' = active
          /\ UNCHANGED <<gen_at_start, timeouts, lossVars, leaked>>
      BY <1>0, <2>7 DEF DrainPush, NewSet, ctlVars
    <3>2. raw_set \in Set
      BY <1>0, <3>1, Numbers DEF DrainTypes, DrainPlaces
    <3>3. QueuesOK'
      BY <1>0, <3>1, <3>2, PushTypes DEF DrainTypes, QueuesOK
    <3>4. free' \in [Dev -> Nat]
      BY <1>0, <3>1, RecycledType DEF DrainTypes
    <3> QED  BY <1>0, <3>1, <3>3, <3>4 DEF DrainTypes, DrainPlaces, lossVars
  <2>8. CASE DrainCount
    <3>1. /\ drain = "count" /\ drain' = "begin" /\ CountIn(Raw) /\ active' = active
          /\ UNCHANGED <<raw_set, gen_at_start, timeouts, free, queue, lossVars, leaked>>
      BY <1>0, <2>8 DEF DrainCount, ctlVars
    <3>2. QueuesOK'
      <4>1. size' \in [Queues -> Int] /\ queue' = queue /\ leaked' = leaked
        BY <3>1, QueueTypes, Numbers
      <4> QED  BY <1>0, <4>1 DEF DrainTypes, QueuesOK
    <3> QED  BY <1>0, <3>1, <3>2 DEF DrainTypes, DrainPlaces, lossVars
  <2> QED  BY <2>1, <2>2, <2>3, <2>4, <2>5, <2>6, <2>7, <2>8 DEF Drain
<1>2. drain = "exited" => drain' = "exited"
  BY DEF Drain, DrainBegin, DrainTake, DrainTimeout, DrainQuit, DrainCountOut,
         DrainCheck, DrainPush, DrainCount
<1>3. TypeOK'
  BY <1>0, <1>1, Frames DEF TypeOK, DrainTypes, devVars, convVars, flushVars, ctlVars
<1>4. Places'
  BY <1>0, <1>1, <1>2 DEF Places, DrainPlaces, devVars, convVars, flushVars, ctlVars
<1> QED  BY <1>3, <1>4

\* What a step of the conversion worker has to keep.
ConvTypes ==
    /\ QueuesOK
    /\ free \in [Dev -> Nat]
    /\ conv \in {"wait", "taken", "push", "count", "exited"}
    /\ conv_set \in {None} \cup Set
    /\ broadcast \in {None} \cup Set
    /\ conv \in {"taken", "push", "count"} <=> conv_set # None

LEMMA ConvIInv ==
    ASSUME IInv, Conv
    PROVE  IInv'
<1> USE DEF IInv
<1>0. /\ ConvTypes
      /\ UNCHANGED <<devVars, l2_raw_cap, drainVars, corr, flushVars, ctlVars, lossVars>>
  BY DEF TypeOK, Places, Conv, ConvTypes
<1>a. Raw \in Queues /\ L2 \in Queues /\ Item(Raw) = Set
  BY Numbers DEF Item
<1>1. ConvTypes'
  <2>1. CASE ConvTake
    BY <2>1, <1>a, <1>0, QueueTypes, SetLength DEF ConvTake, ConvTypes, QueuesOK
  <2>2. CASE ConvTimeout
    BY <2>2, <1>0, Frames DEF ConvTimeout, ConvTypes
  <2>3. CASE ConvQuit
    BY <2>3, <1>0, <1>a, RecycledType DEF ConvQuit, ConvTypes, QueuesOK
  <2>4. CASE ConvBroadcast
    BY <2>4, <1>a, QueueTypes, <1>0 DEF ConvBroadcast, ConvTypes, QueuesOK
  <2>5. CASE ConvPush
    BY <2>5, <1>0, PushTypes DEF ConvPush, ConvTypes, QueuesOK
  <2>6. CASE ConvCount
    BY <2>6, <1>a, QueueTypes, RecycledType, <1>0 DEF ConvCount, ConvTypes, QueuesOK
  <2> QED  BY <2>1, <2>2, <2>3, <2>4, <2>5, <2>6 DEF Conv
<1>2. conv = "exited" => conv' = "exited"
  BY DEF Conv, ConvTake, ConvTimeout, ConvQuit, ConvBroadcast, ConvPush, ConvCount
<1>3. TypeOK'
  BY <1>0, <1>1, Frames
     DEF TypeOK, ConvTypes, devVars, drainVars, flushVars, ctlVars, lossVars
<1>4. Places'
  BY <1>0, <1>1, <1>2 DEF Places, ConvTypes, devVars, drainVars, flushVars, ctlVars
<1> QED  BY <1>3, <1>4

LEMMA CorrIInv ==
    ASSUME IInv, Corr
    PROVE  IInv'
<1> USE DEF IInv
<1>1. UNCHANGED <<devVars, free, l2_raw_cap, drainVars, convVars, flushVars, ctlVars, lossVars, leaked>>
  BY DEF Corr
<1>2. L2 \in Queues /\ QueuesOK
  BY Numbers DEF TypeOK
<1>3. QueuesOK' /\ corr' \in {"wait", "taken"}
  <2>1. CASE CorrTake
    BY <1>1, <1>2, <2>1, QueueTypes DEF CorrTake, QueuesOK
  <2>2. CASE CorrCountOut
    BY <1>2, <2>2, QueueTypes, <1>1 DEF CorrCountOut, QueuesOK
  <2> QED  BY <2>1, <2>2 DEF Corr
<1>4. TypeOK'
  BY <1>1, <1>3, Frames
     DEF TypeOK, devVars, drainVars, convVars, flushVars, ctlVars, lossVars
<1>5. Places'
  BY <1>1 DEF Places, devVars, drainVars, convVars, flushVars, ctlVars
<1> QED  BY <1>4, <1>5

LEMMA CapIInv ==
    ASSUME IInv, SetRawCap
    PROVE  IInv'
<1> USE DEF IInv, SetRawCap
<1>1. TypeOK'
  BY Frames DEF TypeOK, devVars, drainVars, convVars, flushVars, ctlVars, lossVars
<1>2. Places'
  BY DEF Places, devVars, drainVars, convVars, flushVars, ctlVars
<1> QED  BY <1>1, <1>2

\* A new value of what one clearer has to do and holds.
LEMMA ClearerUpdate ==
    ASSUME ClearersOK, NEW f \in Clearers, NEW todo \in Seq(Queues), NEW held,
           \/ held = None
           \/ /\ todo # <<>>
              /\ held = <<Head(held)>>
              /\ Head(held) \in Item(Head(todo)),
           FlushState(f, todo, held)
    PROVE  /\ ClearersOK'
           /\ flush'[f].todo = todo /\ flush'[f].held = held
           /\ \A g \in Clearers \ {f} : flush'[g] = flush[g]
<1>1. /\ flush = [g \in Clearers |-> [todo |-> flush[g].todo, held |-> flush[g].held]]
      /\ \A g \in Clearers :
          /\ flush[g].todo \in Seq(Queues)
          /\ flush[g].held # None =>
                /\ flush[g].todo # <<>>
                /\ flush[g].held = <<Head(flush[g].held)>>
                /\ Head(flush[g].held) \in Item(Head(flush[g].todo))
  BY DEF ClearersOK, Target
<1>2. flush' = [g \in Clearers |-> IF g = f THEN [todo |-> todo, held |-> held] ELSE flush[g]]
  BY <1>1 DEF FlushState
<1>3. /\ flush'[f].todo = todo /\ flush'[f].held = held
      /\ \A g \in Clearers \ {f} : flush'[g] = flush[g]
  BY <1>2
<1>4. flush' = [g \in Clearers |-> [todo |-> flush'[g].todo, held |-> flush'[g].held]]
  BY <1>1, <1>2
<1>5. \A g \in Clearers :
          /\ flush'[g].todo \in Seq(Queues)
          /\ flush'[g].held # None =>
                /\ flush'[g].todo # <<>>
                /\ flush'[g].held = <<Head(flush'[g].held)>>
                /\ Head(flush'[g].held) \in Item(Head(flush'[g].todo))
  <2> SUFFICES ASSUME NEW g \in Clearers
      PROVE  /\ flush'[g].todo \in Seq(Queues)
             /\ flush'[g].held # None =>
                /\ flush'[g].todo # <<>>
                /\ flush'[g].held = <<Head(flush'[g].held)>>
                /\ Head(flush'[g].held) \in Item(Head(flush'[g].todo))
    OBVIOUS
  <2>1. CASE g = f
    BY <1>3, <2>1
  <2>2. CASE g # f
    BY <1>1, <1>3, <2>2
  <2> QED  BY <2>1, <2>2
<1> QED  BY <1>3, <1>4, <1>5 DEF ClearersOK, Target

LEMMA BeginFlushIInv ==
    ASSUME IInv, NEW f \in Flushers, BeginFlush(f)
    PROVE  IInv'
<1> USE DEF IInv
<1>1. /\ UNCHANGED <<devVars, free, queue, size, l2_raw_cap, drainVars, convVars,
                     corr, flush_generation, ctlVars, lossy, leaked>>
      /\ flushes' = flushes + 1 /\ flush[f] = Resting
  BY DEF BeginFlush
<1>2. f \in Clearers /\ f # Control /\ ClearersOK
  BY ConstantsAssumption DEF Clearers, TypeOK
<1>3. \E program \in Seq(Queues) : Start(f, program)
  BY Programs DEF BeginFlush, BeginClearL1, BeginClearL2
<1>4. ClearersOK' /\ flush'[Control] = flush[Control]
  <2>1. PICK program \in Seq(Queues) : Start(f, program)
    BY <1>3
  <2>2. Control \in Clearers \ {f}
    BY <1>2 DEF Clearers
  <2> QED  BY <1>2, <2>1, <2>2, ClearerUpdate DEF Start
<1>5. /\ flushed' \in BOOLEAN /\ coherence_lost' \in BOOLEAN
  BY DEF BeginFlush, BeginClearL1, BeginClearL2, TypeOK
<1>6. TypeOK'
  BY <1>1, <1>4, <1>5, Frames DEF TypeOK, devVars, drainVars, convVars, ctlVars
<1>7. Places'
  BY <1>1, <1>4 DEF Places, devVars, drainVars, convVars, ctlVars
<1> QED  BY <1>6, <1>7

LEMMA FlushIInv ==
    ASSUME IInv, NEW f \in Clearers, Flush(f)
    PROVE  IInv'
<1> USE DEF IInv
<1>1. /\ UNCHANGED <<devVars, l2_raw_cap, drainVars, convVars, corr, flushes,
                     flushed, ctlVars, lossVars, leaked>>
      /\ flush[f].todo # <<>>
  BY DEF Flush
<1>2. /\ QueuesOK /\ ClearersOK
      /\ flush = [g \in Clearers |-> [todo |-> flush[g].todo, held |-> flush[g].held]]
      /\ flush[f].todo \in Seq(Queues)
  BY DEF TypeOK, ClearersOK
<1>3. Target(f) \in Queues /\ Tail(flush[f].todo) \in Seq(Queues)
  BY <1>1, <1>2, HeadTailProperties DEF Target
<1>4. /\ QueuesOK' /\ ClearersOK' /\ free' \in [Dev -> Nat] /\ flush_generation' \in Nat
      /\ \A g \in Clearers \ {f} : flush'[g] = flush[g]
  <2>1. CASE FlushTake(f)
    <3>1. /\ Take(Target(f)) /\ FlushState(f, flush[f].todo, <<Head(queue[Target(f)])>>)
          /\ UNCHANGED <<free, size, flush_generation>>
      BY <2>1 DEF FlushTake
    <3>2. QueuesOK' /\ Head(queue[Target(f)]) \in Item(Target(f))
      BY <1>1, <1>2, <1>3, <3>1, QueueTypes DEF QueuesOK
    <3>4. ClearersOK' /\ \A g \in Clearers \ {f} : flush'[g] = flush[g]
      <4>1. Head(<<Head(queue[Target(f)])>>) = Head(queue[Target(f)])
        OBVIOUS
      <4>2. Head(<<Head(queue[Target(f)])>>) \in Item(Head(flush[f].todo))
        BY <3>2, <4>1 DEF Target
      <4> QED  BY <1>1, <1>2, <3>1, <4>1, <4>2, ClearerUpdate
    <3> QED  BY <3>1, <3>2, <3>4 DEF TypeOK
  <2>2. CASE FlushCountOut(f)
    <3>1. /\ CountOut(Target(f)) /\ FlushState(f, flush[f].todo, None)
          /\ UNCHANGED <<queue, flush_generation>>
      BY <2>2 DEF FlushCountOut
    <3>2. size' \in [Queues -> Int]
      BY <1>3, <3>1, QueueTypes
    <3>3. QueuesOK'
      BY <1>1, <1>2, <3>1, <3>2 DEF QueuesOK
    <3>5. ClearersOK' /\ \A g \in Clearers \ {f} : flush'[g] = flush[g]
      BY <1>2, <3>1, ClearerUpdate
    <3>6. free' \in [Dev -> Nat]
      BY <2>2, RecycledType DEF FlushCountOut, TypeOK
    <3> QED  BY <3>1, <3>3, <3>5, <3>6 DEF TypeOK
  <2>3. CASE FlushNext(f)
    <3>1. /\ flush[f].held = None /\ FlushState(f, Tail(flush[f].todo), None)
          /\ UNCHANGED <<free, queue, size>> /\ flush_generation' \in Nat
      BY <2>3 DEF FlushNext, TypeOK
    <3>3. ClearersOK' /\ \A g \in Clearers \ {f} : flush'[g] = flush[g]
      BY <1>2, <1>3, <3>1, ClearerUpdate
    <3> QED  BY <1>1, <3>1, <3>3, Frames DEF TypeOK
  <2> QED  BY <2>1, <2>2, <2>3 DEF Flush
<1>5. ctl # "flushing" => flush'[Control] = flush[Control]
  BY <1>1, <1>4 DEF Places, Resting, Clearers
<1>6. TypeOK'
  BY <1>1, <1>4 DEF TypeOK, devVars, drainVars, convVars, ctlVars, lossVars
<1>7. Places'
  BY <1>1, <1>5 DEF Places, devVars, drainVars, convVars, ctlVars
<1> QED  BY <1>6, <1>7

LEMMA ControlIInv ==
    ASSUME IInv, ControlFrame,
           \/ StopPipeline \/ CancelReaders \/ Joined
           \/ StartPipeline \/ ForgetLoss \/ OpenFails
    PROVE  IInv'
<1> USE DEF IInv
<1>1. /\ UNCHANGED <<cb, free, queue, size, l2_raw_cap, raw_set, gen_at_start,
                     timeouts, conv_set, corr, flush_generation, flushes, leaked>>
      /\ QueuesOK' /\ ClearersOK
  BY Frames DEF ControlFrame, TypeOK
<1>2. CASE StopPipeline
  <2>1. /\ UNCHANGED <<tick, drain, conv, broadcast, flush, flushed, streaming,
                       active, restarts, lossVars>>
        /\ pipeline_running' = FALSE /\ ctl' = "stopping"
        /\ restarts \in Nat /\ MaxRestarts \in Nat
        /\ ctl = "down" \/ restarts < MaxRestarts
        /\ ctl # "flushing"
    BY <1>2, ConstantsAssumption DEF StopPipeline, TypeOK
  <2>2. TypeOK'
    <3>1. ClearersOK'
      BY <1>1, <2>1, Frames
    <3>2. /\ pipeline_running' \in BOOLEAN /\ streaming' \in BOOLEAN
          /\ coherence_lost' \in BOOLEAN /\ lossy' \in BOOLEAN /\ flushed' \in BOOLEAN
      BY <2>1, Zenon DEF TypeOK, lossVars
    <3> QED  BY <1>1, <2>1, <3>1, <3>2 DEF TypeOK, lossVars
  <2>3. Places'
    BY <1>1, <2>1 DEF Places
  <2> QED  BY <2>2, <2>3
<1>3. CASE CancelReaders
  <2>1. /\ UNCHANGED <<tick, drain, conv, broadcast, flush, flushed,
                       pipeline_running, active, restarts, lossVars>>
        /\ ctl = "stopping" /\ ctl' = "joining" /\ streaming' = FALSE
    BY <1>3 DEF CancelReaders
  <2>2. TypeOK'
    <3>1. ClearersOK'
      BY <1>1, <2>1, Frames
    <3>2. /\ pipeline_running' \in BOOLEAN /\ streaming' \in BOOLEAN
          /\ coherence_lost' \in BOOLEAN /\ lossy' \in BOOLEAN /\ flushed' \in BOOLEAN
      BY <2>1, Zenon DEF TypeOK, lossVars
    <3> QED  BY <1>1, <2>1, <3>1, <3>2 DEF TypeOK, lossVars
  <2>3. Places'
    BY <1>1, <2>1 DEF Places
  <2> QED  BY <2>2, <2>3
<1>4. CASE Joined
  <2>1. /\ UNCHANGED <<tick, drain, conv, broadcast, flushed, pipeline_running,
                       streaming, active, restarts, lossVars>>
        /\ ctl = "joining" /\ ctl' = "flushing" /\ drain = "exited" /\ conv = "exited"
        /\ \A d \in Dev : cb[d] = "idle"
        /\ Start(Control, StopFlush)
    BY <1>4 DEF Joined
  <2>2. ClearersOK'
    BY <1>1, <2>1, Programs, ClearerUpdate DEF Start, Clearers
  <2>3. TypeOK'
    BY <1>1, <2>1, <2>2 DEF TypeOK, lossVars
  <2>4. Places'
    BY <1>1, <2>1 DEF Places
  <2> QED  BY <2>3, <2>4
<1>5. CASE StartPipeline
  <2>1. /\ ctl = "flushing" /\ flush[Control] = Resting /\ restarts <= MaxRestarts
        /\ active' \in ActiveCounts /\ pipeline_running' = TRUE /\ streaming' = TRUE
        /\ tick' = [d \in Dev |-> LastOfRun(restarts) + 1]
        /\ drain' = "begin" /\ conv' = "wait" /\ restarts' = restarts + 1
        /\ ctl' = "started" /\ broadcast' = None
        /\ lossy' = FALSE /\ flushed' = FALSE
        /\ UNCHANGED <<flush, coherence_lost>>
    BY <1>5 DEF StartPipeline, Stopped, Places
  <2>2. drain = "exited" /\ conv = "exited" /\ raw_set = None /\ conv_set = None
    BY <2>1 DEF Places
  <2>3. tick' \in [Dev -> 1..LastBlock + 1]
    BY <2>1, ConstantsAssumption, RunsAreBlocks DEF TypeOK
  <2>4. TypeOK'
    <3>1. ClearersOK'
      BY <1>1, <2>1, Frames
    <3>2. /\ pipeline_running' \in BOOLEAN /\ streaming' \in BOOLEAN
          /\ coherence_lost' \in BOOLEAN /\ lossy' \in BOOLEAN /\ flushed' \in BOOLEAN
      BY <2>1, Zenon DEF TypeOK
    <3>3. restarts' \in Nat
      BY <2>1 DEF TypeOK
    <3> QED  BY <1>1, <2>1, <2>3, <3>1, <3>2, <3>3 DEF TypeOK
  <2>5. Places'
    BY <2>1, ConstantsAssumption, <1>1, <2>2 DEF TypeOK, Places
  <2> QED  BY <2>4, <2>5
<1>6. CASE ForgetLoss
  <2>1. /\ UNCHANGED <<tick, drain, conv, broadcast, flush, flushed,
                       pipeline_running, streaming, active, restarts, lossy>>
        /\ ctl = "started" /\ ctl' = "up" /\ coherence_lost' = FALSE
    BY <1>6 DEF ForgetLoss
  <2>2. TypeOK'
    <3>1. ClearersOK'
      BY <1>1, <2>1, Frames
    <3>2. /\ pipeline_running' \in BOOLEAN /\ streaming' \in BOOLEAN
          /\ coherence_lost' \in BOOLEAN /\ lossy' \in BOOLEAN /\ flushed' \in BOOLEAN
      BY <2>1, Zenon DEF TypeOK
    <3> QED  BY <1>1, <2>1, <3>1, <3>2 DEF TypeOK
  <2>3. Places'
    BY <1>1, <2>1 DEF Places
  <2> QED  BY <2>2, <2>3
<1>7. CASE OpenFails
  <2>1. /\ UNCHANGED <<tick, drain, conv, broadcast, flush, flushed,
                       pipeline_running, streaming, active, lossVars>>
        /\ ctl = "flushing" /\ flush[Control] = Resting /\ ctl' = "down"
        /\ restarts' = restarts + 1 /\ restarts < MaxRestarts
        /\ restarts \in Nat /\ MaxRestarts \in Nat
    BY <1>7, ConstantsAssumption DEF OpenFails, Stopped, TypeOK
  <2>2. TypeOK'
    <3>1. ClearersOK'
      BY <1>1, <2>1, Frames
    <3>2. /\ pipeline_running' \in BOOLEAN /\ streaming' \in BOOLEAN
          /\ coherence_lost' \in BOOLEAN /\ lossy' \in BOOLEAN /\ flushed' \in BOOLEAN
      BY <2>1, Zenon DEF TypeOK, lossVars
    <3> QED  BY <1>1, <2>1, <3>1, <3>2 DEF TypeOK, lossVars
  <2>3. Places'
    BY <1>1, <2>1 DEF Places
  <2> QED  BY <2>2, <2>3
<1> QED  BY <1>2, <1>3, <1>4, <1>5, <1>6, <1>7

LEMMA StutterIInv ==
    ASSUME IInv, UNCHANGED vars
    PROVE  IInv'
<1> USE DEF IInv
<1>1. UNCHANGED <<devVars, free, queue, size, l2_raw_cap, drainVars, convVars, corr,
                  flushVars, ctlVars, lossVars, leaked>>
  BY DEF vars
<1>2. TypeOK'
  BY <1>1, Frames DEF TypeOK, devVars, drainVars, convVars, flushVars, ctlVars, lossVars
<1>3. Places'
  BY <1>1 DEF Places, devVars, drainVars, convVars, flushVars, ctlVars
<1> QED  BY <1>2, <1>3

LEMMA NextIInv == IInv /\ [Next]_vars => IInv'
<1> SUFFICES ASSUME IInv, [Next]_vars PROVE IInv'
  OBVIOUS
<1>1. ASSUME NEW d \in Dev, Callback(d) \/ CallbackCount(d) PROVE IInv'
  BY <1>1, CallbackIInv
<1>2. CASE Drain
  BY <1>2, DrainIInv
<1>3. CASE Conv
  BY <1>3, ConvIInv
<1>4. CASE Corr
  BY <1>4, CorrIInv
<1>5. ASSUME NEW f \in Flushers, BeginFlush(f) PROVE IInv'
  BY <1>5, BeginFlushIInv
<1>6. ASSUME NEW f \in Clearers, Flush(f) PROVE IInv'
  BY <1>6, FlushIInv
<1>7. CASE SetRawCap
  BY <1>7, CapIInv
<1>8. CASE Reconfigure \/ ((StopPipeline \/ OpenFails) /\ ControlFrame)
  BY <1>8, ControlIInv DEF Reconfigure
<1>9. CASE UNCHANGED vars
  BY <1>9, StutterIInv
<1> QED  BY <1>1, <1>2, <1>3, <1>4, <1>5, <1>6, <1>7, <1>8, <1>9 DEF Next

\* Every variable keeps its type, and every thread holds what its place in its
\* loop says, through all interleavings, flushes and restarts.
THEOREM TypeCorrect == Spec => []TypeOK
<1>1. Init => IInv
  BY InitIInv
<1>2. IInv /\ [Next]_vars => IInv'
  BY NextIInv
<1>3. IInv => TypeOK
  BY DEF IInv
<1> QED  BY <1>1, <1>2, <1>3, PTL DEF Spec

-----------------------------------------------------------------------------
(* The counters. *)

LEMMA HoldersFinite ==
    ASSUME NEW q \in Queues
    PROVE  /\ IsFiniteSet(Holders[q]) /\ Cardinality(Holders[q]) \in Nat
           /\ Cardinality(Holders'[q]) \in Nat
<1>1. IsFiniteSet(Clearers)
  BY ConstantsAssumption, FS_AddElement DEF Clearers
<1>2. Holders[q] \subseteq Clearers /\ Holders'[q] \subseteq Clearers
  BY DEF Holders
<1> QED  BY <1>1, <1>2, FS_Subset, FS_CardinalityType

\* The terms of the equation are numbers.
LEMMA Terms ==
    ASSUME TypeOK, NEW q \in Queues
    PROVE  /\ size[q] \in Int /\ Len(queue[q]) \in Nat /\ leaked[q] \in Nat
           /\ Outgoing[q] \in Nat /\ Incoming[q] \in Nat
<1>1. size[q] \in Int /\ Len(queue[q]) \in Nat /\ leaked[q] \in Nat
  BY LenProperties DEF TypeOK, QueuesOK
<1>2. Cardinality(Holders[q]) \in Nat
  BY HoldersFinite
<1> QED  BY <1>1, <1>2 DEF Outgoing, Incoming

\* Who flushes is the same for a step that leaves flush alone.
LEMMA SameHolders ==
    ASSUME UNCHANGED flush, NEW q \in Queues
    PROVE  Cardinality(Holders'[q]) = Cardinality(Holders[q])
<1>1. Holders'[q] = Holders[q]
  BY DEF Holders, Target
<1> QED  BY <1>1

\* A step of one clearer changes the holders of the queue it works on only.
LEMMA HoldersUpdate ==
    ASSUME ClearersOK, NEW f \in Clearers, NEW todo, NEW held,
           FlushState(f, todo, held), NEW q \in Queues
    PROVE  /\ Holders'[q] \ {f} = Holders[q] \ {f}
           /\ f \in Holders[q] <=> flush[f].held # None /\ Target(f) = q
           /\ f \in Holders'[q] <=> held # None /\ Head(todo) = q
<1>1. /\ flush'[f] = [todo |-> todo, held |-> held]
      /\ \A g \in Clearers \ {f} : flush'[g] = flush[g]
  BY DEF FlushState, ClearersOK
<1>2. flush'[f].todo = todo /\ flush'[f].held = held
  BY <1>1
<1>3. Holders'[q] = {g \in Clearers : flush'[g].held # None /\ Head(flush'[g].todo) = q}
  BY DEF Holders, Target
<1>4. Holders[q] = {g \in Clearers : flush[g].held # None /\ Head(flush[g].todo) = q}
  BY DEF Holders, Target
<1> QED  BY <1>1, <1>2, <1>3, <1>4 DEF Target

\* What a step can do to a queue and its counter.
Unmoved(q) ==
    /\ size'[q] = size[q] /\ Len(queue'[q]) = Len(queue[q]) /\ leaked'[q] = leaked[q]
    /\ Outgoing'[q] = Outgoing[q] /\ Incoming'[q] = Incoming[q]
Enqueued(q) ==
    /\ size'[q] = size[q] /\ Len(queue'[q]) = Len(queue[q]) + 1 /\ leaked'[q] = leaked[q]
    /\ Outgoing'[q] = Outgoing[q] /\ Incoming'[q] = Incoming[q] + 1
CountedIn(q) ==
    /\ size'[q] = size[q] + 1 /\ Len(queue'[q]) = Len(queue[q]) /\ leaked'[q] = leaked[q]
    /\ Outgoing'[q] = Outgoing[q] /\ Incoming'[q] = Incoming[q] - 1
Dequeued(q) ==
    /\ size'[q] = size[q] /\ Len(queue'[q]) = Len(queue[q]) - 1 /\ leaked'[q] = leaked[q]
    /\ Outgoing'[q] = Outgoing[q] + 1 /\ Incoming'[q] = Incoming[q]
CountedOut(q) ==
    /\ size'[q] = size[q] - 1 /\ Len(queue'[q]) = Len(queue[q]) /\ leaked'[q] = leaked[q]
    /\ Outgoing'[q] = Outgoing[q] - 1 /\ Incoming'[q] = Incoming[q]
LeftOut(q) ==
    /\ size'[q] = size[q] /\ Len(queue'[q]) = Len(queue[q]) /\ leaked'[q] = leaked[q] + 1
    /\ Outgoing'[q] = Outgoing[q] - 1 /\ Incoming'[q] = Incoming[q]
Replaced(q) ==
    /\ size'[q] = size[q] - 1 /\ Len(queue'[q]) = Len(queue[q]) /\ leaked'[q] = leaked[q]
    /\ Outgoing'[q] = Outgoing[q] /\ Incoming'[q] = Incoming[q] + 1

Moved(q) == \/ Unmoved(q) \/ Enqueued(q) \/ CountedIn(q) \/ Dequeued(q)
            \/ CountedOut(q) \/ LeftOut(q) \/ Replaced(q)

\* Each of them changes both sides of the equation alike.
LEMMA Kept ==
    ASSUME TypeOK, CountersAccounted, \A q \in Queues : Moved(q)
    PROVE  CountersAccounted'
<1> SUFFICES ASSUME NEW q \in Queues
             PROVE  size'[q] = Len(queue'[q]) + Outgoing'[q] - Incoming'[q] + leaked'[q]
  BY DEF CountersAccounted
<1> DEFINE s == size[q]  n == Len(queue[q])  l == leaked[q]  o == Outgoing[q]  i == Incoming[q]
           s2 == size'[q]  n2 == Len(queue'[q])  l2 == leaked'[q]  o2 == Outgoing'[q]
           i2 == Incoming'[q]
<1>1. s \in Int /\ n \in Nat /\ l \in Nat /\ o \in Nat /\ i \in Nat /\ s = n + o - i + l
  BY Terms DEF CountersAccounted
<1>2. \/ s2 = s /\ n2 = n /\ l2 = l /\ o2 = o /\ i2 = i
      \/ s2 = s /\ n2 = n + 1 /\ l2 = l /\ o2 = o /\ i2 = i + 1
      \/ s2 = s + 1 /\ n2 = n /\ l2 = l /\ o2 = o /\ i2 = i - 1
      \/ s2 = s /\ n2 = n - 1 /\ l2 = l /\ o2 = o + 1 /\ i2 = i
      \/ s2 = s - 1 /\ n2 = n /\ l2 = l /\ o2 = o - 1 /\ i2 = i
      \/ s2 = s /\ n2 = n /\ l2 = l + 1 /\ o2 = o - 1 /\ i2 = i
      \/ s2 = s - 1 /\ n2 = n /\ l2 = l /\ o2 = o /\ i2 = i + 1
  BY Zenon DEF Moved, Unmoved, Enqueued, CountedIn, Dequeued, CountedOut, LeftOut, Replaced
<1>3. s2 = n2 + o2 - i2 + l2
  <2> HIDE DEF s, n, l, o, i, s2, n2, l2, o2, i2
  <2> QED  BY <1>1, <1>2
<1> QED  BY <1>3

LEMMA CallbackCounts ==
    ASSUME IInv, CountersAccounted, NEW d \in Dev, Callback(d) \/ CallbackCount(d)
    PROVE  CountersAccounted'
<1>1. TypeOK /\ d \in Queues /\ Item(d) = Block
  BY Numbers DEF IInv, Item
<1>2. UNCHANGED <<drain, raw_set, conv, corr, flush, leaked>>
  BY DEF Callback, CallbackCount, drainVars, convVars, flushVars
<1> SUFFICES ASSUME NEW q \in Queues PROVE Moved(q)
  BY <1>1, Kept
<1>3. Outgoing'[q] = Outgoing[q]
  BY <1>2, SameHolders DEF Outgoing
<1>4. Len(queue[q]) \in Nat /\ size[q] \in Int
  BY <1>1, Terms
<1>5. CASE Callback(d) /\ CallbackDrop(d)
  BY <1>5, <1>2, <1>3 DEF Callback, CallbackDrop, Incoming, Moved, Unmoved
<1>6. CASE Callback(d) /\ CallbackEnqueue(d)
  <2>1. /\ cb[d] = "idle" /\ cb' = [cb EXCEPT ![d] = "enqueued"] /\ Put(d, tick[d])
        /\ UNCHANGED size /\ tick[d] <= LastOfRun(restarts)
    BY <1>6 DEF Callback, CallbackEnqueue
  <2>2. Len(queue'[q]) = Len(queue[q]) + If1(q = d)
    <3>1. tick[d] \in Block
      BY RunsAreBlocks, <2>1 DEF IInv, TypeOK, Places, Block
    <3> QED  BY <1>1, <2>1, <3>1, QueueTypes
  <2>3. cb'[d] = "enqueued" /\ (q \in Dev /\ q # d => cb'[q] = cb[q])
    BY <1>1, <2>1 DEF TypeOK
  <2>4. CASE q = d
    BY <1>2, <2>1, <2>3, <2>4, Numbers, <2>2, <1>3 DEF Incoming, Moved, Enqueued
  <2>5. CASE q # d
    BY <1>2, <1>4, <2>2, <2>3, <2>5, <1>3, <2>1 DEF Incoming, Moved, Unmoved
  <2> QED  BY <2>4, <2>5
<1>7. CASE CallbackCount(d)
  <2>1. /\ cb[d] = "enqueued" /\ cb' = [cb EXCEPT ![d] = "idle"] /\ CountIn(d)
        /\ UNCHANGED queue
    BY <1>7 DEF CallbackCount
  <2>2. size'[q] = size[q] + If1(q = d)
    BY <1>1, <2>1, QueueTypes
  <2>3. cb'[d] = "idle" /\ (q \in Dev /\ q # d => cb'[q] = cb[q])
    BY <1>1, <2>1 DEF TypeOK
  <2>4. CASE q = d
    BY <1>2, <2>1, <2>3, <2>4, Numbers, <2>2, <1>3 DEF Incoming, Moved, CountedIn
  <2>5. CASE q # d
    BY <1>2, <1>4, <2>2, <2>3, <2>5, <1>3, <2>1 DEF Incoming, Moved, Unmoved
  <2> QED  BY <2>4, <2>5
<1> QED  BY <1>5, <1>6, <1>7 DEF Callback

\* The push of a set enqueues it, or replaces the oldest set by it.
LEMMA PushMoves ==
    ASSUME TypeOK, NEW q \in {Raw, L2}, NEW cap, NEW set \in Set,
           PushDropOldest(q, cap, set), NEW p \in Queues
    PROVE  /\ p # q => size'[p] = size[p] /\ Len(queue'[p]) = Len(queue[p])
           /\ p = q => \/ size'[p] = size[p] /\ Len(queue'[p]) = Len(queue[p]) + 1
                       \/ size'[p] = size[p] - 1 /\ Len(queue'[p]) = Len(queue[p])
<1>1. q \in Queues /\ Item(q) = Set /\ Len(queue[p]) \in Nat /\ size[p] \in Int
  BY Numbers, Terms DEF Item
<1>2. CASE MustDrop(q, cap)
  <2>1. /\ queue[q] # <<>> /\ queue[q] \in Seq(Set) /\ CountOut(q)
        /\ queue' = [queue EXCEPT ![q] = Append(Tail(@), set)]
    BY <1>1, <1>2 DEF PushDropOldest, MustDrop, TypeOK, QueuesOK
  <2>2. size'[p] = size[p] - If1(p = q)
    BY <1>1, <2>1, QueueTypes
  <2>3. CASE p = q
    <3>1. queue'[p] = Append(Tail(queue[q]), set)
      BY <1>1, <2>1, <2>3 DEF TypeOK, QueuesOK
    <3>2. /\ Tail(queue[q]) \in Seq(Set) /\ Len(Tail(queue[q])) = Len(queue[q]) - 1
      BY <2>1, HeadTailProperties
    <3>3. Len(Append(Tail(queue[q]), set)) = Len(queue[q])
      BY <1>1, <2>3, <3>2, AppendProperties
    <3>4. size'[p] = size[p] - 1
      BY <2>2, <2>3
    <3> QED  BY <2>3, <3>1, <3>3, <3>4
  <2>4. CASE p # q
    <3>1. queue'[p] = queue[p]
      BY <2>1, <2>4 DEF TypeOK, QueuesOK
    <3> QED  BY <1>1, <2>2, <2>4, <3>1
  <2> QED  BY <2>3, <2>4
<1>3. CASE ~MustDrop(q, cap)
  <2>1. Put(q, set) /\ size' = size
    BY <1>3 DEF PushDropOldest
  <2>2. Len(queue'[p]) = Len(queue[p]) + If1(p = q)
    BY <1>1, <2>1, QueueTypes
  <2>3. CASE p = q
    BY <2>1, <2>2, <2>3
  <2>4. CASE p # q
    BY <1>1, <2>1, <2>2, <2>4
  <2> QED  BY <2>3, <2>4
<1> QED  BY <1>2, <1>3

LEMMA DrainCounts ==
    ASSUME IInv, CountersAccounted, Drain
    PROVE  CountersAccounted'
<1>0. /\ TypeOK /\ active \in Dev /\ active \in Nat /\ DrainTypes /\ DrainPlaces
      /\ Len(None) = 0
      /\ UNCHANGED <<cb, conv, corr, flush>>
  BY ConstantsAssumption, Numbers
     DEF IInv, TypeOK, Places, Drain, DrainTypes, DrainPlaces, devVars, convVars, flushVars
<1> SUFFICES ASSUME NEW q \in Queues PROVE Moved(q)
  BY <1>0, Kept
<1>1. Cardinality(Holders'[q]) = Cardinality(Holders[q]) /\ Cardinality(Holders[q]) \in Nat
  BY <1>0, SameHolders, HoldersFinite
<1>2. Len(queue[q]) \in Nat /\ size[q] \in Int /\ leaked[q] \in Nat
  BY <1>0, Terms
\* What the drain's own place adds to both sides.
<1>3. /\ Outgoing'[q] = Outgoing[q] - If1(drain = "taken" /\ Len(raw_set) = q)
                                    + If1(drain' = "taken" /\ Len(raw_set') = q)
      /\ Incoming'[q] = Incoming[q] - If1(q = Raw /\ drain = "count")
                                    + If1(q = Raw /\ drain' = "count")
  BY <1>0, <1>1 DEF Outgoing, Incoming
<1>4. Outgoing[q] \in Nat /\ Incoming[q] \in Nat
  BY <1>0, Terms
<1>5. CASE DrainBegin \/ DrainTimeout \/ DrainCheck
  BY <1>5, <1>3, <1>4 DEF DrainBegin, DrainTimeout, DrainCheck, GiveUp, Moved, Unmoved
<1>6. CASE DrainTake
  <2>1. /\ drain = "collect" /\ Take(Waiting) /\ drain' = "taken"
        /\ raw_set' = Append(raw_set, Head(queue[Waiting]))
        /\ UNCHANGED <<size, leaked>>
    BY <1>6 DEF DrainTake
  <2>2. Waiting \in Dev /\ Waiting \in Queues /\ Item(Waiting) = Block /\ Len(raw_set) < NumDevices
    BY <1>0, SetLength, Numbers, <2>1 DEF DrainTypes, Waiting, DrainPlaces, Item
  <2>3. /\ Len(queue'[q]) = Len(queue[q]) - If1(q = Waiting)
        /\ Head(queue[Waiting]) \in Block
    BY <1>0, <2>1, <2>2, QueueTypes
  <2>4. Len(raw_set') = Waiting
    BY <1>0, <2>1, <2>2, <2>3, SetGrows DEF Waiting, DrainTypes
  <2>5. CASE q = Waiting
    BY <2>3, <2>5, <1>3, <1>4, <2>1, <2>4 DEF Moved, Dequeued
  <2>6. CASE q # Waiting
    BY <1>2, <2>3, <2>6, <1>3, <1>4, <2>1, <2>4 DEF Moved, Unmoved
  <2> QED  BY <2>5, <2>6
<1>7. CASE DrainQuit
  <2>1. /\ drain = "taken" /\ drain' = "exited"
        /\ leaked' = [leaked EXCEPT ![Len(raw_set)] = @ + 1]
        /\ UNCHANGED <<queue, size>>
    BY <1>7 DEF DrainQuit, GiveUp
  <2>2. leaked'[q] = IF q = Len(raw_set) THEN leaked[q] + 1 ELSE leaked[q]
    BY <1>0, <2>1 DEF TypeOK, QueuesOK
  <2>3. CASE q = Len(raw_set)
    BY <1>3, <1>4, <2>1, <2>3, <2>2 DEF Moved, LeftOut
  <2>4. CASE q # Len(raw_set)
    BY <1>3, <1>4, <2>1, <2>4, <2>2 DEF Moved, Unmoved
  <2> QED  BY <2>3, <2>4
<1>8. CASE DrainCountOut
  <2>1. /\ drain = "taken" /\ drain' \in {"check", "collect"} /\ CountOut(Len(raw_set))
        /\ UNCHANGED <<raw_set, queue, leaked>>
    BY <1>8 DEF DrainCountOut
  <2>2. Len(raw_set) \in Queues
    BY <1>0, <2>1, Numbers DEF DrainPlaces
  <2>3. size'[q] = size[q] - If1(q = Len(raw_set))
    BY <1>0, <2>1, <2>2, QueueTypes
  <2>4. CASE q = Len(raw_set)
    BY <1>3, <1>4, <2>1, <2>4, <2>3 DEF Moved, CountedOut
  <2>5. CASE q # Len(raw_set)
    BY <1>3, <1>4, <2>1, <2>5, <1>2, <2>3 DEF Moved, Unmoved
  <2> QED  BY <2>4, <2>5
<1>9. CASE DrainPush
  <2>1. /\ drain = "push" /\ drain' = "count" /\ PushDropOldest(Raw, l2_raw_cap, raw_set)
        /\ UNCHANGED leaked
    BY <1>9 DEF DrainPush
  <2>2. raw_set \in Set
    BY <1>0, <2>1, Numbers DEF DrainTypes, DrainPlaces
  <2>3. CASE q = Raw
    <3>1. Outgoing'[q] = Outgoing[q] /\ Incoming'[q] = Incoming[q] + 1
      BY <1>3, <1>4, <2>1, <2>3
    <3>2. \/ size'[q] = size[q] /\ Len(queue'[q]) = Len(queue[q]) + 1
          \/ size'[q] = size[q] - 1 /\ Len(queue'[q]) = Len(queue[q])
      BY <1>0, <2>1, <2>2, <2>3, PushMoves
    <3> QED  BY <2>1, <3>1, <3>2, Zenon DEF Moved, Enqueued, Replaced
  <2>4. CASE q # Raw
    BY <1>3, <1>4, <2>1, <2>4, <1>0, <2>2, PushMoves DEF Moved, Unmoved
  <2> QED  BY <2>3, <2>4
<1>10. CASE DrainCount
  <2>1. /\ drain = "count" /\ drain' = "begin" /\ CountIn(Raw) /\ UNCHANGED <<queue, leaked>>
    BY <1>10 DEF DrainCount
  <2>2. size'[q] = size[q] + If1(q = Raw)
    <3>1. Raw \in Queues
      BY Numbers
    <3> QED  BY <1>0, <2>1, <3>1, QueueTypes
  <2>3. CASE q = Raw
    BY <1>3, <1>4, <2>1, <2>3, <2>2 DEF Moved, CountedIn
  <2>4. CASE q # Raw
    BY <1>3, <1>4, <2>1, <2>4, <1>2, <2>2 DEF Moved, Unmoved
  <2> QED  BY <2>3, <2>4
<1> QED  BY <1>5, <1>6, <1>7, <1>8, <1>9, <1>10 DEF Drain

LEMMA ConvCounts ==
    ASSUME IInv, CountersAccounted, Conv
    PROVE  CountersAccounted'
<1>0. /\ TypeOK /\ ConvTypes /\ Raw \in Queues /\ L2 \in Queues /\ Item(Raw) = Set
      /\ Raw # L2
      /\ UNCHANGED <<cb, drain, raw_set, corr, flush>>
  BY Numbers
     DEF IInv, TypeOK, Places, Conv, ConvTypes, devVars, drainVars, flushVars, Item
<1> SUFFICES ASSUME NEW q \in Queues PROVE Moved(q)
  BY <1>0, Kept
<1>1. Cardinality(Holders'[q]) = Cardinality(Holders[q]) /\ Cardinality(Holders[q]) \in Nat
  BY <1>0, SameHolders, HoldersFinite
<1>2. /\ Len(queue[q]) \in Nat /\ size[q] \in Int /\ leaked[q] \in Nat
      /\ Outgoing[q] \in Nat /\ Incoming[q] \in Nat
  BY <1>0, Terms
<1>3. /\ Outgoing'[q] = Outgoing[q] - If1(conv = "taken" /\ q = Raw)
                                    + If1(conv' = "taken" /\ q = Raw)
      /\ Incoming'[q] = Incoming[q] - If1(q = L2 /\ conv = "count")
                                    + If1(q = L2 /\ conv' = "count")
  BY <1>0, <1>1 DEF Outgoing, Incoming
<1>4. CASE ConvTake
  <2>1. /\ conv = "wait" /\ conv' = "taken" /\ Take(Raw) /\ UNCHANGED <<size, leaked>>
    BY <1>4 DEF ConvTake
  <2>2. Len(queue'[q]) = Len(queue[q]) - If1(q = Raw)
    BY <1>0, <2>1, QueueTypes
  <2>3. CASE q = Raw
    BY <1>2, <1>3, <2>1, <2>3, <2>2 DEF Moved, Dequeued
  <2>4. CASE q # Raw
    BY <1>2, <1>3, <2>1, <2>4, <2>2 DEF Moved, Unmoved
  <2> QED  BY <2>3, <2>4
<1>5. CASE ConvTimeout
  BY <1>5, <1>2, <1>3 DEF ConvTimeout, Moved, Unmoved
<1>6. CASE ConvQuit
  <2>1. /\ conv = "taken" /\ conv' = "exited" /\ leaked' = [leaked EXCEPT ![Raw] = @ + 1]
        /\ UNCHANGED <<queue, size>>
    BY <1>6 DEF ConvQuit
  <2>2. leaked'[q] = IF q = Raw THEN leaked[q] + 1 ELSE leaked[q]
    BY <1>0, <2>1 DEF TypeOK, QueuesOK
  <2>3. CASE q = Raw
    BY <1>2, <1>3, <2>1, <2>3, <2>2 DEF Moved, LeftOut
  <2>4. CASE q # Raw
    BY <1>2, <1>3, <2>1, <2>4, <2>2 DEF Moved, Unmoved
  <2> QED  BY <2>3, <2>4
<1>7. CASE ConvBroadcast
  <2>1. conv = "taken" /\ conv' = "push" /\ CountOut(Raw) /\ UNCHANGED <<queue, leaked>>
    BY <1>7 DEF ConvBroadcast
  <2>2. size'[q] = size[q] - If1(q = Raw)
    BY <1>0, <2>1, QueueTypes
  <2>3. CASE q = Raw
    BY <1>2, <1>3, <2>1, <2>3, <2>2 DEF Moved, CountedOut
  <2>4. CASE q # Raw
    BY <1>2, <1>3, <2>1, <2>4, <2>2 DEF Moved, Unmoved
  <2> QED  BY <2>3, <2>4
<1>8. CASE ConvPush
  <2>1. conv = "push" /\ conv' = "count" /\ PushDropOldest(L2, L2Max, conv_set) /\ UNCHANGED leaked
    BY <1>8 DEF ConvPush
  <2>2. conv_set \in Set
    BY <1>0, <2>1 DEF ConvTypes
  <2>3. CASE q = L2
    <3>1. Outgoing'[q] = Outgoing[q] /\ Incoming'[q] = Incoming[q] + 1
      BY <1>2, <1>3, <2>1, <2>3
    <3>2. \/ size'[q] = size[q] /\ Len(queue'[q]) = Len(queue[q]) + 1
          \/ size'[q] = size[q] - 1 /\ Len(queue'[q]) = Len(queue[q])
      BY <1>0, <2>1, <2>2, <2>3, PushMoves
    <3> QED  BY <2>1, <3>1, <3>2, Zenon DEF Moved, Enqueued, Replaced
  <2>4. CASE q # L2
    BY <1>2, <1>3, <2>1, <2>4, <1>0, <2>2, PushMoves DEF Moved, Unmoved
  <2> QED  BY <2>3, <2>4
<1>9. CASE ConvCount
  <2>1. /\ conv = "count" /\ conv' \in {"wait", "exited"} /\ CountIn(L2)
        /\ UNCHANGED <<queue, leaked>>
    BY <1>9 DEF ConvCount
  <2>2. size'[q] = size[q] + If1(q = L2)
    BY <1>0, <2>1, QueueTypes
  <2>3. CASE q = L2
    BY <1>2, <1>3, <2>1, <2>3, <2>2 DEF Moved, CountedIn
  <2>4. CASE q # L2
    BY <1>2, <1>3, <2>1, <2>4, <2>2 DEF Moved, Unmoved
  <2> QED  BY <2>3, <2>4
<1> QED  BY <1>4, <1>5, <1>6, <1>7, <1>8, <1>9 DEF Conv

LEMMA CorrCounts ==
    ASSUME IInv, CountersAccounted, Corr
    PROVE  CountersAccounted'
<1>0. /\ TypeOK /\ L2 \in Queues
      /\ UNCHANGED <<cb, drain, raw_set, conv, flush, leaked>>
  BY Numbers DEF IInv, Corr, devVars, drainVars, convVars, flushVars
<1> SUFFICES ASSUME NEW q \in Queues PROVE Moved(q)
  BY <1>0, Kept
<1>1. Cardinality(Holders'[q]) = Cardinality(Holders[q]) /\ Cardinality(Holders[q]) \in Nat
  BY <1>0, SameHolders, HoldersFinite
<1>2. /\ Len(queue[q]) \in Nat /\ size[q] \in Int /\ Outgoing[q] \in Nat
  BY <1>0, Terms
<1>3. /\ Outgoing'[q] = Outgoing[q] - If1(corr = "taken" /\ q = L2)
                                    + If1(corr' = "taken" /\ q = L2)
      /\ Incoming'[q] = Incoming[q]
  BY <1>0, <1>1 DEF Outgoing, Incoming
<1>4. CASE CorrTake
  <2>1. corr = "wait" /\ corr' = "taken" /\ Take(L2) /\ UNCHANGED size
    BY <1>4 DEF CorrTake
  <2>2. Len(queue'[q]) = Len(queue[q]) - If1(q = L2)
    BY <1>0, <2>1, QueueTypes
  <2>3. CASE q = L2
    BY <1>2, <1>3, <2>1, <2>2, <2>3, <1>0 DEF Moved, Dequeued
  <2>4. CASE q # L2
    BY <1>2, <1>3, <2>1, <2>2, <2>4, <1>0 DEF Moved, Unmoved
  <2> QED  BY <2>3, <2>4
<1>5. CASE CorrCountOut
  <2>1. corr = "taken" /\ corr' = "wait" /\ CountOut(L2) /\ UNCHANGED queue
    BY <1>5 DEF CorrCountOut
  <2>2. size'[q] = size[q] - If1(q = L2)
    BY <1>0, <2>1, QueueTypes
  <2>3. CASE q = L2
    BY <1>2, <1>3, <2>1, <2>2, <2>3, <1>0 DEF Moved, CountedOut
  <2>4. CASE q # L2
    BY <1>2, <1>3, <2>1, <2>2, <2>4, <1>0 DEF Moved, Unmoved
  <2> QED  BY <2>3, <2>4
<1> QED  BY <1>4, <1>5 DEF Corr

LEMMA FlushCounts ==
    ASSUME IInv, CountersAccounted, NEW f \in Clearers, Flush(f)
    PROVE  CountersAccounted'
<1>0. /\ TypeOK /\ ClearersOK /\ flush[f].todo # <<>>
      /\ UNCHANGED <<cb, drain, raw_set, conv, corr, leaked>>
  BY DEF IInv, TypeOK, Flush, devVars, drainVars, convVars
<1>a. Target(f) \in Queues
  BY <1>0, HeadTailProperties DEF Target, ClearersOK
<1> SUFFICES ASSUME NEW q \in Queues PROVE Moved(q)
  BY <1>0, Kept
<1>1. /\ IsFiniteSet(Holders[q]) /\ Cardinality(Holders[q]) \in Nat
      /\ Cardinality(Holders'[q]) \in Nat
  BY HoldersFinite
<1>2. /\ Len(queue[q]) \in Nat /\ size[q] \in Int /\ Outgoing[q] \in Nat
  BY <1>0, Terms
<1>3. /\ Outgoing'[q] = Outgoing[q] - Cardinality(Holders[q]) + Cardinality(Holders'[q])
      /\ Incoming'[q] = Incoming[q]
  BY <1>0, <1>1 DEF Outgoing, Incoming
<1>4. CASE FlushTake(f)
  <2> DEFINE held == <<Head(queue[Target(f)])>>
  <2>1. /\ flush[f].held = None /\ Take(Target(f)) /\ FlushState(f, flush[f].todo, held)
        /\ held # None /\ UNCHANGED size
    BY <1>4 DEF FlushTake
  <2>2. Len(queue'[q]) = Len(queue[q]) - If1(q = Target(f))
    BY <1>0, <1>a, <2>1, QueueTypes
  <2>3. /\ f \notin Holders[q]
        /\ Holders'[q] = IF Target(f) = q THEN Holders[q] \cup {f} ELSE Holders[q]
    <3>1. /\ Holders'[q] \ {f} = Holders[q] \ {f} /\ f \notin Holders[q]
          /\ f \in Holders'[q] <=> Target(f) = q
      <4> HIDE DEF held
      <4> QED  BY <1>0, <2>1, HoldersUpdate DEF Target
    <3> QED  BY <3>1
  <2>4. CASE q = Target(f)
    <3>1. Cardinality(Holders'[q]) = Cardinality(Holders[q]) + 1
      BY <1>1, <2>3, <2>4, FS_AddElement
    <3>2. Outgoing'[q] = Outgoing[q] + 1 /\ Len(queue'[q]) = Len(queue[q]) - 1
      BY <1>1, <1>2, <1>3, <2>2, <2>4, <3>1
    <3> QED  BY <1>0, <1>3, <2>1, <3>2 DEF Moved, Dequeued
  <2>5. CASE q # Target(f)
    BY <1>1, <1>2, <1>3, <2>2, <2>3, <2>5, <1>0, <2>1 DEF Moved, Unmoved
  <2> QED  BY <2>4, <2>5
<1>5. CASE FlushCountOut(f)
  <2>1. /\ flush[f].held # None /\ CountOut(Target(f))
        /\ FlushState(f, flush[f].todo, None) /\ UNCHANGED queue
    BY <1>5 DEF FlushCountOut
  <2>2. size'[q] = size[q] - If1(q = Target(f))
    BY <1>0, <1>a, <2>1, QueueTypes
  <2>3. Holders'[q] = Holders[q] \ {f}
    <3> DEFINE todo == flush[f].todo
    <3>1. FlushState(f, todo, None)
      BY <2>1
    <3>2. Holders'[q] \ {f} = Holders[q] \ {f} /\ f \notin Holders'[q]
      <4> HIDE DEF todo, None
      <4> QED  BY <1>0, <3>1, HoldersUpdate
    <3> QED  BY <3>2
  <2>4. f \in Holders[q] <=> q = Target(f)
    BY <2>1 DEF Holders
  <2>5. CASE q = Target(f)
    <3>1. Cardinality(Holders'[q]) = Cardinality(Holders[q]) - 1
      BY <1>1, <2>3, <2>4, <2>5, FS_RemoveElement
    <3>2. Outgoing'[q] = Outgoing[q] - 1 /\ size'[q] = size[q] - 1
      BY <1>1, <1>2, <1>3, <2>2, <2>5, <3>1
    <3> QED  BY <1>0, <1>3, <2>1, <3>2 DEF Moved, CountedOut
  <2>6. CASE q # Target(f)
    <3>1. Holders'[q] = Holders[q]
      BY <2>3, <2>4, <2>6
    <3>2. Outgoing'[q] = Outgoing[q] /\ size'[q] = size[q]
      BY <1>1, <1>2, <1>3, <2>2, <2>6, <3>1
    <3> QED  BY <1>0, <1>3, <2>1, <3>2 DEF Moved, Unmoved
  <2> QED  BY <2>5, <2>6
<1>6. CASE FlushNext(f)
  <2>1. /\ flush[f].held = None /\ FlushState(f, Tail(flush[f].todo), None)
        /\ UNCHANGED <<queue, size>>
    BY <1>6 DEF FlushNext
  <2>2. Holders'[q] = Holders[q]
    <3>1. Holders'[q] \ {f} = Holders[q] \ {f} /\ f \notin Holders[q] /\ f \notin Holders'[q]
      BY <1>0, <2>1, HoldersUpdate
    <3> QED  BY <3>1
  <2>3. Outgoing'[q] = Outgoing[q]
    BY <1>1, <1>2, <1>3, <2>2
  <2> QED  BY <1>0, <1>3, <2>1, <2>3 DEF Moved, Unmoved
<1> QED  BY <1>4, <1>5, <1>6 DEF Flush

\* A step that moves no item, whoever takes it.
LEMMA QuietCounts ==
    ASSUME TypeOK, CountersAccounted, UNCHANGED <<queue, size, leaked, cb, raw_set, corr>>,
           \/ UNCHANGED <<drain, conv>>
           \/ {drain, drain', conv, conv'} \cap {"taken", "count"} = {},
           \A q \in Queues : Holders'[q] = Holders[q]
    PROVE  CountersAccounted'
<1> SUFFICES ASSUME NEW q \in Queues PROVE Moved(q)
  BY Kept
<1>1. Holders'[q] = Holders[q]
  OBVIOUS
<1>2. Outgoing'[q] = Outgoing[q] /\ Incoming'[q] = Incoming[q]
  <2>1. CASE UNCHANGED <<drain, conv>>
    BY <1>1, <2>1 DEF Outgoing, Incoming
  <2>2. CASE {drain, drain', conv, conv'} \cap {"taken", "count"} = {}
    BY <2>2, <1>1 DEF Outgoing, Incoming
  <2> QED  BY <2>1, <2>2
<1> QED  BY <1>2 DEF Moved, Unmoved

LEMMA BeginFlushCounts ==
    ASSUME IInv, CountersAccounted, NEW f \in Flushers, BeginFlush(f)
    PROVE  CountersAccounted'
<1>1. /\ TypeOK /\ ClearersOK /\ f \in Clearers /\ flush[f].held = None
      /\ UNCHANGED <<queue, size, leaked, cb, raw_set, corr, drain, conv>>
  BY DEF IInv, TypeOK, Clearers, BeginFlush, Resting, devVars, drainVars, convVars
<1>2. \E program : FlushState(f, program, None)
  BY DEF BeginFlush, BeginClearL1, BeginClearL2, Start
<1>3. \A q \in Queues : Holders'[q] = Holders[q]
  <2>1. PICK program : FlushState(f, program, None)
    BY <1>2
  <2> SUFFICES ASSUME NEW q \in Queues PROVE Holders'[q] = Holders[q]
    OBVIOUS
  <2>2. Holders'[q] \ {f} = Holders[q] \ {f} /\ f \notin Holders[q] /\ f \notin Holders'[q]
    BY <1>1, <2>1, HoldersUpdate
  <2> QED  BY <2>2
<1> QED  BY <1>1, <1>3, QuietCounts

LEMMA ControlCounts ==
    ASSUME IInv, CountersAccounted, ControlFrame,
           \/ StopPipeline \/ CancelReaders \/ Joined
           \/ StartPipeline \/ ForgetLoss \/ OpenFails
    PROVE  CountersAccounted'
<1>1. /\ TypeOK /\ ClearersOK /\ UNCHANGED <<queue, size, leaked, cb, raw_set, corr>>
  BY DEF IInv, TypeOK, ControlFrame
<1>2. CASE StopPipeline \/ CancelReaders \/ ForgetLoss \/ OpenFails
  BY <1>2, <1>1, QuietCounts DEF StopPipeline, CancelReaders, ForgetLoss, OpenFails, Holders, Target
<1>3. CASE Joined
  <2>1. /\ UNCHANGED <<drain, conv>> /\ FlushState(Control, StopFlush, None)
        /\ Control \in Clearers /\ flush[Control].held = None
    BY <1>3 DEF Joined, Start, Clearers, IInv, Places, Resting
  <2>2. \A q \in Queues : Holders'[q] = Holders[q]
    <3> SUFFICES ASSUME NEW q \in Queues PROVE Holders'[q] = Holders[q]
      OBVIOUS
    <3>1. /\ Holders'[q] \ {Control} = Holders[q] \ {Control}
          /\ Control \notin Holders[q] /\ Control \notin Holders'[q]
      BY <1>1, <2>1, HoldersUpdate
    <3> QED  BY <3>1
  <2> QED  BY <1>1, <2>1, <2>2, QuietCounts
<1>4. CASE StartPipeline
  BY <1>4, <1>1, QuietCounts DEF StartPipeline, Stopped, IInv, Places, Holders, Target
<1> QED  BY <1>2, <1>3, <1>4

LEMMA NextCounts == IInv /\ CountersAccounted /\ [Next]_vars => CountersAccounted'
<1> SUFFICES ASSUME IInv, CountersAccounted, [Next]_vars PROVE CountersAccounted'
  OBVIOUS
<1>1. ASSUME NEW d \in Dev, Callback(d) \/ CallbackCount(d) PROVE CountersAccounted'
  BY <1>1, CallbackCounts
<1>2. CASE Drain
  BY <1>2, DrainCounts
<1>3. CASE Conv
  BY <1>3, ConvCounts
<1>4. CASE Corr
  BY <1>4, CorrCounts
<1>5. ASSUME NEW f \in Flushers, BeginFlush(f) PROVE CountersAccounted'
  BY <1>5, BeginFlushCounts
<1>6. ASSUME NEW f \in Clearers, Flush(f) PROVE CountersAccounted'
  BY <1>6, FlushCounts
<1>7. CASE SetRawCap \/ UNCHANGED vars
  BY <1>7, QuietCounts DEF SetRawCap, vars, devVars, drainVars, convVars, flushVars, Holders,
     Target, IInv
<1>8. CASE Reconfigure \/ ((StopPipeline \/ OpenFails) /\ ControlFrame)
  BY <1>8, ControlCounts DEF Reconfigure
<1> QED  BY <1>1, <1>2, <1>3, <1>4, <1>5, <1>6, <1>7, <1>8 DEF Next

LEMMA InitCounts == Init => CountersAccounted
<1> SUFFICES ASSUME Init, NEW q \in Queues
             PROVE  size[q] = Len(queue[q]) + Outgoing[q] - Incoming[q] + leaked[q]
  BY DEF CountersAccounted
<1>1. size[q] = 0 /\ Len(queue[q]) = 0 /\ leaked[q] = 0
  BY DEF Init
<1>2. Outgoing[q] = 0
  <2>1. Holders[q] = {}
    BY DEF Init, Holders, Resting
  <2>2. Cardinality(Holders[q]) = 0
    BY <2>1, FS_EmptySet
  <2>3. drain # "taken" /\ conv # "taken" /\ corr # "taken"
    BY DEF Init
  <2> QED  BY <2>2, <2>3 DEF Outgoing
<1>3. Incoming[q] = 0
  BY Numbers DEF Init, Incoming
<1> QED  BY <1>1, <1>2, <1>3

\* The atomic counters of the queues, which the code updates apart from the
\* queues, never drift: each one is the depth of its queue but for the fetch_adds
\* and fetch_subs under way and the ones the exit paths leave out.
THEOREM CountersCorrect == Spec => []CountersAccounted
<1>1. Init => IInv /\ CountersAccounted
  BY InitIInv, InitCounts
<1>2. IInv /\ CountersAccounted /\ [Next]_vars => (IInv /\ CountersAccounted)'
  BY NextIInv, NextCounts
<1> QED  BY <1>1, <1>2, PTL DEF Spec

\* The thread that enqueues never reads a counter that has wrapped below zero or
\* hides an item of the queue, however the consumer and the flushes interleave.
THEOREM ReadersSafe == Spec => []ReadersNeverSeeUnderflow
<1>1. TypeOK /\ CountersAccounted => ReadersNeverSeeUnderflow
  <2> SUFFICES ASSUME TypeOK, CountersAccounted, NEW q \in Queues, Incoming[q] = 0
               PROVE  size[q] >= Len(queue[q])
    BY DEF ReadersNeverSeeUnderflow
  <2> DEFINE s == size[q]  n == Len(queue[q])  l == leaked[q]  o == Outgoing[q]  i == Incoming[q]
  <2>1. /\ s \in Int /\ n \in Nat /\ l \in Nat /\ o \in Nat /\ i = 0
        /\ s = n + o - i + l
    BY Terms DEF CountersAccounted
  <2>2. s >= n
    <3> HIDE DEF s, n, l, o, i
    <3> QED  BY <2>1
  <2> QED  BY <2>2
<1> QED  BY <1>1, TypeCorrect, CountersCorrect, PTL

-----------------------------------------------------------------------------
(***************************************************************************)
(* What the sample path delivers, for every number of devices and clearers *)
(* and every bound: bounded queues, whole sets of the element count, sets  *)
(* that are aligned until a loss is signalled, a stream of them that       *)
(* implements SetStream, and sample pools that lose no buffer.             *)
(*                                                                         *)
(* Three invariants carry the argument.  Emptied: when the devices are     *)
(* opened again nothing of the last run is left.  InStep: until a loss or  *)
(* a flush of L1 the heads of the L1 queues are blocks of one period, but  *)
(* for the devices the drain has collected already, which are one ahead.   *)
(* InOrder: on each channel the blocks grow from the streamers back to the *)
(* device, stage by stage.                                                 *)
(***************************************************************************)
\* What a restart relies on: the queues the control thread has emptied stay
\* empty, and no other thread goes on flushing L1 while it restarts.
Emptied ==
    /\ ctl = "flushing" =>
          \A q \in Queues : queue[q] # <<>> =>
              \E i \in DOMAIN flush[Control].todo : flush[Control].todo[i] = q
    /\ ctl = "down" => drain = "exited" /\ conv = "exited"
    /\ \A f \in Flushers : FlushesL1(f) => ctl = "up" /\ flushed

WholeSets == SetsOf(Raw) \cup SetsOf(L2) \cup ({conv_set, broadcast} \ {None})

\* Every whole set is of the current element count.
Uniform == \A set \in WholeSets : Len(set) = active

Synced == ~lossy /\ ~flushed

\* The heads of the L1 queues are in step.
InStep ==
    Synced /\ drain # "exited" =>
        /\ \A d \in 1..active : \A i \in DOMAIN queue[d] :
              queue[d][i] = tick[d] - Len(queue[d]) + i - 1
        /\ \A d \in DOMAIN raw_set : raw_set[d] = tick[d] - Len(queue[d]) - 1
        /\ \A d, e \in 1..active :
              tick[d] - Len(queue[d]) - Holding(raw_set, d)
                 = tick[e] - Len(queue[e]) - Holding(raw_set, e)

Older(s, t) == \A i \in DOMAIN s \cap DOMAIN t : s[i] < t[i]

\* The blocks of a set were captured before those its channels still queue.
Captured(set) ==
    \A d \in DOMAIN set :
        set[d] < tick[d] /\ \A j \in DOMAIN queue[d] : set[d] < queue[d][j]

\* Blocks grow from the streamers back to the devices.
Lanes ==
    \A d \in Dev : \A j \in DOMAIN queue[d] :
        /\ queue[d][j] < tick[d]
        /\ \A i \in DOMAIN queue[d] : i < j => queue[d][i] < queue[d][j]
Assembled == \A set \in SetsOf(Raw) \cup {raw_set, conv_set, broadcast} : Captured(set)
RawOrder ==
    \A j \in DOMAIN queue[Raw] :
        /\ \A i \in DOMAIN queue[Raw] : i < j => Older(queue[Raw][i], queue[Raw][j])
        /\ Older(queue[Raw][j], raw_set)
Delivered(set) ==
    Older(set, raw_set) /\ \A j \in DOMAIN queue[Raw] : Older(set, queue[Raw][j])
InOrder ==
    /\ Lanes /\ Assembled /\ RawOrder
    /\ Delivered(conv_set) /\ Delivered(broadcast)
    /\ conv = "taken" => Older(broadcast, conv_set)

Flowing == Uniform /\ NoSilentDesync /\ InStep /\ InOrder
SInv == Emptied /\ Flowing

-----------------------------------------------------------------------------
(* Facts about the queues. *)

\* A queue and what the operations make of it, item by item.
LEMMA Contents ==
    ASSUME TypeOK, NEW q \in Queues
    PROVE  /\ Len(queue[q]) \in Nat /\ DOMAIN queue[q] = 1..Len(queue[q])
           /\ queue[q] \in Seq(Item(q))
           /\ \A i \in DOMAIN queue[q] : queue[q][i] \in Item(q)
           /\ queue[q] = <<>> <=> Len(queue[q]) = 0
BY LenProperties, EmptySeq DEF TypeOK, QueuesOK

LEMMA TakeContents ==
    ASSUME TypeOK, NEW q \in Queues, Take(q)
    PROVE  /\ \A p \in Queues \ {q} : queue'[p] = queue[p]
           /\ Len(queue[q]) >= 1 /\ Head(queue[q]) = queue[q][1]
           /\ Len(queue'[q]) = Len(queue[q]) - 1
           /\ DOMAIN queue'[q] = 1..(Len(queue[q]) - 1)
           /\ \A i \in 1..(Len(queue[q]) - 1) : queue'[q][i] = queue[q][i + 1]
<1>1. queue[q] \in Seq(Item(q)) /\ queue[q] # <<>> /\ Len(queue[q]) \in Nat
  BY Contents DEF Take
<1>2. queue' = [queue EXCEPT ![q] = Tail(@)] /\ queue = [p \in Queues |-> queue[p]]
  BY DEF Take, TypeOK, QueuesOK
<1>3. queue'[q] = Tail(queue[q]) /\ \A p \in Queues \ {q} : queue'[p] = queue[p]
  BY <1>2
<1>4. Len(queue[q]) >= 1 /\ Head(queue[q]) = queue[q][1]
  BY <1>1, Contents
<1>5. /\ Tail(queue[q]) \in Seq(Item(q)) /\ Len(Tail(queue[q])) = Len(queue[q]) - 1
      /\ \A i \in 1..(Len(queue[q]) - 1) : Tail(queue[q])[i] = queue[q][i + 1]
  BY <1>1, HeadTailProperties
<1>6. DOMAIN Tail(queue[q]) = 1..(Len(queue[q]) - 1)
  BY <1>5, LenProperties
<1> QED  BY <1>3, <1>4, <1>5, <1>6

\* The queue after a push that drops k sets.
Pushed(q, k, item) ==
    queue' = [queue EXCEPT ![q] = Append(IF k = 1 THEN Tail(@) ELSE @, item)]

\* A push appends the set; what it drops comes from the head.
LEMMA PushContents ==
    ASSUME TypeOK, NEW q \in Queues, NEW item \in Item(q), NEW k \in {0, 1},
           k <= Len(queue[q]), Pushed(q, k, item)
    PROVE  /\ \A p \in Queues \ {q} : queue'[p] = queue[p]
           /\ Len(queue'[q]) = Len(queue[q]) - k + 1
           /\ DOMAIN queue'[q] = 1..(Len(queue[q]) - k + 1)
           /\ queue'[q][Len(queue[q]) - k + 1] = item
           /\ \A i \in 1..(Len(queue[q]) - k) : queue'[q][i] = queue[q][i + k]
<1> DEFINE rest == IF k = 1 THEN Tail(queue[q]) ELSE queue[q]
<1>1. queue[q] \in Seq(Item(q)) /\ Len(queue[q]) \in Nat
  BY Contents
<1>2. queue'[q] = Append(rest, item) /\ \A p \in Queues \ {q} : queue'[p] = queue[p]
  BY DEF Pushed, TypeOK, QueuesOK
<1>3. /\ rest \in Seq(Item(q)) /\ Len(rest) = Len(queue[q]) - k
      /\ \A i \in 1..(Len(queue[q]) - k) : rest[i] = queue[q][i + k]
  <2>1. CASE k = 0
    BY <1>1, <2>1
  <2>2. CASE k = 1
    BY <1>1, <2>2, Contents, HeadTailProperties
  <2> QED  BY <2>1, <2>2
<1>4. /\ Append(rest, item) \in Seq(Item(q)) /\ Len(Append(rest, item)) = Len(rest) + 1
      /\ \A i \in 1..Len(rest) : Append(rest, item)[i] = rest[i]
      /\ Append(rest, item)[Len(rest) + 1] = item
  <2> HIDE DEF rest
  <2> QED  BY <1>3, AppendProperties
<1>5. DOMAIN Append(rest, item) = 1..(Len(queue[q]) - k + 1)
  <2> HIDE DEF rest
  <2> QED  BY <1>1, <1>3, <1>4, LenProperties
<1> HIDE DEF rest
<1> QED  BY <1>1, <1>2, <1>3, <1>4, <1>5

\* Both bounded stages push one way or the other.
LEMMA Pushes ==
    ASSUME TypeOK, NEW q \in {Raw, L2}, NEW cap, NEW set, PushDropOldest(q, cap, set)
    PROVE  \E k \in {0, 1} :
              /\ k <= Len(queue[q]) /\ (k = 1 <=> MustDrop(q, cap))
              /\ Pushed(q, k, set)
<1>1. q \in Queues
  BY Numbers
<1>2. CASE MustDrop(q, cap)
  BY <1>1, <1>2, Contents DEF MustDrop, PushDropOldest, Pushed
<1>3. CASE ~MustDrop(q, cap)
  BY <1>1, Contents, <1>3 DEF PushDropOldest, Put, Pushed
<1> QED  BY <1>2, <1>3

-----------------------------------------------------------------------------
(* The depths of the queues. *)

\* What a producer that is not between its enqueue and its count has under way.
LEMMA NothingIncoming ==
    ASSUME NEW q \in Queues, ~(q \in Dev /\ cb[q] = "enqueued"),
           ~(q = Raw /\ drain = "count"), ~(q = L2 /\ conv = "count")
    PROVE  Incoming[q] = 0
BY DEF Incoming

\* A thread that finds room by the counter, or that drops, keeps the cap: only
\* it counts its queue in, and a counter never hides an item from it.
LEMMA PushBounded ==
    ASSUME TypeOK, CountersAccounted, DepthsBounded, NEW q \in {Raw, L2}, NEW cap \in Nat \ {0},
           NEW set \in Set, Incoming[q] = 0, PushDropOldest(q, cap, set)
    PROVE  /\ Len(queue'[q]) <= cap \/ Len(queue'[q]) <= Len(queue[q])
           /\ \A p \in Queues \ {q} : queue'[p] = queue[p]
<1> DEFINE s == size[q]  n == Len(queue[q])  n2 == Len(queue'[q])
           l == leaked[q]  o == Outgoing[q]  i == Incoming[q]
<1>1. q \in Queues /\ Item(q) = Set
  BY Numbers DEF Item
<1>2. /\ s \in Int /\ n \in Nat /\ l \in Nat /\ o \in Nat /\ i = 0
      /\ s = n + o - i + l
  BY <1>1, Terms DEF CountersAccounted
<1>3. PICK k \in {0, 1} :
         /\ k <= n /\ (k = 1 <=> MustDrop(q, cap))
         /\ Pushed(q, k, set)
  BY Pushes
<1>4. n2 = n - k + 1 /\ \A p \in Queues \ {q} : queue'[p] = queue[p]
  <2>1. set \in Item(q) /\ k <= Len(queue[q])
    BY <1>1, <1>3
  <2> QED  BY <1>1, <1>3, <2>1, PushContents
<1>5. CASE k = 1
  BY <1>2, <1>4, <1>5
<1>6. CASE k = 0
  <2>1. ~Full(s, cap) \/ n = 0
    BY <1>1, <1>3, <1>6, Contents DEF MustDrop
  <2>2. s >= n
    <3> HIDE DEF s, n, l, o, i
    <3> QED  BY <1>2
  <2>3. CASE ~Full(s, cap)
    <3>1. s < cap /\ n2 = n + 1
      BY <1>2, <1>4, <1>6, <2>3 DEF Full
    <3>2. n2 <= cap
      <4> HIDE DEF s, n, n2
      <4> QED  BY <1>2, <2>2, <3>1
    <3> QED  BY <1>4, <3>2
  <2>4. CASE n = 0
    BY <1>4, <1>6, <2>4
  <2> QED  BY <2>1, <2>3, <2>4
<1> QED  BY <1>3, <1>5, <1>6

LEMMA NextDepths == IInv /\ CountersAccounted /\ DepthsBounded /\ [Next]_vars => DepthsBounded'
<1> SUFFICES ASSUME IInv, CountersAccounted, DepthsBounded, [Next]_vars PROVE DepthsBounded'
  OBVIOUS
<1>0. /\ TypeOK /\ \A q \in Queues : Len(queue[q]) \in Nat
      /\ L1Max \in Nat \ {0} /\ L2RawMax \in Nat \ {0} /\ L2Max \in Nat \ {0}
  BY ConstantsAssumption, Contents DEF IInv
\* Most steps take from one queue or leave them all alone.
<1>1. ASSUME \A q \in Queues : Len(queue'[q]) <= Len(queue[q]) PROVE DepthsBounded'
  <2>1. /\ \A d \in Dev : Len(queue'[d]) <= Len(queue[d])
        /\ Len(queue'[Raw]) <= Len(queue[Raw]) /\ Len(queue'[L2]) <= Len(queue[L2])
    BY <1>1, Numbers
  <2>2. \A q \in Queues : Len(queue'[q]) \in Nat
    <3>1. TypeOK'
      BY NextIInv DEF IInv
    <3> QED  BY <3>1, LenProperties DEF TypeOK, QueuesOK
  <2>3. \A d \in Dev : Len(queue'[d]) <= L1Max
    <3> TAKE d \in Dev
    <3>1. d \in Queues /\ Len(queue[d]) <= L1Max
      BY Numbers DEF DepthsBounded
    <3> QED  BY <1>0, <2>1, <2>2, <3>1
  <2>4. Len(queue'[Raw]) <= L2RawMax /\ Len(queue'[L2]) <= L2Max
    BY <1>0, <2>1, <2>2, Numbers DEF DepthsBounded
  <2> QED  BY <2>3, <2>4 DEF DepthsBounded
<1>2. ASSUME queue' = queue PROVE DepthsBounded'
  BY <1>2 DEF DepthsBounded
<1>3. ASSUME NEW q \in Queues, Take(q) PROVE DepthsBounded'
  BY <1>0, <1>3, TakeContents, <1>1
<1>4. ASSUME NEW d \in Dev, Callback(d) \/ CallbackCount(d) PROVE DepthsBounded'
  <2>1. CASE Callback(d) /\ CallbackEnqueue(d)
    <3> DEFINE s == size[d]  n == Len(queue[d])  l == leaked[d]  o == Outgoing[d]  i == Incoming[d]
    <3>1. /\ Put(d, tick[d]) /\ ~Full(s, L1Max) /\ cb[d] = "idle" /\ d \in Queues
      BY <2>1, Numbers DEF Callback, CallbackEnqueue, HasRoom
    <3>2. i = 0
      BY <3>1, Numbers, NothingIncoming
    <3>3. s \in Int /\ n \in Nat /\ l \in Nat /\ o \in Nat /\ s = n + o - i + l
      BY <1>0, <3>1, Terms DEF CountersAccounted
    <3>4. n + 1 <= L1Max
      <4>1. s < L1Max
        BY <1>0, <3>1, <3>3 DEF Full
      <4> HIDE DEF s, n, l, o, i
      <4> QED  BY <1>0, <3>2, <3>3, <4>1
    <3>5. /\ queue'[d] = Append(queue[d], tick[d])
          /\ \A p \in Queues \ {d} : queue'[p] = queue[p]
      BY <1>0, <3>1 DEF Put, TypeOK, QueuesOK
    <3>6. Len(queue'[d]) = Len(queue[d]) + 1
      BY <1>0, <3>1, <3>5, Contents
    <3> QED  BY <3>4, <3>5, <3>6, Numbers DEF DepthsBounded
  <2> QED  BY <1>2, <1>4, <2>1 DEF Callback, CallbackCount, CallbackDrop
<1>5. CASE Drain
  <2>1. CASE DrainTake
    <3>1. Waiting \in Queues
      BY <2>1, ConstantsAssumption, Numbers, SetLength DEF DrainTake, IInv, TypeOK, Places, Waiting
    <3> QED  BY <1>3, <2>1, <3>1 DEF DrainTake
  <2>2. CASE DrainPush
    <3>1. drain = "push" /\ PushDropOldest(Raw, l2_raw_cap, raw_set)
      BY <2>2 DEF DrainPush
    <3>2. raw_set \in Set
      BY <3>1, ConstantsAssumption, Numbers DEF IInv, TypeOK, Places
    <3>3. l2_raw_cap \in Nat \ {0} /\ l2_raw_cap <= L2RawMax
      BY <1>0, ConstantsAssumption DEF TypeOK
    <3>4. Incoming[Raw] = 0
      BY <3>1, Numbers, NothingIncoming
    <3>5. /\ Len(queue'[Raw]) <= l2_raw_cap \/ Len(queue'[Raw]) <= Len(queue[Raw])
          /\ \A p \in Queues \ {Raw} : queue'[p] = queue[p]
      BY <1>0, <3>1, <3>2, <3>3, <3>4, PushBounded
    <3>6. Len(queue'[Raw]) \in Nat
      <4>1. TypeOK'
        BY NextIInv DEF IInv
      <4> QED  BY <4>1, LenProperties, Numbers DEF TypeOK, QueuesOK
    <3> QED  BY <1>0, <3>3, <3>5, <3>6, Numbers DEF DepthsBounded
  <2> QED  BY <1>2, <1>5, <2>1, <2>2
           DEF Drain, DrainBegin, DrainTimeout, DrainQuit, DrainCountOut, DrainCheck, DrainCount
<1>6. CASE Conv
  <2>1. CASE ConvTake
    BY <1>3, <2>1, Numbers DEF ConvTake
  <2>2. CASE ConvPush
    <3>1. conv = "push" /\ PushDropOldest(L2, L2Max, conv_set)
      BY <2>2 DEF ConvPush
    <3>2. conv_set \in Set
      BY <3>1, Zenon DEF IInv, TypeOK, Places
    <3>3. Incoming[L2] = 0
      BY <3>1, Numbers, NothingIncoming
    <3>4. /\ Len(queue'[L2]) <= L2Max \/ Len(queue'[L2]) <= Len(queue[L2])
          /\ \A p \in Queues \ {L2} : queue'[p] = queue[p]
      BY <1>0, <3>1, <3>2, <3>3, PushBounded
    <3>5. Len(queue'[L2]) \in Nat
      <4>1. TypeOK'
        BY NextIInv DEF IInv
      <4> QED  BY <4>1, LenProperties, Numbers DEF TypeOK, QueuesOK
    <3> QED  BY <1>0, <3>4, <3>5, Numbers DEF DepthsBounded
  <2> QED  BY <1>2, <1>6, <2>1, <2>2 DEF Conv, ConvTimeout, ConvQuit, ConvBroadcast, ConvCount
<1>7. CASE Corr
  BY <1>2, <1>3, <1>7, Numbers DEF Corr, CorrTake, CorrCountOut
<1>8. ASSUME NEW f \in Flushers, BeginFlush(f) PROVE DepthsBounded'
  BY <1>2, <1>8 DEF BeginFlush
<1>9. ASSUME NEW f \in Clearers, Flush(f) PROVE DepthsBounded'
  BY <1>0, <1>9, HeadTailProperties, <1>2, <1>3 DEF Flush, Target, TypeOK, ClearersOK, FlushTake,
     FlushCountOut, FlushNext
<1>10. CASE SetRawCap \/ UNCHANGED vars \/ Reconfigure \/ ((StopPipeline \/ OpenFails) /\ ControlFrame)
  BY <1>2, <1>10 DEF SetRawCap, vars, Reconfigure, ControlFrame
<1> QED  BY <1>4, <1>5, <1>6, <1>7, <1>8, <1>9, <1>10 DEF Next

\* No queue of the sample path outgrows its cap, whatever the counters next to the
\* queues have drifted to and however the cap of L2-raw is moved.
THEOREM DepthsCorrect == Spec => []DepthsBounded
<1>1. Init => IInv /\ CountersAccounted /\ DepthsBounded
  <2>1. Init => DepthsBounded
    BY ConstantsAssumption, Numbers DEF Init, DepthsBounded
  <2> QED  BY <2>1, InitIInv, InitCounts
<1>2. IInv /\ CountersAccounted /\ DepthsBounded /\ [Next]_vars
        => (IInv /\ CountersAccounted /\ DepthsBounded)'
  BY NextIInv, NextCounts, NextDepths
<1> QED  BY <1>1, <1>2, PTL DEF Spec

-----------------------------------------------------------------------------
(* What a restart relies on. *)

\* The control thread empties every queue.
LEMMA StopFlushesAll ==
    ASSUME NEW q \in Queues
    PROVE  \E i \in DOMAIN StopFlush : StopFlush[i] = q
<1> DEFINE devices == [d \in Dev |-> d]
<1>1. NumDevices \in Nat /\ Dev = 1..NumDevices /\ q \in 1..NumDevices + 2
  BY Numbers
<1>2. devices \in Seq(Queues) /\ Len(devices) = NumDevices
  BY <1>1, Numbers
<1>3. <<Raw>> \in Seq(Queues) /\ <<Raw, L2>> \in Seq(Queues)
      /\ Len(<<Raw>>) = 1 /\ Len(<<Raw, L2>>) = 2
  BY Numbers
<1>4. /\ ClearL1 \in Seq(Queues) /\ Len(ClearL1) = NumDevices + 1
      /\ ClearL1[1] = Raw /\ \A d \in Dev : ClearL1[d + 1] = d
  <2>1. ClearL1 = <<Raw>> \o devices
    BY DEF ClearL1
  <2>2. \A d \in Dev : devices[d] = d
    OBVIOUS
  <2> HIDE DEF devices
  <2>3. /\ ClearL1 \in Seq(Queues) /\ Len(ClearL1) = 1 + NumDevices
        /\ \A i \in 1..(1 + NumDevices) :
              ClearL1[i] = IF i <= 1 THEN <<Raw>>[i] ELSE devices[i - 1]
    BY <1>2, <1>3, <2>1, ConcatProperties
  <2>4. ClearL1[1] = Raw
    BY <1>1, <2>3
  <2>5. ASSUME NEW d \in Dev PROVE ClearL1[d + 1] = d
    BY <1>1, <2>2, <2>3
  <2> QED  BY <1>1, <2>3, <2>4, <2>5
<1> DEFINE n == NumDevices
<1>5. /\ StopFlush \in Seq(Queues) /\ Len(StopFlush) = n + 3
      /\ \A i \in 1..(n + 3) :
            StopFlush[i] = IF i <= n + 1 THEN ClearL1[i] ELSE <<Raw, L2>>[i - (n + 1)]
  BY <1>1, <1>3, <1>4, ConcatProperties DEF StopFlush, ClearL2
<1>6. DOMAIN StopFlush = 1..n + 3
  BY <1>5, LenProperties
<1>7. CASE q \in Dev
  <2>1. StopFlush[q + 1] = q
    BY <1>1, <1>4, <1>5, <1>7
  <2> QED  BY <1>1, <1>6, <1>7, <2>1
<1>8. CASE q = Raw
  <2>1. StopFlush[1] = q
    BY <1>1, <1>4, <1>5, <1>8
  <2> QED  BY <1>1, <1>6, <2>1
<1>9. CASE q = L2
  BY <1>1, <1>5, <1>6, <1>9
<1> QED  BY <1>1, <1>7, <1>8, <1>9, Numbers

\* A step that leaves the clearers where they are.
LEMMA EmptiedKept ==
    ASSUME Emptied, UNCHANGED <<ctl, flush>>, flushed => flushed',
           \/ ctl \notin {"flushing", "down"}
           \/ /\ UNCHANGED <<drain, conv>>
              /\ \A q \in Queues : queue'[q] # <<>> => queue[q] # <<>>
    PROVE  Emptied'
<1>1. \A f \in Flushers : FlushesL1(f)' <=> FlushesL1(f)
  BY DEF FlushesL1
<1>2. \A f \in Flushers : FlushesL1(f)' => ctl' = "up" /\ flushed'
  BY <1>1, Zenon DEF Emptied
<1>3. ctl' = "flushing" =>
         \A q \in Queues : queue'[q] # <<>> =>
             \E i \in DOMAIN flush'[Control].todo : flush'[Control].todo[i] = q
  BY Zenon DEF Emptied
<1>4. ctl' = "down" => drain' = "exited" /\ conv' = "exited"
  BY DEF Emptied
<1> QED  BY <1>2, <1>3, <1>4 DEF Emptied

LEMMA TakeShrinks ==
    ASSUME TypeOK, NEW q \in Queues, Take(q)
    PROVE  \A p \in Queues : queue'[p] # <<>> => queue[p] # <<>>
BY TakeContents DEF Take

LEMMA FlushEmptied ==
    ASSUME IInv, Emptied, NEW f \in Clearers, Flush(f)
    PROVE  Emptied'
<1>1. /\ TypeOK /\ ClearersOK /\ UNCHANGED <<ctl, flushed, drain, conv>>
      /\ flush[f].todo \in Seq(Queues) /\ flush[f].todo # <<>>
  BY DEF IInv, TypeOK, ClearersOK, Flush, drainVars, convVars, ctlVars
<1>2. Target(f) \in Queues
  BY <1>1, HeadTailProperties DEF Target
<1> DEFINE todo == flush[f].todo  todo2 == flush'[f].todo
<1>3. /\ \A g \in Clearers \ {f} : flush'[g] = flush[g]
      /\ \/ todo2 = todo /\ \A q \in Queues : queue'[q] # <<>> => queue[q] # <<>>
         \/ todo2 = Tail(todo) /\ queue' = queue /\ queue[Target(f)] = <<>>
  <2>1. \A t, held : FlushState(f, t, held) =>
           flush'[f].todo = t /\ \A g \in Clearers \ {f} : flush'[g] = flush[g]
    BY <1>1 DEF FlushState, ClearersOK
  <2>2. CASE FlushTake(f)
    BY <1>1, <1>2, <2>1, <2>2, TakeShrinks DEF FlushTake
  <2>3. CASE FlushCountOut(f)
    BY <2>1, <2>3 DEF FlushCountOut
  <2>4. CASE FlushNext(f)
    BY <2>1, <2>4 DEF FlushNext
  <2> QED  BY <2>2, <2>3, <2>4 DEF Flush
\* What is left in todo2 was in todo, and only the target is gone from it.
<1>4. /\ \A i \in DOMAIN todo2 : \E j \in DOMAIN todo : todo[j] = todo2[i]
      /\ \A q \in Queues : queue'[q] # <<>> =>
            /\ queue[q] # <<>>
            /\ (\E i \in DOMAIN todo : todo[i] = q) => \E i \in DOMAIN todo2 : todo2[i] = q
  <2>1. CASE todo2 = todo /\ \A q \in Queues : queue'[q] # <<>> => queue[q] # <<>>
    BY <2>1
  <2>2. CASE todo2 = Tail(todo) /\ queue' = queue /\ queue[Target(f)] = <<>>
    <3>1. /\ Len(todo) \in Nat /\ Len(todo) >= 1 /\ DOMAIN todo = 1..Len(todo)
          /\ todo2 \in Seq(Queues) /\ Len(todo2) = Len(todo) - 1
          /\ \A i \in 1..(Len(todo) - 1) : todo2[i] = todo[i + 1]
          /\ Target(f) = todo[1]
      BY <1>1, <2>2, HeadTailProperties, LenProperties, EmptySeq DEF Target
    <3>2. DOMAIN todo2 = 1..(Len(todo) - 1)
      BY <3>1, LenProperties
    <3>3. ASSUME NEW i \in DOMAIN todo2 PROVE \E j \in DOMAIN todo : todo[j] = todo2[i]
      <4>1. i + 1 \in DOMAIN todo /\ todo[i + 1] = todo2[i]
        BY <3>1, <3>2
      <4> QED  BY <4>1
    <3>4. ASSUME NEW q \in Queues, queue'[q] # <<>>, NEW i \in DOMAIN todo, todo[i] = q
          PROVE  \E k \in DOMAIN todo2 : todo2[k] = q
      <4>1. i # 1
        BY <2>2, <3>1, <3>4
      <4>2. i - 1 \in DOMAIN todo2 /\ todo2[i - 1] = todo[i]
        BY <3>1, <3>2, <4>1
      <4> QED  BY <3>4, <4>2
    <3> HIDE DEF todo, todo2
    <3> QED  BY <2>2, <3>3, <3>4
  <2> QED  BY <1>3, <2>1, <2>2
<1>5. ctl' = "flushing" =>
         \A q \in Queues : queue'[q] # <<>> =>
             \E i \in DOMAIN flush'[Control].todo : flush'[Control].todo[i] = q
  <2>1. CASE f = Control
    BY <1>1, <1>4, <2>1 DEF Emptied
  <2>2. CASE f # Control
    BY <1>3, <2>2, <1>1, <1>4 DEF Clearers, Emptied
  <2> QED  BY <2>1, <2>2
<1>6. ASSUME NEW g \in Flushers, FlushesL1(g)' PROVE ctl' = "up" /\ flushed'
  <2>1. FlushesL1(g)
    <3>1. CASE g = f
      <4>1. PICK i \in DOMAIN todo2 : todo2[i] \in Dev
        BY <1>6, <3>1 DEF FlushesL1
      <4>2. PICK j \in DOMAIN todo : todo[j] = todo2[i]
        BY <1>4, <4>1
      <4> QED  BY <1>1, <3>1, <4>1, <4>2 DEF FlushesL1
    <3>2. CASE g # f
      BY <1>3, <3>2, <1>6 DEF Clearers, FlushesL1
    <3> QED  BY <3>1, <3>2
  <2> QED  BY <1>1, <2>1 DEF Emptied
<1>7. ctl' = "down" => drain' = "exited" /\ conv' = "exited"
  BY <1>1 DEF Emptied
<1> QED  BY <1>5, <1>6, <1>7 DEF Emptied

LEMMA BeginFlushEmptied ==
    ASSUME IInv, Emptied, NEW f \in Flushers, BeginFlush(f)
    PROVE  Emptied'
<1>1. /\ ClearersOK /\ f \in Clearers /\ f # Control /\ Control \in Clearers
      /\ UNCHANGED <<queue, ctl, drain, conv>>
  BY ConstantsAssumption
     DEF IInv, TypeOK, Clearers, BeginFlush, drainVars, convVars, ctlVars
<1>2. \A program : Start(f, program) =>
         flush'[f].todo = program /\ \A g \in Clearers \ {f} : flush'[g] = flush[g]
  BY <1>1 DEF Start, FlushState, ClearersOK
<1>3. /\ \A g \in Clearers \ {f} : flush'[g] = flush[g]
      /\ flushed => flushed'
      /\ \/ ctl = "up" /\ flushed'
         \/ flush'[f].todo = <<Raw, L2>>
  <2>1. CASE BeginClearL1(f)
    BY <1>2, <2>1, Zenon DEF BeginClearL1
  <2>2. CASE BeginClearL2(f)
    BY <1>2, <2>2, Zenon DEF BeginClearL2, ClearL2
  <2> QED  BY <2>1, <2>2 DEF BeginFlush
<1>4. flush'[Control] = flush[Control]
  BY <1>1, <1>3
<1>5. ASSUME NEW g \in Flushers, FlushesL1(g)' PROVE ctl' = "up" /\ flushed'
  <2>1. CASE g = f
    BY <1>5, <2>1, Numbers, <1>1, <1>3 DEF FlushesL1
  <2>2. CASE g # f
    BY <1>3, <2>2, <1>5, <1>1 DEF Clearers, FlushesL1, Emptied
  <2> QED  BY <2>1, <2>2
<1> QED  BY <1>1, <1>4, <1>5 DEF Emptied

LEMMA ControlEmptied ==
    ASSUME IInv, Emptied, ControlFrame,
           \/ StopPipeline \/ CancelReaders \/ Joined
           \/ StartPipeline \/ ForgetLoss \/ OpenFails
    PROVE  Emptied'
<1>1. /\ TypeOK /\ ClearersOK /\ UNCHANGED queue /\ Control \notin Flushers
  BY ConstantsAssumption DEF IInv, TypeOK, ControlFrame
<1>2. \A f \in Flushers : ~FlushesL1(f)'
  <2> SUFFICES ASSUME NEW f \in Flushers PROVE ~FlushesL1(f)'
    OBVIOUS
  <2>1. ~FlushesL1(f)
    BY DEF Emptied, StopPipeline, CancelReaders, Joined, StartPipeline, ForgetLoss,
           OpenFails, Stopped
  <2>2. flush'[f] = flush[f]
    <3>1. CASE Joined
      BY <1>1, <3>1 DEF Joined, Start, FlushState, ClearersOK, Clearers
    <3>2. CASE ~Joined
      BY <3>2 DEF StopPipeline, CancelReaders, StartPipeline, ForgetLoss, OpenFails
    <3> QED  BY <3>1, <3>2
  <2> QED  BY <2>1, <2>2 DEF FlushesL1
<1>3. ctl' = "flushing" =>
         \A q \in Queues : queue'[q] # <<>> =>
             \E i \in DOMAIN flush'[Control].todo : flush'[Control].todo[i] = q
  <2> HAVE ctl' = "flushing"
  <2>1. Start(Control, StopFlush)
    BY DEF StopPipeline, CancelReaders, Joined, StartPipeline, ForgetLoss, OpenFails
  <2>2. flush'[Control].todo = StopFlush
    BY <1>1, <2>1 DEF Start, FlushState, ClearersOK, Clearers
  <2> QED  BY <2>2, StopFlushesAll
<1>4. ctl' = "down" => drain' = "exited" /\ conv' = "exited"
  BY DEF IInv, Places, StopPipeline, CancelReaders, Joined, StartPipeline, ForgetLoss,
         OpenFails, Stopped
<1> QED  BY <1>2, <1>3, <1>4 DEF Emptied

LEMMA NextEmptied == IInv /\ Emptied /\ [Next]_vars => Emptied'
<1> SUFFICES ASSUME IInv, Emptied, [Next]_vars PROVE Emptied'
  OBVIOUS
<1>0. TypeOK
  BY DEF IInv
<1>1. ASSUME NEW d \in Dev, Callback(d) \/ CallbackCount(d) PROVE Emptied'
  <2>1. UNCHANGED <<ctl, flush, drain, conv, flushed>>
    BY <1>1 DEF Callback, CallbackCount, drainVars, convVars, flushVars, ctlVars
  <2>2. CASE Callback(d) /\ CallbackEnqueue(d)
    BY <2>2, <2>1 DEF Callback, IInv, Places, FlushesL1, Emptied
  <2> QED  BY <1>1, <2>1, <2>2, EmptiedKept DEF Callback, CallbackCount, CallbackDrop
<1>2. CASE Drain
  BY <1>2, EmptiedKept DEF Drain, DrainBegin, DrainTake, DrainTimeout, DrainQuit, DrainCountOut,
     DrainCheck, DrainPush, DrainCount, flushVars, ctlVars, Emptied, IInv, Places
<1>3. CASE Conv
  BY <1>3, EmptiedKept DEF Conv, ConvTake, ConvTimeout, ConvQuit, ConvBroadcast, ConvPush,
     ConvCount, flushVars, ctlVars, Emptied, IInv, Places
<1>4. CASE Corr
  BY <1>4, <1>0, TakeShrinks, Numbers, EmptiedKept DEF Corr, drainVars, convVars, flushVars,
     ctlVars, CorrTake, CorrCountOut
<1>5. ASSUME NEW f \in Flushers, BeginFlush(f) PROVE Emptied'
  BY <1>5, BeginFlushEmptied
<1>6. ASSUME NEW f \in Clearers, Flush(f) PROVE Emptied'
  BY <1>6, FlushEmptied
<1>7. CASE SetRawCap \/ UNCHANGED vars
  BY <1>7, EmptiedKept DEF SetRawCap, vars, drainVars, convVars, flushVars, ctlVars
<1>8. CASE Reconfigure \/ ((StopPipeline \/ OpenFails) /\ ControlFrame)
  BY <1>8, ControlEmptied DEF Reconfigure
<1> QED  BY <1>1, <1>2, <1>3, <1>4, <1>5, <1>6, <1>7, <1>8 DEF Next

-----------------------------------------------------------------------------
(* What flows through the queues. *)

\* What the devices, the sets and their lengths are.
LEMMA Shapes ==
    ASSUME IInv
    PROVE  /\ TypeOK /\ active \in Dev /\ active \in Nat /\ 1..active \subseteq Dev
           /\ \A d \in Dev : tick[d] \in Nat
           /\ \A set \in {None} \cup Set :
                 /\ Len(set) \in Nat /\ DOMAIN set = 1..Len(set) /\ DOMAIN set \subseteq Dev
                 /\ \A d \in DOMAIN set : set[d] \in Nat
           /\ {raw_set, conv_set, broadcast} \subseteq {None} \cup Set
           /\ \A q \in {Raw, L2} : \A set \in SetsOf(q) : set \in Set
<1>1. /\ TypeOK /\ active \in Dev /\ tick \in [Dev -> 1..LastBlock + 1]
      /\ {raw_set, conv_set, broadcast} \subseteq {None} \cup Set
  BY ConstantsAssumption, Numbers DEF IInv, TypeOK
<1>2. active \in Nat /\ 1..active \subseteq Dev
  BY <1>1, Numbers
<1>3. LastBlock \in Nat
  BY RunsAreBlocks, ConstantsAssumption
<1>4. \A d \in Dev : tick[d] \in Nat
  BY <1>1, <1>3
<1>5. ASSUME NEW set \in {None} \cup Set
      PROVE  /\ Len(set) \in Nat /\ DOMAIN set = 1..Len(set) /\ DOMAIN set \subseteq Dev
             /\ \A d \in DOMAIN set : set[d] \in Nat
  <2>1. CASE set = None
    BY <2>1
  <2>2. CASE set \in Set
    <3>1. Len(set) \in Dev /\ set \in [1..Len(set) -> Block]
      BY <2>2, SetLength
    <3>2. Block \subseteq Nat
      BY <1>3 DEF Block
    <3>3. DOMAIN set = 1..Len(set) /\ \A d \in DOMAIN set : set[d] \in Nat
      BY <3>1, <3>2
    <3>4. Len(set) \in Nat /\ 1..Len(set) \subseteq Dev
      BY <3>1, Numbers
    <3> QED  BY <3>3, <3>4
  <2> QED  BY <2>1, <2>2
<1>6. ASSUME NEW q \in {Raw, L2}, NEW set \in SetsOf(q) PROVE set \in Set
  BY Numbers, <1>1, Contents DEF Item, SetsOf
<1> QED  BY <1>1, <1>2, <1>4, <1>5, <1>6

\* The sets of a queue, after the operations.
LEMMA TakeSets ==
    ASSUME TypeOK, NEW q \in Queues, Take(q), NEW p \in Queues
    PROVE  SetsOf(p)' \subseteq SetsOf(p)
<1>1. CASE p # q
  BY <1>1, TakeContents DEF SetsOf
<1>2. CASE p = q
  <2> SUFFICES ASSUME NEW i \in DOMAIN queue'[q]
               PROVE  \E j \in DOMAIN queue[q] : queue[q][j] = queue'[q][i]
    BY <1>2 DEF SetsOf
  <2>1. /\ i \in 1..(Len(queue[q]) - 1) /\ queue'[q][i] = queue[q][i + 1]
        /\ Len(queue[q]) \in Nat /\ DOMAIN queue[q] = 1..Len(queue[q])
    BY TakeContents, Contents
  <2>2. i + 1 \in DOMAIN queue[q]
    BY <2>1
  <2> QED  BY <2>1, <2>2
<1> QED  BY <1>1, <1>2

LEMMA PushSets ==
    ASSUME TypeOK, NEW q \in Queues, NEW item \in Item(q), NEW k \in {0, 1},
           k <= Len(queue[q]), Pushed(q, k, item), NEW p \in Queues
    PROVE  SetsOf(p)' \subseteq SetsOf(p) \cup (IF p = q THEN {item} ELSE {})
<1>1. CASE p # q
  BY <1>1, PushContents DEF SetsOf
<1>2. CASE p = q
  <2> SUFFICES ASSUME NEW i \in DOMAIN queue'[q]
               PROVE  queue'[q][i] = item \/ \E j \in DOMAIN queue[q] : queue[q][j] = queue'[q][i]
    BY <1>2 DEF SetsOf
  <2> DEFINE n == Len(queue[q])
  <2>1. /\ n \in Nat /\ DOMAIN queue[q] = 1..n /\ i \in 1..(n - k + 1)
        /\ queue'[q][n - k + 1] = item
        /\ \A j \in 1..(n - k) : queue'[q][j] = queue[q][j + k]
    BY PushContents, Contents
  <2>2. CASE i = n - k + 1
    BY <2>1, <2>2
  <2>3. CASE i \in 1..(n - k)
    BY <2>1, <2>3
  <2>4. i = n - k + 1 \/ i \in 1..(n - k)
    <3> HIDE DEF n
    <3> QED  BY <2>1
  <2> QED  BY <2>2, <2>3, <2>4
<1> QED  BY <1>1, <1>2

\* A step that moves no block, or forgets a set a thread is done with.
LEMMA QuietFlows ==
    ASSUME Flowing, UNCHANGED <<queue, tick, raw_set, broadcast, active>>,
           conv_set' \in {conv_set, None}, Synced' => Synced,
           drain' # "exited" => drain # "exited",
           conv' = "taken" => conv = "taken" /\ conv_set' = conv_set
    PROVE  Flowing'
<1>1. \A q : SetsOf(q)' = SetsOf(q)
  BY DEF SetsOf
<1>2. Uniform'
  BY <1>1 DEF Flowing, Uniform, WholeSets
<1>3. NoSilentDesync'
  BY <1>1 DEF Flowing, NoSilentDesync, Synced, Aligned
<1>4. InStep'
  BY DEF Flowing, InStep, Holding
<1>5. InOrder'
  <2>1. Lanes' /\ RawOrder' /\ Delivered(broadcast)'
    BY DEF Flowing, InOrder, Lanes, RawOrder, Delivered, Older
  <2>2. Assembled' /\ Delivered(conv_set)'
    BY <1>1 DEF Captured, Delivered, Older, Flowing, InOrder, Assembled
  <2>3. conv' = "taken" => Older(broadcast', conv_set')
    BY DEF Flowing, InOrder
  <2> QED  BY <2>1, <2>2, <2>3 DEF InOrder, Older
<1> QED  BY <1>2, <1>3, <1>4, <1>5 DEF Flowing

\* The items of a queue that loses at most its head.
Shifted(q) ==
    \E k \in {0, 1} :
        /\ DOMAIN queue'[q] = 1..(Len(queue[q]) - k)
        /\ \A i \in 1..(Len(queue[q]) - k) :
              i + k \in 1..Len(queue[q]) /\ queue'[q][i] = queue[q][i + k]

LEMMA TakeShifts ==
    ASSUME TypeOK, NEW q \in Queues, Take(q), NEW p \in Queues
    PROVE  Shifted(p)
<1>1. Len(queue[p]) \in Nat /\ DOMAIN queue[p] = 1..Len(queue[p])
  BY Contents
<1>2. CASE p = q
  BY <1>1, <1>2, TakeContents DEF Shifted
<1>3. CASE p # q
  BY <1>3, TakeContents, <1>1 DEF Shifted
<1> QED  BY <1>2, <1>3

\* It keeps the order of what is left.
LEMMA ShiftedOrder ==
    ASSUME TypeOK, UNCHANGED tick
    PROVE  /\ Lanes /\ (\A d \in Dev : Shifted(d)) => Lanes'
           /\ (\A d \in Dev : Shifted(d)) =>
                 \A set \in {None} \cup Set : Captured(set) => Captured(set)'
           /\ RawOrder /\ Shifted(Raw) /\ UNCHANGED raw_set => RawOrder'
           /\ Shifted(Raw) /\ UNCHANGED raw_set =>
                 \A set \in {None} \cup Set : Delivered(set) => Delivered(set)'
<1>1. \A q \in Queues : Len(queue[q]) \in Nat /\ DOMAIN queue[q] = 1..Len(queue[q])
  BY Contents
<1>2. Dev \subseteq Queues /\ Raw \in Queues
  BY Numbers
<1>3. ASSUME Lanes, \A d \in Dev : Shifted(d) PROVE Lanes'
  <2> SUFFICES ASSUME NEW d \in Dev, NEW j \in DOMAIN queue'[d]
               PROVE  /\ queue'[d][j] < tick'[d]
                      /\ \A i \in DOMAIN queue'[d] : i < j => queue'[d][i] < queue'[d][j]
    BY DEF Lanes
  <2>1. PICK k \in {0, 1} :
           /\ DOMAIN queue'[d] = 1..(Len(queue[d]) - k)
           /\ \A i \in 1..(Len(queue[d]) - k) :
                 i + k \in 1..Len(queue[d]) /\ queue'[d][i] = queue[d][i + k]
    BY <1>3 DEF Shifted
  <2>2. Len(queue[d]) \in Nat /\ DOMAIN queue[d] = 1..Len(queue[d])
    BY <1>1, <1>2
  <2>3. \A i \in DOMAIN queue'[d] : i < j => i + k < j + k
    BY <2>1, <2>2
  <2> QED  BY <1>3, <2>1, <2>2, <2>3 DEF Lanes
<1>4. ASSUME \A d \in Dev : Shifted(d), NEW set \in {None} \cup Set, Captured(set)
      PROVE  Captured(set)'
  <2> SUFFICES ASSUME NEW d \in DOMAIN set
               PROVE  set[d] < tick'[d] /\ \A j \in DOMAIN queue'[d] : set[d] < queue'[d][j]
    BY DEF Captured
  <2>1. d \in Dev
    <3>1. CASE set = None
      BY <3>1
    <3>2. CASE set \in Set
      BY <3>2, SetLength, Numbers
    <3> QED  BY <3>1, <3>2
  <2>2. DOMAIN queue[d] = 1..Len(queue[d])
    BY <1>1, <1>2, <2>1
  <2> QED  BY <1>4, <2>1, <2>2 DEF Captured, Shifted
<1>5. ASSUME RawOrder, Shifted(Raw), UNCHANGED raw_set PROVE RawOrder'
  <2>1. PICK k \in {0, 1} :
           /\ DOMAIN queue'[Raw] = 1..(Len(queue[Raw]) - k)
           /\ \A i \in 1..(Len(queue[Raw]) - k) :
                 i + k \in 1..Len(queue[Raw]) /\ queue'[Raw][i] = queue[Raw][i + k]
    BY <1>5 DEF Shifted
  <2>2. Len(queue[Raw]) \in Nat /\ DOMAIN queue[Raw] = 1..Len(queue[Raw])
    BY <1>1, <1>2
  <2>3. \A i, j \in DOMAIN queue'[Raw] : i < j => i + k < j + k
    BY <2>1, <2>2
  <2>4. \A i, j \in DOMAIN queue'[Raw] : i < j => Older(queue'[Raw][i], queue'[Raw][j])
    BY <1>5, <2>1, <2>2, <2>3 DEF RawOrder
  <2>5. \A j \in DOMAIN queue'[Raw] : Older(queue'[Raw][j], raw_set')
    BY <1>5, <2>1, <2>2 DEF RawOrder
  <2> QED  BY <2>4, <2>5 DEF RawOrder, Older
<1>6. ASSUME Shifted(Raw), UNCHANGED raw_set, NEW set \in {None} \cup Set, Delivered(set)
      PROVE  Delivered(set)'
  BY <1>1, <1>2, <1>6 DEF Delivered, Shifted, Older
<1> QED  BY <1>3, <1>4, <1>5, <1>6

\* A thread other than the drain and the conversion worker takes from a queue:
\* from L1 only after a flush was announced, or with the drain gone.
LEMMA TakenAwayFlows ==
    ASSUME IInv, Flowing, NEW q \in Queues, Take(q),
           UNCHANGED <<tick, raw_set, conv, conv_set, broadcast, active, drain, lossy, flushed>>,
           q \in Dev => ~Synced \/ drain = "exited"
    PROVE  Flowing'
<1>1. TypeOK /\ Raw \in Queues /\ L2 \in Queues /\ Dev \subseteq Queues
  BY Numbers DEF IInv
<1>2. SetsOf(Raw)' \subseteq SetsOf(Raw) /\ SetsOf(L2)' \subseteq SetsOf(L2)
  BY <1>1, TakeSets
<1>3. Uniform'
  BY <1>2 DEF Flowing, Uniform, WholeSets
<1>4. NoSilentDesync'
  BY <1>2 DEF Flowing, NoSilentDesync, Aligned
<1>5. InStep'
  <2>1. CASE q \in Dev
    BY <2>1 DEF InStep, Synced
  <2>2. CASE q \notin Dev
    <3>1. \A d \in Dev : queue'[d] = queue[d]
      BY <1>1, <2>2, TakeContents
    <3>2. 1..active \subseteq Dev /\ DOMAIN raw_set \subseteq Dev
      BY Shapes
    <3> QED  BY <3>1, <3>2 DEF Flowing, InStep, Synced, Holding
  <2> QED  BY <2>1, <2>2
<1>6. InOrder'
  <2>1. (\A d \in Dev : Shifted(d)) /\ Shifted(Raw)
    BY <1>1, TakeShifts
  <2>2. /\ {raw_set, conv_set, broadcast} \subseteq {None} \cup Set
        /\ \A set \in SetsOf(Raw) : set \in Set
    BY Shapes
  <2>3. Lanes' /\ RawOrder'
    BY <1>1, <2>1, ShiftedOrder DEF Flowing, InOrder
  <2>4. \A set \in SetsOf(Raw) \cup {raw_set, conv_set, broadcast} : Captured(set)'
    BY <1>1, <2>1, <2>2, ShiftedOrder DEF Flowing, InOrder, Assembled
  <2>5. Assembled'
    BY <1>2, <2>4 DEF Assembled, Captured
  <2>6. Delivered(conv_set)' /\ Delivered(broadcast)'
    BY <1>1, <2>1, <2>2, ShiftedOrder DEF Flowing, InOrder, Delivered, Older
  <2> QED  BY <2>3, <2>5, <2>6 DEF Flowing, InOrder, Older
<1> QED  BY <1>3, <1>4, <1>5, <1>6 DEF Flowing

LEMMA CallbackFlows ==
    ASSUME IInv, Flowing, NEW d \in Dev, Callback(d)
    PROVE  Flowing'
<1>1. /\ UNCHANGED <<size, drain, raw_set, conv, conv_set, broadcast, active, flushed>>
      /\ tick' = [tick EXCEPT ![d] = @ + 1] /\ d \in Queues /\ Raw \in Queues /\ L2 \in Queues
      /\ d # Raw /\ d # L2 /\ d <= active /\ Dev \subseteq Queues
  BY Numbers DEF Callback, drainVars, convVars, flushVars, ctlVars
<1>2. /\ TypeOK /\ active \in Nat /\ 1..active \subseteq Dev
      /\ \A e \in Dev : tick[e] \in Nat
      /\ {raw_set, conv_set, broadcast} \subseteq {None} \cup Set
      /\ \A set \in SetsOf(Raw) : set \in Set
      /\ \A set \in {None} \cup Set : DOMAIN set \subseteq Dev /\ \A e \in DOMAIN set : set[e] \in Nat
  BY Shapes
<1>3. tick'[d] = tick[d] + 1 /\ \A e \in Dev \ {d} : tick'[e] = tick[e]
  BY <1>1 DEF IInv, TypeOK
<1>4. \A e \in Dev : /\ Len(queue[e]) \in Nat /\ DOMAIN queue[e] = 1..Len(queue[e])
                     /\ \A i \in DOMAIN queue[e] : queue[e][i] \in Nat
  BY RunsAreBlocks, ConstantsAssumption, <1>1, <1>2, Contents DEF Item, Block
<1> DEFINE n == Len(queue[d])
<1>5. CASE CallbackDrop(d)
  <2>1. queue' = queue /\ lossy'
    BY <1>5 DEF CallbackDrop, SignalDrop, SignalCoherenceLost
  <2>2. \A q : SetsOf(q)' = SetsOf(q)
    BY <2>1 DEF SetsOf
  <2>3. Uniform'
    BY <1>1, <2>2 DEF Flowing, Uniform, WholeSets
  <2>4. NoSilentDesync' /\ InStep'
    BY <2>1 DEF NoSilentDesync, InStep, Synced
  <2>5. Lanes'
    BY <1>2, <1>3, <1>4, <2>1 DEF Flowing, InOrder, Lanes
  <2>6. \A set \in {None} \cup Set : Captured(set) => Captured(set)'
    BY <1>2, <1>3, <2>1 DEF Captured
  <2>7. Assembled'
    BY <1>1, <1>2, <2>2, <2>6 DEF Flowing, InOrder, Assembled, Captured
  <2>8. RawOrder' /\ Delivered(conv_set)' /\ Delivered(broadcast)'
    BY <1>1, <2>1 DEF Flowing, InOrder, RawOrder, Delivered, Older
  <2>9. InOrder'
    BY <1>1, <2>5, <2>7, <2>8 DEF Flowing, InOrder, Older
  <2> QED  BY <2>3, <2>4, <2>9 DEF Flowing
<1>6. CASE CallbackEnqueue(d)
  <2>1. Put(d, tick[d]) /\ lossy' = lossy
    BY <1>6 DEF CallbackEnqueue, lossVars
  <2>2. /\ \A q \in Queues \ {d} : queue'[q] = queue[q]
        /\ Len(queue'[d]) = n + 1 /\ DOMAIN queue'[d] = 1..(n + 1)
        /\ queue'[d][n + 1] = tick[d]
        /\ \A i \in 1..n : queue'[d][i] = queue[d][i]
    <3>1. Pushed(d, 0, tick[d])
      BY <2>1 DEF Put, Pushed
    <3>2. tick[d] \in Item(d)
      BY RunsAreBlocks DEF IInv, TypeOK, Places, Callback, Item, Block
    <3>3. 0 \in {0, 1} /\ 0 <= n
      BY <1>4
    <3> DEFINE zero == 0
    <3>4. /\ \A q \in Queues \ {d} : queue'[q] = queue[q]
          /\ Len(queue'[d]) = Len(queue[d]) - zero + 1
          /\ DOMAIN queue'[d] = 1..(Len(queue[d]) - zero + 1)
          /\ queue'[d][Len(queue[d]) - zero + 1] = tick[d]
          /\ \A i \in 1..(Len(queue[d]) - zero) : queue'[d][i] = queue[d][i + zero]
      <4>1. zero \in {0, 1} /\ zero <= Len(queue[d]) /\ Pushed(d, zero, tick[d])
        BY <3>1, <3>3
      <4> HIDE DEF zero
      <4> QED  BY <1>1, <1>2, <3>2, <4>1, PushContents
    <3>5. \A i \in 1..n : i + 0 = i
      BY <1>4
    <3>6. n - 0 + 1 = n + 1 /\ n - 0 = n
      BY <1>4
    <3> QED  BY <3>4, <3>5, <3>6
  <2>3. \A q \in {Raw, L2} : SetsOf(q)' = SetsOf(q)
    BY <1>1, <2>2 DEF SetsOf
  <2>4. Uniform' /\ NoSilentDesync'
    BY <1>1, <2>1, <2>3 DEF Flowing, Uniform, WholeSets, NoSilentDesync, Aligned
  <2>5. InStep'
    <3>1. \A e \in Dev : tick'[e] - Len(queue'[e]) = tick[e] - Len(queue[e])
      <4> TAKE e \in Dev
      <4>1. CASE e = d
        <5> DEFINE t == tick[d]  t2 == tick'[d]  n2 == Len(queue'[d])
        <5>1. t \in Nat /\ n \in Nat /\ t2 = t + 1 /\ n2 = n + 1
          BY <1>1, <1>2, <1>3, <1>4, <2>2
        <5>2. t2 - n2 = t - n
          <6> HIDE DEF t, t2, n, n2
          <6> QED  BY <5>1
        <5> QED  BY <4>1, <5>2
      <4>2. CASE e # d
        BY <1>1, <1>3, <2>2, <4>2
      <4> QED  BY <4>1, <4>2
    <3> SUFFICES ASSUME Synced, drain # "exited"
                 PROVE  /\ \A e \in 1..active : \A i \in DOMAIN queue'[e] :
                              queue'[e][i] = tick'[e] - Len(queue'[e]) + i - 1
                        /\ \A e \in DOMAIN raw_set : raw_set[e] = tick'[e] - Len(queue'[e]) - 1
                        /\ \A e, g \in 1..active :
                              tick'[e] - Len(queue'[e]) - Holding(raw_set, e)
                                 = tick'[g] - Len(queue'[g]) - Holding(raw_set, g)
      BY <1>1, <2>1 DEF InStep, Synced, Holding
    <3>2. \A e \in DOMAIN raw_set : raw_set[e] = tick'[e] - Len(queue'[e]) - 1
      BY <1>2, <3>1 DEF Flowing, InStep
    <3>3. \A e, g \in 1..active : tick'[e] - Len(queue'[e]) - Holding(raw_set, e)
                                    = tick'[g] - Len(queue'[g]) - Holding(raw_set, g)
      BY <1>2, <3>1 DEF Flowing, InStep
    <3>4. ASSUME NEW e \in 1..active, NEW i \in DOMAIN queue'[e]
          PROVE  queue'[e][i] = tick'[e] - Len(queue'[e]) + i - 1
      <4>1. CASE e = d
        <5>1. CASE i = n + 1
          <6>1. queue'[e][i] = tick[d] /\ Len(queue'[e]) = n + 1 /\ tick'[e] = tick[d] + 1
            BY <1>3, <2>2, <4>1, <5>1
          <6>2. n \in Nat /\ tick[d] \in Nat
            BY <1>2, <1>4
          <6>3. tick[d] = (tick[d] + 1) - (n + 1) + (n + 1) - 1
            <7> HIDE DEF n
            <7> QED  BY <6>2
          <6> HIDE DEF n
          <6> QED  BY <5>1, <6>1, <6>3, Zenon
        <5>2. CASE i \in 1..n
          <6>1. queue'[e][i] = queue[d][i] /\ queue[d][i] = tick[d] - n + i - 1
            BY <1>1, <1>4, <2>2, <4>1, <5>2 DEF Flowing, InStep
          <6>2. Len(queue'[e]) = n + 1 /\ tick'[e] = tick[d] + 1
            BY <1>3, <2>2, <4>1
          <6>3. n \in Nat /\ tick[d] \in Nat
            BY <1>2, <1>4
          <6> HIDE DEF n
          <6> QED  BY <5>2, <6>1, <6>2, <6>3
        <5> QED  BY <1>4, <2>2, <4>1, <5>1, <5>2
      <4>2. CASE e # d
        BY <1>1, <1>2, <1>3, <2>2, <4>2 DEF Flowing, InStep
      <4> QED  BY <4>1, <4>2
    <3> QED  BY <3>2, <3>3, <3>4
  <2>6. Lanes'
    <3> SUFFICES ASSUME NEW e \in Dev, NEW j \in DOMAIN queue'[e]
                 PROVE  /\ queue'[e][j] < tick'[e]
                        /\ \A i \in DOMAIN queue'[e] : i < j => queue'[e][i] < queue'[e][j]
      BY DEF Lanes
    <3>1. CASE e # d
      BY <1>1, <1>3, <2>2, <3>1 DEF Flowing, InOrder, Lanes
    <3>2. CASE e = d
      <4>1. \A i \in 1..n : queue'[d][i] = queue[d][i] /\ queue[d][i] < tick[d] /\ queue[d][i] \in Nat
        BY <1>4, <2>2 DEF Flowing, InOrder, Lanes
      <4>2. \A i, k \in 1..n : i < k => queue[d][i] < queue[d][k]
        BY <1>4 DEF Flowing, InOrder, Lanes
      <4>3. n \in Nat /\ tick[d] \in Nat /\ j \in 1..(n + 1) /\ tick'[d] = tick[d] + 1
            /\ DOMAIN queue'[d] = 1..(n + 1) /\ queue'[d][n + 1] = tick[d]
        BY <1>2, <1>3, <1>4, <2>2, <3>2
      <4>4. queue'[d][j] < tick'[d]
        <5>1. CASE j = n + 1
          BY <1>2, <4>3, <5>1
        <5>2. CASE j \in 1..n
          BY <1>2, <4>1, <4>3, <5>2
        <5> HIDE DEF n
        <5> QED  BY <4>3, <5>1, <5>2
      <4>5. ASSUME NEW i \in DOMAIN queue'[d], i < j PROVE queue'[d][i] < queue'[d][j]
        <5>1. i \in 1..n /\ (j = n + 1 \/ j \in 1..n)
          <6> HIDE DEF n
          <6> QED  BY <4>3, <4>5
        <5>2. CASE j = n + 1
          BY <4>1, <4>3, <5>1, <5>2
        <5>3. CASE j \in 1..n
          BY <4>1, <4>2, <4>5, <5>1, <5>3
        <5> QED  BY <5>1, <5>2, <5>3
      <4> QED  BY <3>2, <4>4, <4>5
    <3> QED  BY <3>1, <3>2
  <2>7. ASSUME NEW set \in {None} \cup Set, Captured(set) PROVE Captured(set)'
    <3> SUFFICES ASSUME NEW e \in DOMAIN set
                 PROVE  set[e] < tick'[e] /\ \A j \in DOMAIN queue'[e] : set[e] < queue'[e][j]
      BY DEF Captured
    <3>1. e \in Dev /\ set[e] \in Nat /\ set[e] < tick[e] /\ \A j \in DOMAIN queue[e] : set[e] < queue[e][j]
      BY <1>2, <2>7 DEF Captured
    <3>2. CASE e = d
      <4>1. set[e] < tick'[e]
        BY <1>2, <1>3, <3>1, <3>2
      <4>2. ASSUME NEW j \in DOMAIN queue'[d] PROVE set[e] < queue'[d][j]
        <5>1. j = n + 1 \/ j \in 1..n
          BY <1>4, <2>2
        <5>2. CASE j = n + 1
          BY <2>2, <3>1, <3>2, <5>2
        <5>3. CASE j \in 1..n
          BY <1>4, <2>2, <3>1, <3>2, <5>3
        <5> QED  BY <5>1, <5>2, <5>3
      <4> QED  BY <3>2, <4>1, <4>2
    <3>3. CASE e # d
      BY <1>1, <1>3, <2>2, <3>1, <3>3
    <3> QED  BY <3>2, <3>3
  <2>8. Assembled'
    BY <1>1, <1>2, <2>3, <2>7 DEF Flowing, InOrder, Assembled, Captured
  <2>9. RawOrder' /\ Delivered(conv_set)' /\ Delivered(broadcast)'
    BY <1>1, <2>2 DEF Flowing, InOrder, RawOrder, Delivered, Older
  <2>10. InOrder'
    BY <1>1, <2>6, <2>8, <2>9 DEF Flowing, InOrder, Older
  <2> QED  BY <2>4, <2>5, <2>10 DEF Flowing
<1> QED  BY <1>5, <1>6 DEF Callback

\* The drain gives a set up: as it ends, or when it has a block of each device.
LEMMA GiveUpFlows ==
    ASSUME IInv, Flowing, NEW pc \in {"begin", "exited"}, GiveUp(pc),
           UNCHANGED <<queue, tick, conv, conv_set, broadcast, active, lossy, flushed>>,
           pc = "begin" => drain # "exited" /\ Len(raw_set) = active
    PROVE  Flowing'
<1>1. drain' = pc /\ raw_set' = None /\ \A q : SetsOf(q)' = SetsOf(q)
  BY DEF GiveUp, SetsOf
<1>2. Uniform'
  BY <1>1 DEF Flowing, Uniform, WholeSets
<1>3. NoSilentDesync'
  <2>1. Aligned(None)
    BY DEF Aligned
  <2> QED  BY <1>1, <2>1 DEF Flowing, NoSilentDesync, Aligned
<1>4. InStep'
  <2>1. CASE pc = "exited"
    BY <1>1, <2>1 DEF InStep
  <2>2. CASE pc = "begin"
    <3>1. \A d \in 1..active : Holding(raw_set, d) = 1 /\ Holding(None, d) = 0
      BY <2>2, Shapes DEF Holding
    <3>2. \A d \in 1..active : tick[d] \in Nat /\ Len(queue[d]) \in Nat
      BY Shapes, Contents, Numbers
    <3> SUFFICES ASSUME Synced
                 PROVE  /\ \A d \in 1..active : \A i \in DOMAIN queue[d] :
                              queue[d][i] = tick[d] - Len(queue[d]) + i - 1
                        /\ \A d, e \in 1..active : tick[d] - Len(queue[d]) - Holding(None, d)
                                                     = tick[e] - Len(queue[e]) - Holding(None, e)
      BY <1>1 DEF InStep, Synced, Holding
    <3>3. \A d, e \in 1..active : tick[d] - Len(queue[d]) - 1 = tick[e] - Len(queue[e]) - 1
      BY <2>2, <3>1 DEF Flowing, InStep
    <3>4. \A d, e \in 1..active : tick[d] - Len(queue[d]) = tick[e] - Len(queue[e])
      <4> TAKE d, e \in 1..active
      <4> DEFINE t == tick[d]  m == Len(queue[d])  t2 == tick[e]  m2 == Len(queue[e])
      <4>1. t \in Nat /\ m \in Nat /\ t2 \in Nat /\ m2 \in Nat /\ t - m - 1 = t2 - m2 - 1
        BY <3>2, <3>3
      <4>2. t - m = t2 - m2
        <5> HIDE DEF t, m, t2, m2
        <5> QED  BY <4>1
      <4> QED  BY <4>2
    <3>5. \A d \in 1..active : \A i \in DOMAIN queue[d] :
             queue[d][i] = tick[d] - Len(queue[d]) + i - 1
      BY <2>2 DEF Flowing, InStep
    <3>6. \A d \in 1..active : tick[d] - Len(queue[d]) - Holding(None, d) = tick[d] - Len(queue[d])
      <4> TAKE d \in 1..active
      <4> DEFINE t == tick[d]  m == Len(queue[d])
      <4>1. t \in Nat /\ m \in Nat /\ Holding(None, d) = 0
        BY <3>1, <3>2
      <4>2. t - m - 0 = t - m
        <5> HIDE DEF t, m
        <5> QED  BY <4>1
      <4> QED  BY <4>1, <4>2
    <3> QED  BY <3>4, <3>5, <3>6
  <2> QED  BY <2>1, <2>2
<1>5. InOrder'
  BY <1>1 DEF Flowing, InOrder, Lanes, Assembled, Captured, RawOrder, Delivered, Older
<1> QED  BY <1>2, <1>3, <1>4, <1>5 DEF Flowing

\* The drain takes the block of the next device: it is of the period of those
\* collected already.
LEMMA DrainTakeFlows ==
    ASSUME IInv, Flowing, DrainTake,
           UNCHANGED <<tick, conv, conv_set, broadcast, active, flushed>>
    PROVE  Flowing'
<1> DEFINE w == Waiting  n == Len(queue[w])
<1>1. /\ drain = "collect" /\ drain' = "taken" /\ Take(w) /\ lossy' = lossy
      /\ raw_set' = Append(raw_set, Head(queue[w]))
  BY DEF DrainTake, lossVars
<1>2. /\ TypeOK /\ active \in Dev /\ active \in Nat /\ 1..active \subseteq Dev
      /\ \A e \in Dev : tick[e] \in Nat
      /\ {raw_set, conv_set, broadcast} \subseteq {None} \cup Set
      /\ \A set \in SetsOf(Raw) : set \in Set
      /\ \A set \in {None} \cup Set :
            /\ Len(set) \in Nat /\ DOMAIN set = 1..Len(set) /\ DOMAIN set \subseteq Dev
            /\ \A e \in DOMAIN set : set[e] \in Nat
  BY Shapes
<1>3. Len(raw_set) < active
  BY <1>1 DEF IInv, Places
<1>4. w = Len(raw_set) + 1 /\ w \in 1..active /\ w \in Dev /\ w \in Queues /\ w # Raw /\ w # L2
      /\ Raw \in Queues /\ L2 \in Queues /\ Dev \subseteq Queues
  BY <1>2, <1>3, Numbers DEF Waiting
<1> HIDE DEF w
<1>5. /\ \A q \in Queues \ {w} : queue'[q] = queue[q]
      /\ n \in Nat /\ n >= 1 /\ Head(queue[w]) = queue[w][1] /\ Len(queue'[w]) = n - 1
      /\ DOMAIN queue[w] = 1..n /\ DOMAIN queue'[w] = 1..(n - 1)
      /\ \A i \in 1..(n - 1) : queue'[w][i] = queue[w][i + 1]
  <2>1. n \in Nat /\ DOMAIN queue[w] = 1..n
    BY <1>2, <1>4, Contents
  <2>2. TypeOK /\ w \in Queues /\ Take(w)
    BY <1>1, <1>2, <1>4
  <2>3. /\ \A q \in Queues \ {w} : queue'[q] = queue[q]
        /\ n >= 1 /\ Head(queue[w]) = queue[w][1] /\ Len(queue'[w]) = n - 1
        /\ DOMAIN queue'[w] = 1..(n - 1)
        /\ \A i \in 1..(n - 1) : queue'[w][i] = queue[w][i + 1]
    BY <2>2, TakeContents, Zenon
  <2> QED  BY <2>1, <2>3
<1> DEFINE h == queue[w][1]
<1>6. h \in Block /\ h \in Nat /\ 1 \in DOMAIN queue[w]
  <2>1. Item(w) = Block
    BY <1>4 DEF Item
  <2>2. Block \subseteq Nat
    BY RunsAreBlocks, ConstantsAssumption DEF Block
  <2>3. 1 \in DOMAIN queue[w]
    BY <1>5
  <2>4. \A i \in DOMAIN queue[w] : queue[w][i] \in Item(w)
    BY <1>2, <1>4, Contents, Zenon
  <2> QED  BY <2>1, <2>2, <2>3, <2>4
<1>7. /\ DOMAIN raw_set' = 1..w /\ raw_set'[w] = h
      /\ \A i \in DOMAIN raw_set : i # w /\ raw_set'[i] = raw_set[i]
      /\ DOMAIN raw_set = 1..(w - 1) /\ DOMAIN raw_set' = DOMAIN raw_set \cup {w}
      /\ Len(raw_set') = w
  <2>1. raw_set' = Append(raw_set, h) /\ DOMAIN raw_set = 1..(w - 1) /\ w \in Nat
    BY <1>1, <1>2, <1>4, <1>5, Numbers
  <2>2. raw_set \in Seq(Nat)
    <3>1. CASE raw_set = None
      BY <3>1
    <3>2. CASE raw_set \in Set
      BY <1>2, <3>2, SetLength
    <3> QED  BY <1>2, <3>1, <3>2
  <2>3. /\ Append(raw_set, h) \in Seq(Nat) /\ Len(Append(raw_set, h)) = Len(raw_set) + 1
        /\ \A i \in 1..Len(raw_set) : Append(raw_set, h)[i] = raw_set[i]
        /\ Append(raw_set, h)[Len(raw_set) + 1] = h
    BY <1>6, <2>2, AppendProperties
  <2>4. DOMAIN Append(raw_set, h) = 1..w /\ Len(raw_set) = w - 1
    BY <1>2, <1>4, <2>3, LenProperties
  <2> HIDE DEF h
  <2> QED  BY <1>2, <1>4, <2>1, <2>3, <2>4
<1>8. \A q \in {Raw, L2} : SetsOf(q)' = SetsOf(q)
  BY <1>4, <1>5 DEF SetsOf
<1>9. Uniform'
  BY <1>8 DEF Flowing, Uniform, WholeSets
\* In step: the block taken is the one the others hold.
<1>10. ASSUME Synced
       PROVE  /\ \A d \in 1..active : \A i \in DOMAIN queue'[d] :
                    queue'[d][i] = tick[d] - Len(queue'[d]) + i - 1
              /\ \A d \in DOMAIN raw_set' : raw_set'[d] = tick[d] - Len(queue'[d]) - 1
              /\ \A d, e \in 1..active : tick[d] - Len(queue'[d]) - Holding(raw_set', d)
                                           = tick[e] - Len(queue'[e]) - Holding(raw_set', e)
  <2>1. /\ \A d \in 1..active : \A i \in DOMAIN queue[d] :
              queue[d][i] = tick[d] - Len(queue[d]) + i - 1
        /\ \A d \in DOMAIN raw_set : raw_set[d] = tick[d] - Len(queue[d]) - 1
        /\ \A d, e \in 1..active : tick[d] - Len(queue[d]) - Holding(raw_set, d)
                                     = tick[e] - Len(queue[e]) - Holding(raw_set, e)
    BY <1>1, <1>10 DEF Flowing, InStep
  <2> DEFINE t == tick[w]
  <2>2. t \in Nat /\ n \in Nat /\ h = t - n
    <3>1. t \in Nat /\ n \in Nat /\ h = t - n + 1 - 1
      BY <1>2, <1>4, <1>5, <1>6, <2>1
    <3> HIDE DEF t, n, h
    <3> QED  BY <3>1
  <2>3. ASSUME NEW d \in 1..active, NEW i \in DOMAIN queue'[d]
        PROVE  queue'[d][i] = tick[d] - Len(queue'[d]) + i - 1
    <3>1. CASE d = w
      <4>0. i \in 1..(n - 1)
        BY <1>5, <3>1
      <4>1. /\ i \in 1..(n - 1) /\ i + 1 \in DOMAIN queue[w]
            /\ queue'[w][i] = queue[w][i + 1]
        <5>1. i + 1 \in 1..n
          <6> HIDE DEF n
          <6> QED  BY <1>5, <4>0
        <5> QED  BY <1>5, <4>0, <5>1
      <4>2. queue'[w][i] = t - n + (i + 1) - 1 /\ Len(queue'[w]) = n - 1
        BY <1>4, <1>5, <2>1, <4>1
      <4>3. t - n + (i + 1) - 1 = t - (n - 1) + i - 1
        <5> HIDE DEF t, n
        <5> QED  BY <2>2, <4>1
      <4> QED  BY <3>1, <4>2, <4>3
    <3>2. CASE d # w
      <4>1. queue'[d] = queue[d]
        BY <1>2, <1>4, <1>5, <3>2
      <4> QED  BY <2>1, <4>1
    <3> QED  BY <3>1, <3>2
  <2>4. ASSUME NEW d \in DOMAIN raw_set'
        PROVE  raw_set'[d] = tick[d] - Len(queue'[d]) - 1
    <3>1. CASE d = w
      <4>1. t - (n - 1) - 1 = h
        <5> HIDE DEF t, n, h
        <5> QED  BY <2>2
      <4> QED  BY <1>5, <1>7, <3>1, <4>1
    <3>2. CASE d # w
      BY <1>2, <1>4, <1>7, <3>2, <1>5, <2>1
    <3> QED  BY <3>1, <3>2
  <2>5. ASSUME NEW d \in 1..active
        PROVE  tick[d] - Len(queue'[d]) - Holding(raw_set', d) = tick[d] - Len(queue[d]) - Holding(raw_set, d)
    <3>1. CASE d = w
      <4>1. Holding(raw_set', d) = 1 /\ Holding(raw_set, d) = 0
        BY <1>2, <1>4, <1>7, <3>1 DEF Holding
      <4>2. t - (n - 1) - 1 = t - n - 0
        <5> HIDE DEF t, n
        <5> QED  BY <2>2
      <4> QED  BY <1>5, <3>1, <4>1, <4>2
    <3>2. CASE d # w
      BY <1>2, <1>4, <1>5, <3>2, <1>7 DEF Holding
    <3> QED  BY <3>1, <3>2
  <2>6. \A d, e \in 1..active : tick[d] - Len(queue'[d]) - Holding(raw_set', d)
                                  = tick[e] - Len(queue'[e]) - Holding(raw_set', e)
    BY <2>1, <2>5
  <2> QED  BY <2>3, <2>4, <2>6
<1>11. InStep'
  BY <1>1, <1>10 DEF InStep, Synced, Holding
<1>12. NoSilentDesync'
  <2> SUFFICES ASSUME Synced, NEW i \in DOMAIN raw_set', NEW j \in DOMAIN raw_set'
               PROVE  raw_set'[i] = raw_set'[j]
    BY <1>1, <1>8 DEF Flowing, NoSilentDesync, Aligned, Synced
  <2>1. \A d \in DOMAIN raw_set' : d \in 1..active /\ Holding(raw_set', d) = 1
    BY <1>2, <1>4, <1>7 DEF Holding
  <2>2. /\ raw_set'[i] = tick[i] - Len(queue'[i]) - 1
        /\ raw_set'[j] = tick[j] - Len(queue'[j]) - 1
        /\ tick[i] - Len(queue'[i]) - Holding(raw_set', i) = tick[j] - Len(queue'[j]) - Holding(raw_set', j)
    BY <1>10, <2>1
  <2> QED  BY <2>1, <2>2
<1>13. InOrder'
  <2>1. \A d \in Dev : Shifted(d)
    BY <1>1, <1>2, <1>4, TakeShifts
  <2>2. Lanes' /\ \A set \in {None} \cup Set : Captured(set) => Captured(set)'
    BY <1>2, <2>1, ShiftedOrder DEF Flowing, InOrder
  <2>3. Captured(raw_set)'
    <3> SUFFICES ASSUME NEW d \in DOMAIN raw_set'
                 PROVE  /\ raw_set'[d] < tick[d]
                        /\ \A j \in DOMAIN queue'[d] : raw_set'[d] < queue'[d][j]
      BY DEF Captured
    <3>1. CASE d = w
      <4>1. h < tick[w]
        BY <1>4, <1>6 DEF Flowing, InOrder, Lanes
      <4>2. ASSUME NEW j \in 1..(n - 1) PROVE h < queue[w][j + 1]
        <5>1. j + 1 \in DOMAIN queue[w] /\ 1 < j + 1
          BY <1>5
        <5> QED  BY <1>4, <1>6, <5>1 DEF Flowing, InOrder, Lanes
      <4> QED  BY <1>5, <1>7, <3>1, <4>1, <4>2
    <3>2. CASE d # w
      BY <1>2, <1>4, <1>5, <1>7, <3>2 DEF Flowing, InOrder, Assembled, Captured
    <3> QED  BY <3>1, <3>2
  <2>4. Assembled'
    <3>1. \A set \in SetsOf(Raw) \cup {conv_set, broadcast} : Captured(set)'
      BY <1>2, <2>2 DEF Flowing, InOrder, Assembled
    <3> QED  BY <1>8, <2>3, <3>1 DEF Assembled, Captured
\* What was ahead of the collected blocks is ahead of the new one.
  <2>5. ASSUME NEW set \in SetsOf(Raw) \cup {conv_set, broadcast}, Older(set, raw_set)
        PROVE  Older(set, raw_set')
    <3> SUFFICES ASSUME NEW i \in DOMAIN set, i \in DOMAIN raw_set' PROVE set[i] < raw_set'[i]
      BY DEF Older
    <3>1. CASE i = w
      BY <1>6, <1>7, <3>1 DEF Flowing, InOrder, Assembled, Captured
    <3>2. CASE i # w
      BY <1>7, <2>5, <3>2 DEF Older
    <3> QED  BY <3>1, <3>2
  <2>6. queue'[Raw] = queue[Raw]
    BY <1>4, <1>5
  <2>7. RawOrder'
    BY <2>5, <2>6 DEF SetsOf, Flowing, InOrder, RawOrder, Older
  <2>8. Delivered(conv_set)' /\ Delivered(broadcast)'
    BY <2>5, <2>6 DEF Flowing, InOrder, Delivered, Older
  <2> QED  BY <2>2, <2>4, <2>7, <2>8 DEF Flowing, InOrder, Older
<1> QED  BY <1>9, <1>11, <1>12, <1>13 DEF Flowing

\* The drain pushes the set it has collected.
LEMMA DrainPushFlows ==
    ASSUME IInv, Flowing, DrainPush,
           UNCHANGED <<tick, conv, conv_set, broadcast, active, flushed>>
    PROVE  Flowing'
<1>1. /\ drain = "push" /\ drain' = "count" /\ PushDropOldest(Raw, l2_raw_cap, raw_set)
      /\ raw_set' = None /\ lossy' = lossy
  BY DEF DrainPush, NewSet, lossVars
<1>2. /\ TypeOK /\ active \in Dev /\ active \in Nat /\ 1..active \subseteq Dev
      /\ {raw_set, conv_set, broadcast} \subseteq {None} \cup Set
      /\ \A set \in SetsOf(Raw) : set \in Set
  BY Shapes
<1>3. raw_set \in Set /\ Len(raw_set) = active /\ Raw \in Queues /\ L2 \in Queues
      /\ Item(Raw) = Set /\ Dev \subseteq Queues /\ Raw # L2 /\ Raw \notin Dev
  BY <1>1, <1>2, Numbers DEF IInv, Places, Item
<1> DEFINE n == Len(queue[Raw])
<1>4. PICK k \in {0, 1} : k <= n /\ Pushed(Raw, k, raw_set)
  BY <1>1, <1>2, Pushes
<1>5. /\ \A q \in Queues \ {Raw} : queue'[q] = queue[q]
      /\ n \in Nat /\ DOMAIN queue[Raw] = 1..n
      /\ DOMAIN queue'[Raw] = 1..(n - k + 1)
      /\ queue'[Raw][n - k + 1] = raw_set
      /\ \A i \in 1..(n - k) : queue'[Raw][i] = queue[Raw][i + k]
  BY <1>2, <1>3, <1>4, PushContents, Contents
<1>6. SetsOf(Raw)' \subseteq SetsOf(Raw) \cup {raw_set} /\ SetsOf(L2)' \subseteq SetsOf(L2)
  BY <1>2, <1>3, <1>4, PushSets
<1>7. Uniform'
  BY <1>3, <1>6 DEF Flowing, Uniform, WholeSets
<1>8. NoSilentDesync'
  <2>1. Aligned(None)
    BY DEF Aligned
  <2> QED  BY <1>1, <1>6, <2>1 DEF Flowing, NoSilentDesync, Aligned
<1>9. InStep'
  <2>1. \A d \in 1..active : Holding(raw_set, d) = 1 /\ Holding(None, d) = 0
    BY <1>2, <1>3 DEF Holding
  <2>2. \A d \in 1..active : /\ tick[d] \in Nat /\ Len(queue[d]) \in Nat
                             /\ queue'[d] = queue[d]
    BY <1>2, <1>3, <1>5, Shapes, Contents
  <2> SUFFICES ASSUME Synced
               PROVE  /\ \A d \in 1..active : \A i \in DOMAIN queue'[d] :
                            queue'[d][i] = tick[d] - Len(queue'[d]) + i - 1
                      /\ \A d, e \in 1..active : tick[d] - Len(queue'[d]) - Holding(None, d)
                                                   = tick[e] - Len(queue'[e]) - Holding(None, e)
    BY <1>1 DEF InStep, Synced, Holding
  <2>3. \A d, e \in 1..active : tick[d] - Len(queue[d]) - 1 = tick[e] - Len(queue[e]) - 1
    BY <1>1, <2>1 DEF Flowing, InStep
  <2>4. \A d, e \in 1..active : tick[d] - Len(queue[d]) - Holding(None, d)
                                  = tick[e] - Len(queue[e]) - Holding(None, e)
    <3> TAKE d, e \in 1..active
    <3> DEFINE t == tick[d]  m == Len(queue[d])  t2 == tick[e]  m2 == Len(queue[e])
    <3>1. t \in Nat /\ m \in Nat /\ t2 \in Nat /\ m2 \in Nat /\ t - m - 1 = t2 - m2 - 1
      BY <2>2, <2>3
    <3>2. t - m - 0 = t2 - m2 - 0
      <4> HIDE DEF t, m, t2, m2
      <4> QED  BY <3>1
    <3> QED  BY <2>1, <3>2
  <2>5. \A d \in 1..active : \A i \in DOMAIN queue[d] :
           queue[d][i] = tick[d] - Len(queue[d]) + i - 1
    BY <1>1 DEF Flowing, InStep
  <2> QED  BY <2>2, <2>4, <2>5
<1>10. InOrder'
  <2>1. Lanes'
    BY <1>3, <1>5 DEF Flowing, InOrder, Lanes
  <2>2. Assembled'
    BY <1>3, <1>5, Shapes, <1>2, <1>1, <1>6 DEF Captured, Flowing, InOrder, Assembled
  <2>3. RawOrder'
    <3> SUFFICES ASSUME NEW i \in DOMAIN queue'[Raw], NEW j \in DOMAIN queue'[Raw], i < j
                 PROVE  Older(queue'[Raw][i], queue'[Raw][j])
      BY <1>1 DEF RawOrder, Older
    <3>1. i \in 1..(n - k) /\ i + k \in DOMAIN queue[Raw] /\ queue'[Raw][i] = queue[Raw][i + k]
      <4>1. i \in 1..(n - k) /\ i + k \in 1..n
        <5> HIDE DEF n
        <5> QED  BY <1>5
      <4> QED  BY <1>5, <4>1
    <3>2. CASE j = n - k + 1
      BY <1>5, <3>1, <3>2 DEF Flowing, InOrder, RawOrder
    <3>3. CASE j \in 1..(n - k)
      <4>1. j + k \in DOMAIN queue[Raw] /\ i + k < j + k
        <5> HIDE DEF n
        <5> QED  BY <1>5, <3>1, <3>3
      <4> QED  BY <1>5, <3>1, <3>3, <4>1 DEF Flowing, InOrder, RawOrder
    <3>4. j = n - k + 1 \/ j \in 1..(n - k)
      <4> HIDE DEF n
      <4> QED  BY <1>5
    <3> QED  BY <3>2, <3>3, <3>4
  <2>4. ASSUME NEW set \in {conv_set, broadcast} PROVE Delivered(set)'
    <3>1. Delivered(set)
      BY DEF Flowing, InOrder
    <3>2. ASSUME NEW j \in DOMAIN queue'[Raw] PROVE Older(set, queue'[Raw][j])
      <4>1. j = n - k + 1 \/ (j \in 1..(n - k) /\ j + k \in 1..n)
        <5> HIDE DEF n
        <5> QED  BY <1>5
      <4> QED  BY <1>5, <3>1, <4>1 DEF Delivered
    <3> QED  BY <1>1, <3>2 DEF Delivered, Older
  <2>5. Delivered(conv_set)' /\ Delivered(broadcast)'
    BY <2>4 DEF Delivered, Older
  <2> QED  BY <2>1, <2>2, <2>3, <2>5 DEF Flowing, InOrder, Older
<1> QED  BY <1>7, <1>8, <1>9, <1>10 DEF Flowing

\* The conversion worker takes the oldest set, sends it out, and passes it on.
LEMMA ConvTakeFlows ==
    ASSUME IInv, Flowing, ConvTake,
           UNCHANGED <<tick, raw_set, active, drain, lossy, flushed>>
    PROVE  Flowing'
<1> DEFINE h == queue[Raw][1]
<1>1. /\ conv' = "taken" /\ Take(Raw) /\ broadcast' = broadcast /\ conv_set' = Head(queue[Raw])
  BY DEF ConvTake
<1>2. /\ TypeOK /\ Raw \in Queues /\ L2 \in Queues /\ Dev \subseteq Queues /\ Raw \notin Dev
      /\ {raw_set, conv_set, broadcast} \subseteq {None} \cup Set
      /\ \A set \in SetsOf(Raw) : set \in Set
      /\ 1..active \subseteq Dev /\ DOMAIN raw_set \subseteq Dev
  BY Shapes, Numbers
<1>3. /\ \A q \in Queues \ {Raw} : queue'[q] = queue[q]
      /\ conv_set' = h /\ DOMAIN queue[Raw] = 1..Len(queue[Raw]) /\ 1 \in DOMAIN queue[Raw]
      /\ DOMAIN queue'[Raw] = 1..(Len(queue[Raw]) - 1) /\ Len(queue[Raw]) \in Nat
      /\ \A i \in 1..(Len(queue[Raw]) - 1) : queue'[Raw][i] = queue[Raw][i + 1]
  BY <1>1, <1>2, TakeContents, Contents
<1>4. h \in SetsOf(Raw) /\ h \in Set
  BY <1>2, <1>3 DEF SetsOf
<1>5. SetsOf(Raw)' \subseteq SetsOf(Raw) /\ SetsOf(L2)' \subseteq SetsOf(L2)
  BY <1>1, <1>2, TakeSets
<1>6. Uniform'
  BY <1>1, <1>3, <1>4, <1>5 DEF Flowing, Uniform, WholeSets
<1>7. NoSilentDesync'
  BY <1>3, <1>4, <1>5 DEF Flowing, NoSilentDesync, Aligned
<1>8. InStep'
  <2>1. \A d \in Dev : queue'[d] = queue[d]
    BY <1>2, <1>3
  <2> QED  BY <1>2, <2>1 DEF Flowing, InStep, Synced, Holding
<1>9. InOrder'
  <2>1. (\A d \in Dev : Shifted(d)) /\ Shifted(Raw)
    BY <1>1, <1>2, TakeShifts
  <2>2. Lanes' /\ RawOrder'
    BY <1>2, <2>1, ShiftedOrder DEF Flowing, InOrder
  <2>3. \A set \in SetsOf(Raw) \cup {raw_set, broadcast} : Captured(set)'
    BY <1>2, <2>1, ShiftedOrder DEF Flowing, InOrder, Assembled
  <2>4. Assembled'
    BY <1>1, <1>3, <1>4, <1>5, <2>3 DEF Assembled, Captured
  <2>5. Delivered(broadcast)'
    BY <1>2, <2>1, ShiftedOrder, <1>1 DEF Flowing, InOrder, Delivered, Older
  <2>6. Delivered(conv_set)'
    <3>1. Older(h, raw_set)
      BY <1>3 DEF Flowing, InOrder, RawOrder
    <3>2. ASSUME NEW i \in 1..(Len(queue[Raw]) - 1) PROVE Older(h, queue'[Raw][i])
      <4>1. i + 1 \in DOMAIN queue[Raw] /\ 1 < i + 1
        BY <1>3
      <4> QED  BY <1>3, <4>1 DEF Flowing, InOrder, RawOrder
    <3> QED  BY <1>3, <3>1, <3>2 DEF Delivered, Older
  <2>7. Older(broadcast', conv_set')
    BY <1>1, <1>3 DEF Flowing, InOrder, Delivered
  <2> QED  BY <1>1, <2>2, <2>4, <2>5, <2>6, <2>7 DEF InOrder, Older
<1> QED  BY <1>6, <1>7, <1>8, <1>9 DEF Flowing

LEMMA ConvBroadcastFlows ==
    ASSUME IInv, Flowing, ConvBroadcast,
           UNCHANGED <<tick, raw_set, active, drain, lossy, flushed>>
    PROVE  Flowing'
<1>1. conv = "taken" /\ conv' = "push" /\ broadcast' = conv_set /\ UNCHANGED <<conv_set, queue>>
  BY DEF ConvBroadcast
<1>2. \A q : SetsOf(q)' = SetsOf(q)
  BY <1>1 DEF SetsOf
<1>3. Uniform'
  BY <1>1, <1>2 DEF Flowing, Uniform, WholeSets
<1>4. NoSilentDesync' /\ InStep'
  BY <1>1, <1>2 DEF Flowing, NoSilentDesync, Aligned, InStep, Synced, Holding
<1>5. Lanes' /\ RawOrder' /\ Delivered(conv_set)' /\ Delivered(broadcast)'
  BY <1>1 DEF Flowing, InOrder, Lanes, RawOrder, Delivered, Older
<1>6. Assembled'
  BY <1>1, <1>2 DEF Flowing, InOrder, Assembled, Captured
<1> QED  BY <1>1, <1>3, <1>4, <1>5, <1>6 DEF Flowing, InOrder

LEMMA ConvPushFlows ==
    ASSUME IInv, Flowing, ConvPush,
           UNCHANGED <<tick, raw_set, active, drain, lossy, flushed>>
    PROVE  Flowing'
<1>1. /\ conv = "push" /\ conv' = "count" /\ PushDropOldest(L2, L2Max, conv_set)
      /\ UNCHANGED <<conv_set, broadcast>>
  BY DEF ConvPush
<1>2. /\ TypeOK /\ conv_set \in Set /\ Raw \in Queues /\ L2 \in Queues /\ Item(L2) = Set
      /\ Raw # L2 /\ Dev \subseteq Queues /\ L2 \notin Dev /\ 1..active \subseteq Dev
      /\ DOMAIN raw_set \subseteq Dev
  <2>1. conv_set \in {None} \cup Set /\ conv_set # None
    BY <1>1, Zenon DEF IInv, Places, TypeOK
  <2> QED  BY <2>1, Shapes, Numbers DEF Item
<1>3. PICK k \in {0, 1} : k <= Len(queue[L2]) /\ Pushed(L2, k, conv_set)
  BY <1>1, <1>2, Pushes
<1>4. \A q \in Queues \ {L2} : queue'[q] = queue[q]
  BY <1>2, <1>3, PushContents
<1>5. SetsOf(Raw)' = SetsOf(Raw) /\ SetsOf(L2)' \subseteq SetsOf(L2) \cup {conv_set}
  <2>1. SetsOf(L2)' \subseteq SetsOf(L2) \cup {conv_set}
    BY <1>2, <1>3, PushSets
  <2> QED  BY <1>2, <1>4, <2>1 DEF SetsOf
<1>6. Uniform'
  BY <1>1, <1>2, <1>5, SetLength DEF Flowing, Uniform, WholeSets
<1>7. NoSilentDesync'
  BY <1>1, <1>5 DEF Flowing, NoSilentDesync, Aligned
<1>8. queue'[Raw] = queue[Raw] /\ \A d \in Dev : queue'[d] = queue[d]
  BY <1>2, <1>4
<1>9. InStep'
  BY <1>2, <1>8 DEF Flowing, InStep, Synced, Holding
<1>10. Lanes' /\ RawOrder' /\ Delivered(conv_set)' /\ Delivered(broadcast)'
  BY <1>1, <1>8 DEF Flowing, InOrder, Lanes, RawOrder, Delivered, Older
<1>11. Assembled'
  BY <1>8, Shapes, <1>1, <1>5 DEF Captured, Flowing, InOrder, Assembled
<1> QED  BY <1>1, <1>6, <1>7, <1>9, <1>10, <1>11 DEF Flowing, InOrder

\* Nothing is left of the last run when the devices are opened again.
LEMMA StartFlows ==
    ASSUME IInv, Emptied, StartPipeline, UNCHANGED <<queue, raw_set, conv_set>>
    PROVE  Flowing'
<1>1. /\ \A q \in Queues : queue[q] = <<>>
      /\ raw_set' = None /\ conv_set' = None /\ broadcast' = None
      /\ conv' = "wait" /\ queue' = queue
      /\ tick' = [d \in Dev |-> LastOfRun(restarts) + 1]
  <2>1. /\ ctl = "flushing" /\ flush[Control].todo = <<>>
    BY DEF StartPipeline, Stopped, Resting
  <2>2. \A q \in Queues : queue[q] = <<>>
    BY <2>1 DEF Emptied
  <2>3. raw_set = None /\ conv_set = None
    BY <2>1, Zenon DEF IInv, Places
  <2> QED  BY <2>2, <2>3 DEF StartPipeline
<1>2. SetsOf(Raw)' = {} /\ SetsOf(L2)' = {} /\ queue'[Raw] = <<>> /\ \A d \in Dev : queue'[d] = <<>>
  BY <1>1, Numbers DEF SetsOf
<1>3. Uniform'
  BY <1>1, <1>2 DEF Uniform, WholeSets
<1>4. NoSilentDesync'
  <2>1. Aligned(None)
    BY DEF Aligned
  <2> QED  BY <1>1, <1>2, <2>1 DEF NoSilentDesync, Aligned
<1>5. InStep'
  <2>1. active' \in Nat /\ 1..active' \subseteq Dev
    BY ConstantsAssumption, Numbers DEF StartPipeline
  <2>2. \A d \in 1..active' : queue'[d] = <<>> /\ tick'[d] = LastOfRun(restarts) + 1
    BY <1>1, <1>2, <2>1
  <2>3. \A d \in 1..active' : Len(queue'[d]) = 0 /\ DOMAIN queue'[d] = {}
    BY <2>2
  <2>4. \A d, e \in 1..active' : /\ tick'[d] = tick'[e] /\ Len(queue'[d]) = Len(queue'[e])
                                  /\ Holding(raw_set', d) = Holding(raw_set', e)
    BY <1>1, <2>2, <2>3 DEF Holding
  <2>5. \A d, e \in 1..active' : tick'[d] - Len(queue'[d]) - Holding(raw_set', d)
                                   = tick'[e] - Len(queue'[e]) - Holding(raw_set', e)
    BY <2>4, Zenon
  <2>6. DOMAIN raw_set' = {}
    BY <1>1
  <2> QED  BY <2>3, <2>5, <2>6, Zenon DEF InStep
<1>6. InOrder'
  BY <1>2, <1>1 DEF Lanes, RawOrder, Assembled, Captured, Delivered, Older, InOrder
<1> QED  BY <1>3, <1>4, <1>5, <1>6 DEF Flowing

\* No flush ends the wait of the recovery for one.
LEMMA BeginFlushFlags ==
    ASSUME NEW f \in Flushers, BeginFlush(f)
    PROVE  flushed => flushed'
<1>1. CASE BeginClearL1(f)
  BY <1>1, Zenon DEF BeginClearL1
<1>2. CASE BeginClearL2(f)
  BY <1>2, Zenon DEF BeginClearL2
<1> QED  BY <1>1, <1>2, Zenon DEF BeginFlush

LEMMA NextFlows == IInv /\ SInv /\ [Next]_vars => Flowing'
<1> SUFFICES ASSUME IInv, Emptied, Flowing, [Next]_vars PROVE Flowing'
  BY DEF SInv
<1>0. TypeOK
  BY DEF IInv
<1>1. ASSUME NEW d \in Dev, Callback(d) \/ CallbackCount(d) PROVE Flowing'
  <2>1. CASE CallbackCount(d)
    BY <2>1, QuietFlows
       DEF CallbackCount, Synced, drainVars, convVars, flushVars, ctlVars, lossVars
  <2> QED  BY <1>1, <2>1, CallbackFlows
<1>2. CASE Drain
  <2>1. UNCHANGED <<tick, conv, conv_set, broadcast, active, flushed>>
    BY <1>2 DEF Drain, devVars, convVars, flushVars, ctlVars
  <2>2. CASE DrainBegin \/ DrainCountOut \/ DrainCount
    BY <2>2, <2>1, QuietFlows DEF DrainBegin, DrainCountOut, DrainCount, lossVars, Synced
  <2>3. CASE DrainTake
    BY <2>1, <2>3, DrainTakeFlows
  <2>4. CASE DrainTimeout
    <3>1. CASE GiveUp("exited") /\ UNCHANGED <<timeouts, lossVars>>
      BY <2>1, <2>4, <3>1, GiveUpFlows DEF DrainTimeout, lossVars
    <3>2. CASE /\ UNCHANGED <<drain, raw_set, free>>
               /\ IF timeouts + 1 = StuckMax THEN SignalCoherenceLost ELSE UNCHANGED lossVars
      <4>1. queue' = queue /\ (Synced' => Synced)
        BY <2>1, <2>4, <3>2, Zenon DEF DrainTimeout, SignalCoherenceLost, Synced, lossVars
      <4> QED  BY <2>1, <3>2, <4>1, QuietFlows
    <3> QED  BY <2>4, <3>1, <3>2 DEF DrainTimeout
  <2>5. CASE DrainQuit
    BY <2>1, <2>5, GiveUpFlows DEF DrainQuit, lossVars
  <2>6. CASE DrainCheck
    <3>1. UNCHANGED <<queue, lossy>> /\ drain = "check" /\ Len(raw_set) = active
      BY <2>6 DEF DrainCheck, lossVars, IInv, Places
    <3>2. CASE GiveUp("begin")
      BY <2>1, <3>1, <3>2, GiveUpFlows
    <3>3. CASE UNCHANGED <<raw_set, free>>
      BY <2>1, <3>1, <3>3, QuietFlows DEF Synced
    <3> QED  BY <2>6, <3>2, <3>3 DEF DrainCheck
  <2>7. CASE DrainPush
    BY <2>1, <2>7, DrainPushFlows
  <2> QED  BY <1>2, <2>2, <2>3, <2>4, <2>5, <2>6, <2>7 DEF Drain
<1>3. CASE Conv
  <2>1. UNCHANGED <<tick, raw_set, active, drain, lossy, flushed>>
    BY <1>3 DEF Conv, devVars, drainVars, flushVars, ctlVars, lossVars
  <2>2. CASE ConvTimeout \/ ConvQuit \/ ConvCount
    BY <2>2, <2>1, QuietFlows DEF ConvTimeout, ConvQuit, ConvCount, Synced
  <2> QED  BY <1>3, <2>1, <2>2, ConvTakeFlows, ConvBroadcastFlows, ConvPushFlows DEF Conv
<1>4. CASE Corr
  <2>1. UNCHANGED <<tick, raw_set, conv, conv_set, broadcast, active, drain, lossy, flushed>>
    BY <1>4 DEF Corr, devVars, drainVars, convVars, flushVars, ctlVars, lossVars
  <2>2. CASE CorrTake
    BY <2>1, <2>2, TakenAwayFlows, Numbers DEF CorrTake
  <2>3. CASE CorrCountOut
    BY <2>1, <2>3, QuietFlows DEF CorrCountOut, Synced
  <2> QED  BY <1>4, <2>2, <2>3 DEF Corr
<1>5. ASSUME NEW f \in Flushers, BeginFlush(f) PROVE Flowing'
  BY <1>5, BeginFlushFlags, QuietFlows DEF BeginFlush, BeginClearL1, BeginClearL2, devVars,
     drainVars, convVars, ctlVars, Synced
<1>6. ASSUME NEW f \in Clearers, Flush(f) PROVE Flowing'
  <2>1. /\ UNCHANGED <<tick, raw_set, conv, conv_set, broadcast, active, drain, lossy, flushed>>
        /\ flush[f].todo \in Seq(Queues) /\ flush[f].todo # <<>>
    BY <1>6 DEF Flush, devVars, drainVars, convVars, flushVars, ctlVars, lossVars,
                IInv, TypeOK, ClearersOK
  <2>2. CASE FlushTake(f)
    <3>1. Target(f) \in Queues /\ 1 \in DOMAIN flush[f].todo /\ Target(f) = flush[f].todo[1]
      BY <2>1, HeadTailProperties, LenProperties, EmptySeq DEF Target
    <3>2. ASSUME Target(f) \in Dev PROVE ~Synced \/ drain = "exited"
      <4>1. CASE f \in Flushers
        BY <2>1, <3>1, <3>2, <4>1 DEF Emptied, FlushesL1, Synced
      <4>2. CASE f = Control
        BY <2>1, <4>2 DEF IInv, Places, Resting
      <4> QED  BY <4>1, <4>2 DEF Clearers
    <3> QED  BY <2>1, <2>2, <3>1, <3>2, TakenAwayFlows DEF FlushTake
  <2>3. CASE FlushCountOut(f) \/ FlushNext(f)
    BY <2>1, <2>3, QuietFlows DEF FlushCountOut, FlushNext, Synced
  <2> QED  BY <1>6, <2>2, <2>3 DEF Flush
<1>7. CASE SetRawCap \/ UNCHANGED vars
  BY <1>7, QuietFlows DEF SetRawCap, vars, devVars, drainVars, convVars, flushVars, ctlVars,
     lossVars, Synced
<1>8. CASE ControlFrame /\ StartPipeline
  BY <1>8, StartFlows DEF ControlFrame
<1>9. CASE ControlFrame /\ (\/ StopPipeline \/ CancelReaders \/ Joined \/ ForgetLoss \/ OpenFails)
  BY <1>9, QuietFlows DEF ControlFrame, StopPipeline, CancelReaders, Joined, ForgetLoss, OpenFails,
     lossVars, Synced
<1> QED  BY <1>1, <1>2, <1>3, <1>4, <1>5, <1>6, <1>7, <1>8, <1>9 DEF Next, Reconfigure

LEMMA InitSInv == Init => SInv
<1> SUFFICES ASSUME Init PROVE SInv
  OBVIOUS
<1>1. /\ \A q \in Queues : queue[q] = <<>>
      /\ raw_set = None /\ conv_set = None /\ broadcast = None /\ conv = "wait" /\ ctl = "up"
      /\ \A f \in Clearers : flush[f].todo = <<>>
      /\ tick = [d \in Dev |-> 1] /\ active \in Nat /\ 1..active \subseteq Dev
  BY ConstantsAssumption, Numbers DEF Init, Resting
<1>2. SetsOf(Raw) = {} /\ SetsOf(L2) = {} /\ queue[Raw] = <<>> /\ \A d \in Dev : queue[d] = <<>>
  BY <1>1, Numbers DEF SetsOf
<1>3. Emptied
  BY <1>1 DEF Emptied, FlushesL1, Clearers
<1>4. Uniform /\ NoSilentDesync
  BY <1>1, <1>2 DEF Uniform, WholeSets, NoSilentDesync, Aligned
<1>5. InStep
  BY <1>1, <1>2 DEF Holding, InStep
<1>6. InOrder
  BY <1>1, <1>2 DEF InOrder, Lanes, RawOrder, Assembled, Captured, Delivered, Older
<1> QED  BY <1>3, <1>4, <1>5, <1>6 DEF SInv, Flowing

\* The invariant of the sample path.
THEOREM StreamInvariant == Spec => [](IInv /\ SInv)
<1>1. Init => IInv /\ SInv
  BY InitIInv, InitSInv
<1>2. IInv /\ SInv /\ [Next]_vars => (IInv /\ SInv)'
  BY NextIInv, NextEmptied, NextFlows DEF SInv
<1> QED  BY <1>1, <1>2, PTL DEF Spec

\* Until a loss is signalled or L1 flushed every set in the pipeline is aligned:
\* the heads of the L1 queues stay in step whatever the drain, the flushes of L2
\* and the restarts do.
THEOREM DesyncIsSignalled == Spec => []NoSilentDesync
<1>1. SInv => NoSilentDesync
  BY DEF SInv, Flowing
<1> QED  BY <1>1, StreamInvariant, PTL

\* Each whole set has one block of each active element, across restarts with
\* another element count.
THEOREM SetsMatch == Spec => []SetsMatchElementCount
<1>1. SInv => SetsMatchElementCount
  BY DEF SInv, Flowing, Uniform, WholeSets, SetsMatchElementCount
<1> QED  BY <1>1, StreamInvariant, PTL

-----------------------------------------------------------------------------
(* The stream that is sent. *)

\* Each step sends a later set of the same channels, gives up sync, restarts the
\* stream, or is no step of it.
LEMMA NextStream == IInv /\ SInv /\ [Next]_vars => [Stream!Next]_<<broadcast, Synced>>
<1> SUFFICES ASSUME IInv, Emptied, Flowing, [Next]_vars
             PROVE  Stream!Next \/ UNCHANGED <<broadcast, Synced>>
  BY DEF SInv
<1>1. ASSUME UNCHANGED broadcast, Synced' => Synced
      PROVE  Stream!Next \/ UNCHANGED <<broadcast, Synced>>
  BY <1>1, Zenon DEF Stream!Next, Stream!LoseSync, Synced
<1>2. CASE ControlFrame /\ StartPipeline
  BY <1>2 DEF StartPipeline, Stream!Next, Stream!Restart
<1>3. CASE Conv /\ ConvBroadcast
  <2>1. /\ conv = "taken" /\ broadcast' = conv_set /\ UNCHANGED <<lossy, flushed>>
    BY <1>3 DEF Conv, ConvBroadcast, flushVars, lossVars
  <2>2. conv_set \in Set
    BY <2>1, Zenon DEF IInv, Places, TypeOK
  <2>3. conv_set \in Stream!Sets
    BY <2>2, Numbers DEF Stream!Sets, Set, Block
  <2>4. Stream!Later(conv_set, broadcast)
    <3> SUFFICES ASSUME broadcast # None
                 PROVE  /\ DOMAIN conv_set = DOMAIN broadcast
                        /\ \A i \in DOMAIN broadcast : broadcast[i] < conv_set[i]
      BY DEF Stream!Later
    <3>1. Len(conv_set) = active /\ Len(broadcast) = active
      BY <2>2, SetLength DEF Flowing, Uniform, WholeSets
    <3>2. DOMAIN conv_set = 1..active /\ DOMAIN broadcast = 1..active
      BY <2>2, <3>1, Shapes
    <3> QED  BY <2>1, <3>2 DEF Flowing, InOrder, Older
  <2>5. Synced => Stream!Together(conv_set)
    BY DEF Flowing, NoSilentDesync, Synced, Aligned, Stream!Together
  <2> QED  BY <2>1, <2>3, <2>4, <2>5, Zenon DEF Stream!Next, Stream!Send, Synced
<1>4. CASE ~(ControlFrame /\ StartPipeline) /\ ~(Conv /\ ConvBroadcast)
  <2>1. ASSUME NEW d \in Dev, Callback(d) \/ CallbackCount(d)
        PROVE  UNCHANGED broadcast /\ (Synced' => Synced)
    BY <2>1 DEF Callback, CallbackCount, CallbackDrop, CallbackEnqueue, SignalDrop,
                SignalCoherenceLost, Synced, convVars, flushVars, lossVars
  <2>2. ASSUME Drain PROVE UNCHANGED broadcast /\ (Synced' => Synced)
    <3>1. UNCHANGED <<broadcast, flushed>>
      BY <2>2 DEF Drain, convVars, flushVars
    <3>2. lossy => lossy'
      BY <2>2, Zenon DEF Drain, DrainBegin, DrainTake, DrainTimeout, DrainQuit, DrainCountOut,
             DrainCheck, DrainPush, DrainCount, SignalCoherenceLost, lossVars
    <3> QED  BY <3>1, <3>2 DEF Synced
  <2>3. ASSUME Conv PROVE UNCHANGED broadcast /\ (Synced' => Synced)
    BY <1>4, <2>3 DEF Conv, ConvTake, ConvTimeout, ConvQuit, ConvPush, ConvCount, Synced,
                      flushVars, lossVars
  <2>4. ASSUME NEW f \in Flushers, BeginFlush(f) PROVE UNCHANGED broadcast /\ (Synced' => Synced)
    BY <2>4, BeginFlushFlags DEF BeginFlush, BeginClearL1, BeginClearL2, convVars, Synced
  <2>5. ASSUME Corr \/ SetRawCap \/ UNCHANGED vars \/ \E f \in Clearers : Flush(f)
        PROVE  UNCHANGED broadcast /\ (Synced' => Synced)
    BY <2>5 DEF Corr, SetRawCap, vars, Flush, Synced, convVars, flushVars, lossVars
  <2>6. ASSUME ControlFrame,
               \/ StopPipeline \/ CancelReaders \/ Joined \/ ForgetLoss \/ OpenFails
        PROVE  UNCHANGED broadcast /\ (Synced' => Synced)
    BY <2>6 DEF StopPipeline, CancelReaders, Joined, ForgetLoss, OpenFails, Synced, lossVars
  <2>7. UNCHANGED broadcast /\ (Synced' => Synced)
    BY <1>4, <2>1, <2>2, <2>3, <2>4, <2>5, <2>6 DEF Next, Reconfigure
  <2> QED  BY <1>1, <2>7
<1> QED  BY <1>2, <1>3, <1>4

\* What the streamers receive is a SetStream.
THEOREM StreamRefinement == Spec => ImplementsSetStream
<1>1. Init => Stream!Init
  BY DEF Init, Stream!Init
<1>2. IInv /\ SInv /\ [Next]_vars => [Stream!Next]_<<broadcast, ~lossy /\ ~flushed>>
  BY NextStream DEF Synced
<1> QED  BY <1>1, <1>2, StreamInvariant, PTL DEF Spec, ImplementsSetStream, Stream!Spec

-----------------------------------------------------------------------------
(* The buffers of the sample pools. *)

\* The sets of a queue that hold a block of d.
Wide(s, d) == {i \in DOMAIN s : d <= Len(s[i])}

LEMMA WideFinite ==
    ASSUME NEW S, NEW s \in Seq(S), NEW d
    PROVE  IsFiniteSet(Wide(s, d)) /\ Cardinality(Wide(s, d)) \in Nat
<1>1. DOMAIN s = 1..Len(s) /\ Len(s) \in Nat
  BY LenProperties
<1>2. IsFiniteSet(DOMAIN s)
  BY <1>1, FS_Interval
<1>3. Wide(s, d) \in SUBSET (DOMAIN s)
  BY DEF Wide
<1> QED  BY <1>2, <1>3, FS_Subset, FS_CardinalityType

LEMMA WideTail ==
    ASSUME NEW S, NEW s \in Seq(S), s # <<>>, NEW d
    PROVE  Cardinality(Wide(Tail(s), d)) = Cardinality(Wide(s, d)) - If1(d <= Len(Head(s)))
<1> DEFINE t == Tail(s)  n == Len(s)
           W == Wide(s, d)  T == Wide(t, d)  f == [i \in T |-> i + 1]
<1>1. /\ t \in Seq(S) /\ n \in Nat /\ n >= 1 /\ Len(t) = n - 1
      /\ \A i \in 1..(n - 1) : t[i] = s[i + 1]
      /\ DOMAIN s = 1..n /\ DOMAIN t = 1..(n - 1) /\ Head(s) = s[1]
  BY HeadTailProperties, LenProperties, EmptySeq
<1> HIDE DEF t, n
<1>2. T = {i \in 1..(n - 1) : d <= Len(s[i + 1])} /\ W = {i \in 1..n : d <= Len(s[i])}
  BY <1>1 DEF Wide
<1>3. f \in Bijection(T, W \ {1})
  <2>1. \A i \in T : i + 1 \in W \ {1}
    BY <1>1, <1>2
  <2>2. \A i, j \in T : f[i] = f[j] => i = j
    BY <1>1, <1>2
  <2>3. ASSUME NEW j \in W \ {1} PROVE \E i \in T : f[i] = j
    <3>1. j - 1 \in T /\ f[j - 1] = j
      BY <1>1, <1>2
    <3> QED  BY <3>1
  <2>4. f \in [T -> W \ {1}]
    BY <2>1
  <2> HIDE DEF f, T, W
  <2>5. f \in Injection(T, W \ {1})
    BY <2>2, <2>4 DEF Injection, IsInjective
  <2>6. f \in Surjection(T, W \ {1})
    BY <2>3, <2>4 DEF Surjection
  <2> QED  BY <2>5, <2>6 DEF Bijection
<1>4. IsFiniteSet(T) /\ IsFiniteSet(W) /\ Cardinality(W) \in Nat
  BY <1>1, WideFinite
<1>5. ExistsBijection(T, W \ {1})
  <2> HIDE DEF f, T, W
  <2> QED  BY <1>3 DEF ExistsBijection
<1>6. Cardinality(W \ {1}) = Cardinality(T)
  <2> HIDE DEF T, W
  <2> QED  BY <1>4, <1>5, FS_Bijection
<1>7. Cardinality(W \ {1}) = IF 1 \in W THEN Cardinality(W) - 1 ELSE Cardinality(W)
  <2> HIDE DEF W
  <2> QED  BY <1>4, FS_RemoveElement
<1>8. 1 \in W <=> d <= Len(Head(s))
  BY <1>1, <1>2
<1>9. Cardinality(T) = Cardinality(W) - If1(d <= Len(Head(s)))
  <2> HIDE DEF T, W
  <2> QED  BY <1>4, <1>6, <1>7, <1>8
<1> QED  BY <1>9 DEF t

LEMMA WideAppend ==
    ASSUME NEW S, NEW s \in Seq(S), NEW x \in S, NEW d
    PROVE  Cardinality(Wide(Append(s, x), d)) = Cardinality(Wide(s, d)) + If1(d <= Len(x))
<1> DEFINE t == Append(s, x)  n == Len(s)  W == Wide(s, d)  T == Wide(t, d)
<1>1. /\ n \in Nat /\ DOMAIN s = 1..n /\ DOMAIN t = 1..(n + 1)
      /\ t[n + 1] = x /\ \A i \in 1..n : t[i] = s[i]
  BY AppendProperties, LenProperties
<1>2. T = W \cup (IF d <= Len(x) THEN {n + 1} ELSE {}) /\ n + 1 \notin W
  <2> HIDE DEF t, n
  <2> QED  BY <1>1 DEF Wide
<1>3. IsFiniteSet(W) /\ Cardinality(W) \in Nat
  BY WideFinite
<1>4. Cardinality(W \cup {n + 1}) = Cardinality(W) + 1
  <2> HIDE DEF W, n
  <2> QED  BY <1>2, <1>3, FS_AddElement
<1>5. Cardinality(T) = Cardinality(W) + If1(d <= Len(x))
  <2>1. CASE d <= Len(x)
    <3>1. T = W \cup {n + 1}
      BY <1>2, <2>1
    <3> HIDE DEF W, T, n
    <3> QED  BY <1>4, <2>1, <3>1
  <2>2. CASE ~(d <= Len(x))
    <3>1. T = W
      BY <1>2, <2>2
    <3> HIDE DEF W, T, n
    <3> QED  BY <1>3, <2>2, <3>1
  <2> QED  BY <2>1, <2>2
<1> QED  BY <1>5

Within(d) == Cardinality(Wide(queue[Raw], d))
Carriers(d) == {f \in Holders[Raw] : d <= Len(Head(flush[f].held))}

\* The places where the buffers of device d are, one by one.
LEMMA Whereabouts ==
    ASSUME TypeOK, NEW d \in Dev
    PROVE  /\ InFlight(d) = Len(queue[d]) + Holding(raw_set, d) + Holding(conv_set, d)
                              + Within(d) + Cardinality(Holders[d]) + Cardinality(Carriers(d))
           /\ free[d] \in Nat /\ Len(queue[d]) \in Nat /\ Within(d) \in Nat
           /\ Cardinality(Holders[d]) \in Nat /\ Cardinality(Carriers(d)) \in Nat
           /\ IsFiniteSet(Carriers(d))
<1>1. d \in Queues /\ Raw \in Queues
  BY Numbers
<1>2. free[d] \in Nat /\ Len(queue[d]) \in Nat /\ queue[Raw] \in Seq(Item(Raw))
  BY <1>1, Contents DEF TypeOK
<1>3. Within(d) \in Nat
  BY <1>2, WideFinite DEF Within
<1>4. Cardinality(Holders[d]) \in Nat /\ IsFiniteSet(Holders[Raw])
  BY <1>1, HoldersFinite
<1>5. IsFiniteSet(Carriers(d)) /\ Cardinality(Carriers(d)) \in Nat
  BY <1>4, FS_Subset, FS_CardinalityType DEF Carriers
<1>6. InFlight(d) = Len(queue[d]) + Holding(raw_set, d) + Holding(conv_set, d)
                      + Within(d) + Cardinality(Holders[d]) + Cardinality(Carriers(d))
  BY DEF InFlight, Within, Wide, Carriers
<1> QED  BY <1>2, <1>3, <1>4, <1>5, <1>6

\* What a step adds to the pool, the L1 queue, the two sets being worked on and
\* the queue of sets; and to what the flushing threads hold.
Worked(d, pool, queued, drained, converted, within) ==
    /\ free'[d] = free[d] + pool
    /\ Len(queue'[d]) = Len(queue[d]) + queued
    /\ Holding(raw_set', d) = Holding(raw_set, d) + drained
    /\ Holding(conv_set', d) = Holding(conv_set, d) + converted
    /\ Within(d)' = Within(d) + within
Held(d, held, carried) ==
    /\ Cardinality(Holders'[d]) = Cardinality(Holders[d]) + held
    /\ Cardinality(Carriers(d)') = Cardinality(Carriers(d)) + carried

Safe(d) == free[d] + InFlight(d) >= PoolSize

LEMMA Balance ==
    ASSUME TypeOK, NEW d \in Dev, Safe(d),
           NEW pool \in Int, NEW queued \in Int, NEW drained \in Int, NEW converted \in Int,
           NEW within \in Int, NEW held \in Int, NEW carried \in Int,
           Worked(d, pool, queued, drained, converted, within), Held(d, held, carried),
           pool + queued + drained + converted + within + held + carried >= 0
    PROVE  Safe(d)'
<1> DEFINE f == free[d]  q == Len(queue[d])  r == Holding(raw_set, d)  c == Holding(conv_set, d)
           w == Within(d)  h == Cardinality(Holders[d])  k == Cardinality(Carriers(d))
           f2 == free'[d]  q2 == Len(queue'[d])  r2 == Holding(raw_set', d)
           c2 == Holding(conv_set', d)  w2 == Within(d)'  h2 == Cardinality(Holders'[d])
           k2 == Cardinality(Carriers(d)')
<1>1. /\ f \in Nat /\ q \in Nat /\ r \in Nat /\ c \in Nat /\ w \in Nat /\ h \in Nat /\ k \in Nat
      /\ f + (q + r + c + w + h + k) >= PoolSize /\ PoolSize \in Nat
  BY Whereabouts, ConstantsAssumption DEF Holding, Safe
<1>2. /\ f2 = f + pool /\ q2 = q + queued /\ r2 = r + drained /\ c2 = c + converted
      /\ w2 = w + within /\ h2 = h + held /\ k2 = k + carried
  BY DEF Worked, Held
<1>3. InFlight(d)' = q2 + r2 + c2 + w2 + h2 + k2
  BY DEF InFlight, Within, Wide, Carriers
<1>4. f2 + (q2 + r2 + c2 + w2 + h2 + k2) >= PoolSize
  <2> HIDE DEF f, q, r, c, w, h, k, f2, q2, r2, c2, w2, h2, k2
  <2> QED  BY <1>1, <1>2
<1> HIDE DEF q2, r2, c2, w2, h2, k2
<1> QED  BY <1>3, <1>4 DEF Safe

\* A step that leaves a place alone adds nothing to it.
LEMMA Nothing ==
    ASSUME TypeOK, NEW d \in Dev
    PROVE  /\ free[d] + 0 = free[d] /\ Len(queue[d]) + 0 = Len(queue[d])
           /\ Holding(raw_set, d) + 0 = Holding(raw_set, d)
           /\ Holding(conv_set, d) + 0 = Holding(conv_set, d)
           /\ Within(d) + 0 = Within(d)
           /\ Cardinality(Holders[d]) + 0 = Cardinality(Holders[d])
           /\ Cardinality(Carriers(d)) + 0 = Cardinality(Carriers(d))
<1>1. Holding(raw_set, d) \in Nat /\ Holding(conv_set, d) \in Nat
  BY DEF Holding
<1> HIDE DEF If1
<1> QED  BY <1>1, Whereabouts

\* Two finite sets that differ by one element at most.
LEMMA OneElement ==
    ASSUME NEW A, NEW B, NEW x, IsFiniteSet(A), IsFiniteSet(B), A \ {x} = B \ {x}
    PROVE  Cardinality(B) = Cardinality(A) + If1(x \in B) - If1(x \in A)
<1>1. Cardinality(A) \in Nat /\ Cardinality(B) \in Nat
  BY FS_CardinalityType
<1>2. /\ Cardinality(A \ {x}) = IF x \in A THEN Cardinality(A) - 1 ELSE Cardinality(A)
      /\ Cardinality(B \ {x}) = IF x \in B THEN Cardinality(B) - 1 ELSE Cardinality(B)
  BY FS_RemoveElement
<1> QED  BY <1>1, <1>2

LEMMA TakeMoves ==
    ASSUME TypeOK, NEW q \in Queues, Take(q), NEW d \in Dev
    PROVE  /\ Len(queue'[d]) = Len(queue[d]) - If1(q = d)
           /\ Within(d)' = Within(d) - If1(q = Raw /\ d <= Len(Head(queue[Raw])))
           /\ Head(queue[q]) \in Item(q)
<1>1. d \in Queues /\ Raw \in Queues /\ d # Raw
  BY Numbers
<1>2. /\ queue[q] \in Seq(Item(q)) /\ queue[q] # <<>> /\ Len(queue[d]) \in Nat
      /\ queue[Raw] \in Seq(Item(Raw))
  BY <1>1, Contents DEF Take
<1>3. queue'[q] = Tail(queue[q]) /\ \A p \in Queues \ {q} : queue'[p] = queue[p]
  BY DEF Take, TypeOK, QueuesOK
<1>4. Len(queue'[d]) = Len(queue[d]) - If1(q = d)
  <2>1. CASE q = d
    BY <1>2, <2>1, TakeContents
  <2>2. CASE q # d
    BY <1>1, <1>2, <1>3, <2>2
  <2> QED  BY <2>1, <2>2
<1>5. Within(d)' = Within(d) - If1(q = Raw /\ d <= Len(Head(queue[Raw])))
  <2>1. CASE q = Raw
    BY <1>2, <1>3, <2>1, WideTail DEF Within
  <2>2. CASE q # Raw
    BY <1>1, <1>3, <2>2, Whereabouts DEF Within
  <2> QED  BY <2>1, <2>2
<1>6. Head(queue[q]) \in Item(q)
  BY <1>2, HeadTailProperties
<1> QED  BY <1>4, <1>5, <1>6

LEMMA PushMovesIn ==
    ASSUME TypeOK, NEW q \in {Raw, L2}, NEW set \in Set, NEW k \in {0, 1}, k <= Len(queue[q]),
           Pushed(q, k, set), NEW d \in Dev
    PROVE  /\ queue'[d] = queue[d]
           /\ q = L2 => Within(d)' = Within(d)
           /\ q = Raw => Within(d)' = Within(d) - If1(k = 1 /\ d <= Len(Head(queue[Raw])))
                                       + If1(d <= Len(set))
<1>1. d \in Queues /\ Raw \in Queues /\ d # q /\ Raw # L2 /\ q \in Queues /\ Item(q) = Set
  BY Numbers DEF Item
<1>2. queue[q] \in Seq(Set)
  BY <1>1, Contents
<1>3. /\ queue'[q] = Append(IF k = 1 THEN Tail(queue[q]) ELSE queue[q], set)
      /\ \A p \in Queues \ {q} : queue'[p] = queue[p]
  BY <1>1 DEF Pushed, TypeOK, QueuesOK
<1>4. CASE q = L2
  BY <1>1, <1>3, <1>4 DEF Within
<1>5. CASE q = Raw /\ k = 0
  <2>1. /\ queue'[Raw] = Append(queue[Raw], set) /\ queue[Raw] \in Seq(Set)
    BY <1>2, <1>3, <1>5
  <2>2. Within(d)' = Within(d) + If1(d <= Len(set)) /\ Within(d) \in Nat
    BY <2>1, WideAppend, Whereabouts DEF Within
  <2> QED  BY <1>1, <1>3, <1>5, <2>2
<1>6. CASE q = Raw /\ k = 1
  <2>1. queue[Raw] # <<>> /\ queue[Raw] \in Seq(Set) /\ Tail(queue[Raw]) \in Seq(Set)
    <3>1. queue[q] # <<>>
      BY <1>1, <1>6, Contents
    <3> QED  BY <1>2, <1>6, <3>1, HeadTailProperties
  <2>2. queue'[Raw] = Append(Tail(queue[Raw]), set)
    BY <1>3, <1>6
  <2>3. Within(d)' = Cardinality(Wide(Tail(queue[Raw]), d)) + If1(d <= Len(set))
    <3> DEFINE t == Tail(queue[Raw])
    <3>1. t \in Seq(Set)
      BY <2>1
    <3>2. Cardinality(Wide(Append(t, set), d)) = Cardinality(Wide(t, d)) + If1(d <= Len(set))
      <4> HIDE DEF t
      <4> QED  BY <3>1, WideAppend
    <3> QED  BY <2>2, <3>2 DEF Within
  <2>4. Cardinality(Wide(Tail(queue[Raw]), d)) = Within(d) - If1(d <= Len(Head(queue[Raw])))
    BY <2>1, WideTail DEF Within
  <2> QED  BY <1>1, <1>3, <1>6, <2>3, <2>4
<1> QED  BY <1>4, <1>5, <1>6

LEMMA HeldMoves ==
    ASSUME ClearersOK, NEW f \in Clearers, NEW todo, NEW held, FlushState(f, todo, held),
           NEW d \in Dev
    PROVE  /\ Cardinality(Holders'[d]) = Cardinality(Holders[d])
                 + If1(held # None /\ Head(todo) = d)
                 - If1(flush[f].held # None /\ Target(f) = d)
           /\ Cardinality(Carriers(d)') = Cardinality(Carriers(d))
                 + If1(held # None /\ Head(todo) = Raw /\ d <= Len(Head(held)))
                 - If1(flush[f].held # None /\ Target(f) = Raw /\ d <= Len(Head(flush[f].held)))
<1>1. d \in Queues /\ Raw \in Queues
  BY Numbers
<1>2. IsFiniteSet(Clearers)
  BY ConstantsAssumption, FS_AddElement DEF Clearers
<1>3. IsFiniteSet(Holders[d]) /\ IsFiniteSet(Holders'[d])
  BY <1>1, <1>2, FS_Subset DEF Holders
<1>4. IsFiniteSet(Carriers(d)) /\ IsFiniteSet(Carriers(d)')
  BY <1>1, <1>2, FS_Subset DEF Carriers, Holders
<1>5. /\ Holders'[d] \ {f} = Holders[d] \ {f}
      /\ f \in Holders[d] <=> flush[f].held # None /\ Target(f) = d
      /\ f \in Holders'[d] <=> held # None /\ Head(todo) = d
  BY <1>1, HoldersUpdate
<1>6. /\ Holders'[Raw] \ {f} = Holders[Raw] \ {f}
      /\ f \in Holders[Raw] <=> flush[f].held # None /\ Target(f) = Raw
      /\ f \in Holders'[Raw] <=> held # None /\ Head(todo) = Raw
  BY <1>1, HoldersUpdate
<1>7. /\ flush'[f].held = held /\ \A g \in Clearers \ {f} : flush'[g] = flush[g]
  BY DEF FlushState, ClearersOK
<1>8. Holders[Raw] \subseteq Clearers /\ Holders'[Raw] \subseteq Clearers
  BY <1>1 DEF Holders
<1>9. Carriers(d)' = {g \in Holders'[Raw] : d <= Len(Head(flush'[g].held))}
  BY DEF Carriers
<1>10. Carriers(d)' \ {f} = Carriers(d) \ {f}
  BY <1>6, <1>7, <1>8, <1>9 DEF Carriers
<1>11. /\ f \in Carriers(d) <=> /\ flush[f].held # None /\ Target(f) = Raw
                                /\ d <= Len(Head(flush[f].held))
       /\ f \in Carriers(d)' <=> held # None /\ Head(todo) = Raw /\ d <= Len(Head(held))
  BY <1>6, <1>7, <1>9 DEF Carriers
<1>12. Cardinality(Holders'[d]) = Cardinality(Holders[d]) + If1(f \in Holders'[d]) - If1(f \in Holders[d])
  BY <1>3, <1>5, OneElement
<1>13. Cardinality(Carriers(d)') = Cardinality(Carriers(d)) + If1(f \in Carriers(d)') - If1(f \in Carriers(d))
  BY <1>4, <1>10, OneElement
<1> QED  BY <1>5, <1>11, <1>12, <1>13

\* A step that leaves the flushing threads alone leaves what they hold.
LEMMA HeldStays ==
    ASSUME UNCHANGED flush, NEW d
    PROVE  /\ Cardinality(Holders'[d]) = Cardinality(Holders[d])
           /\ Cardinality(Carriers(d)') = Cardinality(Carriers(d))
<1>1. Holders'[d] = Holders[d] /\ Carriers(d)' = Carriers(d)
  BY DEF Holders, Target, Carriers
<1> QED  BY <1>1

\* A step that leaves the flushing threads alone.
LEMMA WorkedBalance ==
    ASSUME TypeOK, NEW d \in Dev, Safe(d), UNCHANGED flush,
           NEW pool \in Int, NEW queued \in Int, NEW drained \in Int, NEW converted \in Int,
           NEW within \in Int,
           Worked(d, pool, queued, drained, converted, within),
           pool + queued + drained + converted + within >= 0
    PROVE  Safe(d)'
<1>1. Held(d, 0, 0)
  BY Nothing, HeldStays, Zenon DEF Held
<1>2. pool + queued + drained + converted + within + 0 + 0 >= 0
  OBVIOUS
<1> QED  BY <1>1, <1>2, Balance

LEMMA Steady ==
    ASSUME TypeOK, NEW d \in Dev, Safe(d), UNCHANGED <<raw_set, conv_set, flush>>,
           free'[d] = free[d], Len(queue'[d]) = Len(queue[d]), Within(d)' = Within(d)
    PROVE  Safe(d)'
<1>1. Worked(d, 0, 0, 0, 0, 0)
  BY Nothing, Zenon DEF Worked
<1>2. 0 \in Int /\ 0 + 0 + 0 + 0 + 0 >= 0
  OBVIOUS
<1> QED  BY <1>1, <1>2, WorkedBalance, Zenon

LEMMA CallbackSafe ==
    ASSUME TypeOK, NEW c \in Dev, Callback(c) \/ CallbackCount(c), NEW d \in Dev, Safe(d)
    PROVE  Safe(d)'
<1>1. UNCHANGED <<raw_set, conv_set, flush>>
  BY DEF Callback, CallbackCount, drainVars, convVars, flushVars
<1>2. CASE CallbackCount(c) \/ (Callback(c) /\ CallbackDrop(c))
  BY <1>2, <1>1, Steady DEF CallbackCount, CallbackDrop, Within
<1>3. CASE Callback(c) /\ CallbackEnqueue(c)
  <2>1. free' = [free EXCEPT ![c] = @ - 1] /\ Put(c, tick[c])
    BY <1>3 DEF CallbackEnqueue
  <2>2. c \in Queues /\ Item(c) = Block /\ d \in Queues /\ Raw \in Queues /\ Raw # c
    BY Numbers DEF Item
  <2>3. /\ \A q \in Queues \ {c} : queue'[q] = queue[q]
        /\ Len(queue'[c]) = Len(queue[c]) + 1
    <3>1. queue' = [queue EXCEPT ![c] = Append(@, tick[c])] /\ queue = [q \in Queues |-> queue[q]]
      BY <2>1 DEF Put, TypeOK, QueuesOK
    <3>2. queue[c] \in Seq(Nat) /\ tick[c] \in Nat
      <4>1. Block \subseteq Nat /\ LastBlock \in Nat
        BY RunsAreBlocks, ConstantsAssumption DEF Block
      <4>2. queue[c] \in Seq(Block)
        BY <2>2, Contents
      <4>3. tick[c] \in 1..LastBlock + 1
        BY DEF TypeOK
      <4>4. queue[c] \in Seq(Nat)
        BY <4>1, <4>2, SeqMonotonic
      <4> QED  BY <4>1, <4>3, <4>4
    <3>3. Len(Append(queue[c], tick[c])) = Len(queue[c]) + 1
      BY <3>2, AppendProperties
    <3> QED  BY <2>2, <3>1, <3>3
  <2>4. Within(d)' = Within(d)
    BY <2>2, <2>3 DEF Within
  <2>5. CASE d = c
    <3>1. Len(queue'[d]) = Len(queue[d]) + 1 /\ free'[d] = free[d] + (-1)
      BY <2>1, <2>3, <2>5, Whereabouts DEF TypeOK
    <3>2. Worked(d, -1, 1, 0, 0, 0)
      BY <1>1, <2>4, <3>1, Nothing, Zenon DEF Worked
    <3> QED  BY <1>1, <3>2, WorkedBalance
  <2>6. CASE d # c
    BY <2>1, <2>2, <2>3, <2>6, <1>1, <2>4, Steady DEF TypeOK
  <2> QED  BY <2>5, <2>6
<1> QED  BY <1>2, <1>3 DEF Callback

\* A set given up or passed on goes back to the pools as a whole.
LEMMA GiveUpSafe ==
    ASSUME TypeOK, Len(raw_set) <= active, NEW pc, GiveUp(pc), UNCHANGED <<conv_set, flush, queue>>,
           NEW d \in Dev, Safe(d)
    PROVE  Safe(d)'
<1>1. raw_set' = <<>> /\ free'[d] = (IF d <= active THEN free[d] + 1 ELSE free[d])
  BY DEF GiveUp, Recycled
<1>2. Len(raw_set) \in Nat /\ active \in Nat /\ d \in Nat /\ d >= 1
  BY Numbers, ConstantsAssumption, SetLength DEF TypeOK
<1> DEFINE a == If1(d <= active)  r == If1(d <= Len(raw_set))
<1>3. Worked(d, a, 0, -r, 0, 0)
  <2>1. free'[d] = free[d] + a
    BY <1>1, Whereabouts
  <2>2. Holding(raw_set', d) = Holding(raw_set, d) + (-r)
    BY <1>1, <1>2 DEF Holding
  <2>3. Within(d)' = Within(d)
    BY DEF Within
  <2> HIDE DEF a, r
  <2> QED  BY <2>1, <2>2, <2>3, Nothing, Zenon DEF Worked
<1>4. a \in {0, 1} /\ r \in {0, 1} /\ a >= r
  BY <1>2
<1> HIDE DEF a, r
<1> QED  BY <1>3, <1>4, WorkedBalance

LEMMA DrainSafe ==
    ASSUME IInv, Drain, NEW d \in Dev, Safe(d)
    PROVE  Safe(d)'
<1>1. UNCHANGED <<conv_set, flush>>
  BY DEF Drain, convVars, flushVars
<1>2. /\ TypeOK /\ raw_set \in {None} \cup Set /\ active \in Nat /\ Len(raw_set) \in Nat
      /\ d \in Nat /\ Raw \in Queues /\ d # Raw
  BY Shapes, Numbers, SetLength
<1>3. ASSUME UNCHANGED <<raw_set, queue, free>> PROVE Safe(d)'
  BY <1>1, <1>2, <1>3, Steady DEF Within
<1>4. CASE DrainBegin \/ DrainCountOut \/ DrainCount
  BY <1>3, <1>4 DEF DrainBegin, DrainCountOut, DrainCount
<1>5. CASE DrainTimeout
  BY <1>2, <1>5, <1>1, <1>3, GiveUpSafe DEF DrainTimeout, IInv, Places
<1>6. CASE DrainQuit
  BY <1>2, <1>6, <1>1, GiveUpSafe DEF DrainQuit, IInv, Places
<1>7. CASE DrainCheck
  BY <1>2, <1>7, <1>1, <1>3, GiveUpSafe DEF DrainCheck, IInv, Places
<1>8. CASE DrainTake
  <2>1. /\ Take(Waiting) /\ raw_set' = Append(raw_set, Head(queue[Waiting])) /\ free' = free
        /\ Len(raw_set) < active
    BY <1>8 DEF DrainTake, IInv, Places
  <2>2. Waiting \in Queues /\ Waiting # Raw
    BY <1>2, <2>1, Shapes, Numbers DEF Waiting
  <2>3. Len(raw_set') = Len(raw_set) + 1
    BY <1>2, <2>1, <2>2, TakeMoves, Shapes, Numbers, SetGrows DEF Waiting, Item
  <2> DEFINE k == If1(Waiting = d)
  <2>4. Len(queue'[d]) = Len(queue[d]) + (-k) /\ Within(d)' = Within(d)
    BY <1>2, <2>1, <2>2, TakeMoves, TakeContents, Whereabouts DEF Within
  <2>5. Holding(raw_set', d) = Holding(raw_set, d) + k
    BY <1>2, <2>3 DEF Holding, Waiting
  <2>7. k \in {0, 1}
    OBVIOUS
  <2> HIDE DEF k
  <2>8. Worked(d, 0, -k, k, 0, 0)
    BY <1>1, <1>2, <2>1, <2>4, <2>5, Nothing, Zenon DEF Worked
  <2>9. -k \in Int /\ k \in Int /\ 0 \in Int /\ 0 + (-k) + k + 0 + 0 >= 0
    BY <2>7
  <2> QED  BY <1>1, <1>2, <2>8, <2>9, WorkedBalance, Zenon
<1>9. CASE DrainPush
  <2>1. /\ PushDropOldest(Raw, l2_raw_cap, raw_set) /\ raw_set' = None /\ raw_set \in Set
        /\ free' = IF MustDrop(Raw, l2_raw_cap) THEN Recycled(Len(Head(queue[Raw]))) ELSE free
    BY <1>9, Shapes, Numbers, <1>2 DEF DrainPush, IInv, Places, NewSet
  <2>2. PICK k \in {0, 1} :
           /\ k <= Len(queue[Raw]) /\ (k = 1 <=> MustDrop(Raw, l2_raw_cap))
           /\ Pushed(Raw, k, raw_set)
    BY <1>2, <2>1, Pushes
  <2> DEFINE a == If1(k = 1 /\ d <= Len(Head(queue[Raw])))  r == If1(d <= Len(raw_set))
  <2>3. free'[d] = free[d] + a
    BY <1>2, <2>1, <2>2, Whereabouts DEF Recycled
  <2>4. Within(d)' = Within(d) - a + r /\ Len(queue'[d]) = Len(queue[d])
    BY <1>2, <2>1, <2>2, PushMovesIn
  <2>5. Holding(raw_set', d) = Holding(raw_set, d) + (-r)
    BY <1>2, <2>1, Numbers DEF Holding
  <2>6. a \in {0, 1} /\ r \in {0, 1} /\ Within(d) \in Nat
    BY <1>2, Whereabouts
  <2> HIDE DEF a, r
  <2>7. Within(d)' = Within(d) + (r - a)
    BY <2>4, <2>6
  <2>8. Worked(d, a, 0, -r, 0, r - a)
    BY <1>1, <1>2, <2>3, <2>4, <2>5, <2>7, Nothing, Zenon DEF Worked
  <2>9. /\ a \in Int /\ -r \in Int /\ r - a \in Int /\ 0 \in Int
        /\ a + 0 + (-r) + 0 + (r - a) >= 0
    BY <2>6
  <2> QED  BY <1>1, <1>2, <2>8, <2>9, WorkedBalance, Zenon
<1> QED  BY <1>4, <1>5, <1>6, <1>7, <1>8, <1>9 DEF Drain

LEMMA ConvSafe ==
    ASSUME IInv, Conv, NEW d \in Dev, Safe(d)
    PROVE  Safe(d)'
<1>1. UNCHANGED <<raw_set, flush>>
  BY DEF Conv, drainVars, flushVars
<1>2. /\ TypeOK /\ conv_set \in {None} \cup Set /\ Len(conv_set) \in Nat
      /\ d \in Nat /\ d >= 1 /\ Raw \in Queues /\ L2 \in Queues /\ d # Raw /\ d # L2 /\ Raw # L2
  BY Shapes, Numbers, SetLength
<1>3. CASE ConvTimeout \/ ConvBroadcast
  BY <1>3, <1>1, <1>2, Steady DEF ConvTimeout, ConvBroadcast, Within
<1>4. CASE ConvTake
  <2> DEFINE k == If1(d <= Len(Head(queue[Raw])))
  <2>1. /\ Take(Raw) /\ conv_set' = Head(queue[Raw]) /\ free' = free /\ conv_set = None
    BY <1>4 DEF ConvTake, IInv, Places
  <2>2. Len(queue'[d]) = Len(queue[d]) - 0 /\ Within(d)' = Within(d) - k
    BY <1>2, <2>1, TakeMoves
  <2>3. Len(queue'[d]) = Len(queue[d]) /\ Within(d)' = Within(d) + (-k)
    BY <1>2, <2>2, Whereabouts
  <2>4. Holding(conv_set', d) = Holding(conv_set, d) + k
    BY <1>2, <2>1 DEF Holding
  <2>5. k \in {0, 1}
    OBVIOUS
  <2> HIDE DEF k
  <2>6. Worked(d, 0, 0, 0, k, -k)
    BY <1>1, <1>2, <2>1, <2>3, <2>4, Nothing, Zenon DEF Worked
  <2>7. -k \in Int /\ k \in Int /\ 0 \in Int /\ 0 + 0 + 0 + k + (-k) >= 0
    BY <2>5
  <2> QED  BY <1>1, <1>2, <2>6, <2>7, WorkedBalance, Zenon
<1>5. CASE ConvQuit \/ ConvCount
  <2> DEFINE k == If1(d <= Len(conv_set))
  <2>1. conv_set' = None /\ free' = Recycled(Len(conv_set)) /\ queue' = queue
    BY <1>5 DEF ConvQuit, ConvCount
  <2>2. free'[d] = free[d] + k
    BY <1>2, <2>1, Whereabouts DEF Recycled
  <2>3. Holding(conv_set', d) = Holding(conv_set, d) + (-k)
    BY <1>2, <2>1 DEF Holding
  <2>4. Within(d)' = Within(d)
    BY <2>1 DEF Within
  <2>5. k \in {0, 1}
    OBVIOUS
  <2> HIDE DEF k
  <2>6. Worked(d, k, 0, 0, -k, 0)
    BY <1>1, <1>2, <2>1, <2>2, <2>3, <2>4, Nothing, Zenon DEF Worked
  <2>7. -k \in Int /\ k \in Int /\ 0 \in Int /\ k + 0 + 0 + (-k) + 0 >= 0
    BY <2>5
  <2> QED  BY <1>1, <1>2, <2>6, <2>7, WorkedBalance, Zenon
<1>6. CASE ConvPush
  <2>1. /\ PushDropOldest(L2, L2Max, conv_set) /\ UNCHANGED <<conv_set, free>> /\ conv_set \in Set
    <3>1. conv_set # None
      BY <1>6, Zenon DEF ConvPush, IInv, Places
    <3> QED  BY <1>2, <1>6, <3>1 DEF ConvPush
  <2>2. PICK k \in {0, 1} : k <= Len(queue[L2]) /\ Pushed(L2, k, conv_set)
    BY <1>2, <2>1, Pushes
  <2>3. Within(d)' = Within(d) /\ queue'[d] = queue[d]
    BY <1>2, <2>1, <2>2, PushMovesIn
  <2> QED  BY <1>1, <1>2, <2>1, <2>3, Steady
<1> QED  BY <1>3, <1>4, <1>5, <1>6 DEF Conv

LEMMA CorrSafe ==
    ASSUME IInv, Corr, NEW d \in Dev, Safe(d)
    PROVE  Safe(d)'
<1>1. TypeOK /\ L2 \in Queues /\ L2 # d /\ L2 # Raw
  BY Numbers DEF IInv
<1>2. UNCHANGED <<free, raw_set, conv_set, flush>>
  BY DEF Corr, drainVars, convVars, flushVars
<1>3. CASE CorrTake
  <2>1. Len(queue'[d]) = Len(queue[d]) - 0 /\ Within(d)' = Within(d) - 0
    BY <1>1, <1>3, TakeMoves DEF CorrTake
  <2>2. Len(queue'[d]) = Len(queue[d]) /\ Within(d)' = Within(d)
    BY <1>1, <2>1, Whereabouts
  <2> QED  BY <1>1, <1>2, <2>2, Steady
<1>4. CASE CorrCountOut
  BY <1>4, <1>1, <1>2, Steady DEF CorrCountOut, Within
<1> QED  BY <1>3, <1>4 DEF Corr

\* A step of a flushing thread that leaves the threads' sets alone.
LEMMA FlushBalance ==
    ASSUME TypeOK, NEW d \in Dev, Safe(d), UNCHANGED <<raw_set, conv_set>>,
           NEW pool \in Int, NEW queued \in Int, NEW within \in Int,
           NEW held \in Int, NEW carried \in Int,
           free'[d] = free[d] + pool, Len(queue'[d]) = Len(queue[d]) + queued,
           Within(d)' = Within(d) + within, Held(d, held, carried),
           pool + queued + within + held + carried >= 0
    PROVE  Safe(d)'
<1>1. Worked(d, pool, queued, 0, 0, within)
  BY Nothing, Zenon DEF Worked
<1>2. 0 \in Int /\ pool + queued + 0 + 0 + within + held + carried >= 0
  OBVIOUS
<1> QED  BY <1>1, <1>2, Balance, Zenon

\* A clearer starts or goes on to the next queue with empty hands.
LEMMA EmptyHanded ==
    ASSUME TypeOK, NEW f \in Clearers, flush[f].held = None, NEW todo, FlushState(f, todo, None),
           UNCHANGED <<free, queue, raw_set, conv_set>>, NEW d \in Dev, Safe(d)
    PROVE  Safe(d)'
<1>1. /\ Cardinality(Holders'[d]) = Cardinality(Holders[d]) + 0 - 0
      /\ Cardinality(Carriers(d)') = Cardinality(Carriers(d)) + 0 - 0
  BY HeldMoves DEF TypeOK
<1>2. Held(d, 0, 0)
  BY <1>1, Whereabouts DEF Held
<1>3. Worked(d, 0, 0, 0, 0, 0)
  <2>1. Within(d)' = Within(d)
    BY DEF Within
  <2> QED  BY <2>1, Nothing, Zenon DEF Worked
<1>4. 0 \in Int /\ 0 + 0 + 0 + 0 + 0 + 0 + 0 >= 0
  OBVIOUS
<1> QED  BY <1>2, <1>3, <1>4, Balance, Zenon

LEMMA FlushSafe ==
    ASSUME IInv, NEW f \in Clearers, Flush(f), NEW d \in Dev, Safe(d)
    PROVE  Safe(d)'
<1> DEFINE t == Target(f)
<1>1. UNCHANGED <<raw_set, conv_set>> /\ flush[f].todo # <<>>
  BY DEF Flush, drainVars, convVars
<1>2. TypeOK /\ ClearersOK /\ Raw \in Queues /\ d # Raw /\ Raw \notin Dev
  BY Numbers DEF IInv, TypeOK
<1>3. t \in Queues /\ t = Head(flush[f].todo)
  BY <1>1, <1>2, HeadTailProperties DEF Target, ClearersOK
<1> HIDE DEF t
<1>4. CASE FlushNext(f)
  BY <1>1, <1>2, <1>4, EmptyHanded DEF FlushNext
<1>5. CASE FlushTake(f)
  <2> DEFINE a == If1(t = d)  b == If1(t = Raw /\ d <= Len(Head(queue[Raw])))
             item == <<Head(queue[t])>>
  <2>1. /\ flush[f].held = None /\ Take(t) /\ free' = free
        /\ FlushState(f, flush[f].todo, item)
    BY <1>5 DEF FlushTake, t
  <2>2. Len(queue'[d]) = Len(queue[d]) - a /\ Within(d)' = Within(d) - b
    BY <1>2, <1>3, <2>1, TakeMoves
  <2>3. item # None /\ (t = Raw => Head(item) = Head(queue[Raw]))
    OBVIOUS
  <2>4. /\ Cardinality(Holders'[d]) = Cardinality(Holders[d]) + a - 0
        /\ Cardinality(Carriers(d)') = Cardinality(Carriers(d)) + b - 0
    <3> HIDE DEF item
    <3> QED  BY <1>2, <1>3, <2>1, <2>3, HeldMoves
  <2>5. a \in {0, 1} /\ b \in {0, 1}
    OBVIOUS
  <2> HIDE DEF a, b
  <2>6. Held(d, a, b)
    BY <1>2, <2>4, <2>5, Whereabouts DEF Held
  <2>7. /\ free'[d] = free[d] + 0 /\ Len(queue'[d]) = Len(queue[d]) + (-a)
        /\ Within(d)' = Within(d) + (-b)
    <3>1. free'[d] = free[d] + 0
      BY <1>2, <2>1, Nothing, Zenon
    <3>2. Len(queue[d]) \in Nat /\ Within(d) \in Nat
      BY <1>2, Whereabouts
    <3> QED  BY <2>2, <2>5, <3>1, <3>2
  <2>8. /\ 0 \in Int /\ a \in Int /\ b \in Int /\ -a \in Int /\ -b \in Int
        /\ 0 + (-a) + (-b) + a + b >= 0
    BY <2>5
  <2> QED  BY <1>1, <1>2, <2>6, <2>7, <2>8, FlushBalance, Zenon
<1>6. CASE FlushCountOut(f)
  <2> DEFINE a == If1(t = d)  b == If1(t = Raw /\ d <= Len(Head(flush[f].held)))
  <2>1. /\ flush[f].held # None /\ queue' = queue
        /\ FlushState(f, flush[f].todo, None)
        /\ free' = IF t \in Dev THEN [free EXCEPT ![t] = @ + 1]
                   ELSE IF t = Raw THEN Recycled(Len(Head(flush[f].held)))
                   ELSE free
    BY <1>6 DEF FlushCountOut, t
  <2>2. /\ Cardinality(Holders'[d]) = Cardinality(Holders[d]) + 0 - a
        /\ Cardinality(Carriers(d)') = Cardinality(Carriers(d)) + 0 - b
    BY <1>2, <1>3, <2>1, HeldMoves DEF Target
  <2>3. free'[d] = free[d] + (a + b)
    <3>1. CASE t \in Dev
      <4>1. free' = [free EXCEPT ![t] = @ + 1] /\ b = 0
        BY <1>2, <2>1, <3>1
      <4> QED  BY <1>2, <3>1, <4>1, Whereabouts DEF TypeOK
    <3>2. CASE t = Raw
      BY <1>2, <2>1, <3>2, Whereabouts DEF Recycled
    <3>3. CASE t \notin Dev /\ t # Raw
      BY <1>2, <2>1, <3>3, Whereabouts
    <3> QED  BY <3>1, <3>2, <3>3
  <2>4. a \in {0, 1} /\ b \in {0, 1}
    OBVIOUS
  <2> HIDE DEF a, b
  <2>5. Held(d, -a, -b)
    BY <1>2, <2>2, <2>4, Whereabouts DEF Held
  <2>6. Len(queue'[d]) = Len(queue[d]) + 0 /\ Within(d)' = Within(d) + 0
    BY <1>2, <2>1, Nothing, Zenon DEF Within
  <2>7. /\ 0 \in Int /\ a + b \in Int /\ -a \in Int /\ -b \in Int
        /\ (a + b) + 0 + 0 + (-a) + (-b) >= 0
    BY <2>4
  <2> QED  BY <1>1, <1>2, <2>3, <2>5, <2>6, <2>7, FlushBalance, Zenon
<1> QED  BY <1>4, <1>5, <1>6 DEF Flush

LEMMA NextSafe == IInv /\ NoBufferLost /\ [Next]_vars => NoBufferLost'
<1> SUFFICES ASSUME IInv, NoBufferLost, [Next]_vars, NEW d \in Dev PROVE Safe(d)'
  BY DEF NoBufferLost, Safe
<1>1. TypeOK /\ Safe(d)
  BY DEF IInv, NoBufferLost, Safe
<1>2. ASSUME NEW c \in Dev, Callback(c) \/ CallbackCount(c) PROVE Safe(d)'
  BY <1>1, <1>2, CallbackSafe
<1>3. CASE Drain
  BY <1>1, <1>3, DrainSafe
<1>4. CASE Conv
  BY <1>1, <1>4, ConvSafe
<1>5. CASE Corr
  BY <1>1, <1>5, CorrSafe
<1>6. ASSUME NEW f \in Flushers, BeginFlush(f) PROVE Safe(d)'
  <2>1. flush[f].held = None /\ UNCHANGED <<free, queue, raw_set, conv_set>> /\ f \in Clearers
    BY <1>6 DEF BeginFlush, drainVars, convVars, Resting, Clearers
  <2>2. \E todo : FlushState(f, todo, None)
    BY <1>6 DEF BeginFlush, BeginClearL1, BeginClearL2, Start
  <2> QED  BY <1>1, <2>1, <2>2, EmptyHanded
<1>7. ASSUME NEW f \in Clearers, Flush(f) PROVE Safe(d)'
  BY <1>1, <1>7, FlushSafe
<1>8. ASSUME UNCHANGED <<free, queue, raw_set, conv_set, flush>> PROVE Safe(d)'
  BY <1>1, <1>8, Steady DEF Within
<1>9. CASE SetRawCap \/ UNCHANGED vars
  BY <1>8, <1>9 DEF SetRawCap, vars, drainVars, convVars, flushVars
<1>10. CASE ControlFrame /\ Joined
  BY <1>10, <1>1, EmptyHanded DEF Joined, ControlFrame, Start, Clearers, IInv, Places, Resting
<1>11. CASE ControlFrame /\ (\/ StopPipeline \/ CancelReaders \/ StartPipeline
                             \/ ForgetLoss \/ OpenFails)
  BY <1>11, <1>8 DEF ControlFrame, StopPipeline, CancelReaders, StartPipeline, ForgetLoss, OpenFails
<1> QED  BY <1>2, <1>3, <1>4, <1>5, <1>6, <1>7, <1>9, <1>10, <1>11 DEF Next, Reconfigure

LEMMA InitSafe == Init => NoBufferLost
<1> SUFFICES ASSUME Init, NEW d \in Dev PROVE free[d] + InFlight(d) >= PoolSize
  BY DEF NoBufferLost
<1>1. TypeOK /\ free[d] = PoolSize /\ PoolSize \in Nat
  BY InitIInv, ConstantsAssumption DEF IInv, Init
<1>2. InFlight(d) \in Nat
  <2>1. Holding(raw_set, d) \in Nat /\ Holding(conv_set, d) \in Nat
    BY DEF Holding
  <2> DEFINE q == Len(queue[d])  r == Holding(raw_set, d)  c == Holding(conv_set, d)
             w == Within(d)  h == Cardinality(Holders[d])  k == Cardinality(Carriers(d))
  <2>2. /\ q \in Nat /\ r \in Nat /\ c \in Nat /\ w \in Nat /\ h \in Nat /\ k \in Nat
        /\ InFlight(d) = q + r + c + w + h + k
    BY <1>1, <2>1, Whereabouts
  <2> HIDE DEF q, r, c, w, h, k
  <2> QED  BY <2>2
<1> HIDE DEF If1
<1> QED  BY <1>1, <1>2

\* No path of any thread loses a buffer of a sample pool, whatever it gives up,
\* drops, flushes or leaves when it exits: a buffer is in the pool or in flight.
THEOREM BuffersKept == Spec => []NoBufferLost
<1> QED  BY InitIInv, InitSafe, NextIInv, NextSafe, PTL DEF Spec

=============================================================================
