--------------------------- MODULE IngestPipeline ---------------------------
(***************************************************************************)
(* The sample path of heimdall_v2 (src/heimdall_v2/src/sdr):               *)
(*                                                                         *)
(*   RTL-SDR reader threads --> L1 (one queue per device)                  *)
(*     --> sample drain --> L2-raw (sets of one block per active device)   *)
(*     --> conversion worker --> TCP streamers, and L2                     *)
(*     --> correlation thread                                              *)
(*                                                                         *)
(* with the threads that flush these queues (coherence watchdog, scanner,  *)
(* command handlers) and the control thread that stops and restarts the    *)
(* pipeline with another number of active elements.                        *)
(*                                                                         *)
(* A sample block is the number of its sampling period: blocks of one      *)
(* number were captured together, and a set of them is aligned.  Numbers   *)
(* go on over a restart of the devices.                                    *)
(*                                                                         *)
(* Each queue has an atomic size_t next to it, changed by a fetch_add after*)
(* the enqueue and a fetch_sub after the dequeue: steps of their own, with *)
(* other threads running in between.  Here it is an integer; a negative    *)
(* value stands for the wrapped size_t (see Full).                         *)
(***************************************************************************)
EXTENDS Integers, Sequences, FiniteSets

CONSTANTS
    NumDevices,      \* devices (NUM_DEVICES)
    ActiveCounts,    \* values of num_elements
    L1Max,           \* SDRDevice::MAX_BUFFER_SIZE
    L2RawMax,        \* L2_RAW_MAX
    L2RawCalMax,     \* L2_RAW_CAL_MAX
    L2Max,           \* BUFFER_SIZE
    PoolSize,        \* buffers of SDRDevice::sample_pool
    StuckMax,        \* STUCK_DEVICE_MAX_TIMEOUTS
    Flushers,        \* threads that flush queues while the pipeline runs
    Control,         \* the thread that runs reconfigure_num_elements
    MaxTick,         \* bound: blocks a device captures in a run
    MaxFlushes,      \* bound: flushes begun by Flushers
    MaxRestarts      \* bound: stops of a running pipeline

ASSUME ConstantsAssumption ==
    /\ NumDevices \in Nat \ {0}
    /\ ActiveCounts \subseteq 1..NumDevices
    /\ L1Max \in Nat \ {0}
    /\ L2RawMax \in Nat \ {0}
    /\ L2RawCalMax \in 1..L2RawMax
    /\ L2Max \in Nat \ {0}
    /\ PoolSize \in Nat
    /\ StuckMax \in Nat \ {0}
    /\ IsFiniteSet(Flushers)
    /\ Control \notin Flushers
    /\ MaxTick \in Nat
    /\ MaxFlushes \in Nat
    /\ MaxRestarts \in Nat

Dev == 1..NumDevices
\* The L1 queue of device d is queue d.
Raw == NumDevices + 1
L2 == NumDevices + 2
Queues == 1..L2
Clearers == Flushers \cup {Control}

VARIABLES
    tick,              \* next block each device captures
    cb,                \* each callback: "idle", or "enqueued" and not counted yet
    free,              \* buffers in each device's sample_pool
    queue, size,       \* the queues and their counters
    l2_raw_cap,
    drain, raw_set, gen_at_start, timeouts,   \* sample_processor
    conv, conv_set, broadcast,                \* conversion_worker
    corr,                                     \* correlation_processor
    flush,             \* queues each clearer has yet to empty, item it holds
    flush_generation, flushes,
    ctl, pipeline_running, streaming, active, restarts,
    coherence_lost,
    \* history
    leaked,            \* dequeues of each queue that are never counted out
    lossy, flushed     \* a loss signalled / L1 flushed since the last start

devVars   == <<tick, cb>>
drainVars == <<drain, raw_set, gen_at_start, timeouts>>
convVars  == <<conv, conv_set, broadcast>>
flushVars == <<flush, flush_generation, flushes, flushed>>
ctlVars   == <<ctl, pipeline_running, streaming, active, restarts>>
lossVars  == <<coherence_lost, lossy>>
vars == <<devVars, free, queue, size, l2_raw_cap, drainVars, convVars, corr,
          flushVars, ctlVars, lossVars, leaked>>

-----------------------------------------------------------------------------
(* Operations shared by the threads. *)

None == <<>>

\* Slip: a queue may exceed its cap by one.
Full_OffByOne(n, cap) == n < 0 \/ n > cap
\* size >= cap on size_t: a counter below zero has wrapped to a huge value.
Full(n, cap) == n < 0 \/ n >= cap

\* Slip: the new item goes to the head.
Put_Head(q, item) == queue' = [queue EXCEPT ![q] = <<item>> \o @]
Put(q, item) == queue' = [queue EXCEPT ![q] = Append(@, item)]
Take(q) == queue[q] # <<>> /\ queue' = [queue EXCEPT ![q] = Tail(@)]
CountIn(q) == size' = [size EXCEPT ![q] = @ + 1]
CountOut(q) == size' = [size EXCEPT ![q] = @ - 1]

\* A bounded stage whose consumer is behind drops its oldest set, if any.
MustDrop(q, cap) == Full(size[q], cap) /\ queue[q] # <<>>

\* Slip: the dropped set is not counted out.
PushDropOldest_Uncounted(q, cap, set) ==
    /\ queue' = [queue EXCEPT ![q] = Append(IF MustDrop(q, cap) THEN Tail(@) ELSE @, set)]
    /\ UNCHANGED size

\* The push of a set into L2-raw or L2.  The fetch_sub for the dropped set is
\* in the step: the thread that pushes is the only one to read the counter.
PushDropOldest(q, cap, set) ==
    IF MustDrop(q, cap)
    THEN /\ queue' = [queue EXCEPT ![q] = Append(Tail(@), set)]
         /\ CountOut(q)
    ELSE Put(q, set) /\ UNCHANGED size

\* Slip: the last buffer of a set is not returned.
Recycled_NotTheLast(n) == [d \in Dev |-> IF d < n THEN free[d] + 1 ELSE free[d]]
\* recycle_raw_set on a set of n channels.  The set was resized to the element
\* count when the drain acquired it: a device not collected yet gets an (empty)
\* buffer as well.
Recycled(n) == [d \in Dev |-> IF d <= n THEN free[d] + 1 ELSE free[d]]

SignalCoherenceLost == coherence_lost' = TRUE /\ lossy' = TRUE

\* The last block of the run after r restarts.
LastOfRun(r) == (r + 1) * MaxTick

Resting == [todo |-> <<>>, held |-> None]

Init ==
    /\ tick = [d \in Dev |-> 1]
    /\ cb = [d \in Dev |-> "idle"]
    /\ free = [d \in Dev |-> PoolSize]
    /\ queue = [q \in Queues |-> <<>>]
    /\ size = [q \in Queues |-> 0]
    /\ l2_raw_cap = L2RawCalMax
    /\ drain = "begin" /\ raw_set = None /\ gen_at_start = 0 /\ timeouts = 0
    /\ conv = "wait" /\ conv_set = None /\ broadcast = None
    /\ corr = "wait"
    /\ flush = [f \in Clearers |-> Resting] /\ flush_generation = 0 /\ flushes = 0
    /\ ctl = "up" /\ pipeline_running = TRUE /\ streaming = TRUE
    /\ active \in ActiveCounts /\ restarts = 0
    /\ coherence_lost = FALSE
    /\ leaked = [q \in Queues |-> 0]
    /\ lossy = FALSE /\ flushed = FALSE

-----------------------------------------------------------------------------
(* rtlsdr_callback of device d, once per sampling period. *)

HasRoom(d) == ~Full(size[d], L1Max) /\ free[d] > 0

\* Slip: the block is dropped and nobody told.
SignalDrop_Silent == UNCHANGED lossVars
SignalDrop == SignalCoherenceLost

CallbackDrop(d) ==
    /\ ~HasRoom(d)
    /\ SignalDrop
    /\ UNCHANGED <<cb, free, queue>>

CallbackEnqueue(d) ==
    /\ HasRoom(d)
    /\ free' = [free EXCEPT ![d] = @ - 1]
    /\ Put(d, tick[d])
    /\ cb' = [cb EXCEPT ![d] = "enqueued"]
    /\ UNCHANGED lossVars

Callback(d) ==
    /\ streaming /\ d <= active /\ cb[d] = "idle"
    /\ tick[d] <= LastOfRun(restarts)
    /\ tick' = [tick EXCEPT ![d] = @ + 1]
    /\ CallbackDrop(d) \/ CallbackEnqueue(d)
    /\ UNCHANGED <<size, l2_raw_cap, drainVars, convVars, corr, flushVars, ctlVars, leaked>>

CallbackCount(d) ==
    /\ cb[d] = "enqueued"
    /\ cb' = [cb EXCEPT ![d] = "idle"]
    /\ CountIn(d)
    /\ UNCHANGED <<tick, free, queue, l2_raw_cap, drainVars, convVars, corr,
                   flushVars, ctlVars, lossVars, leaked>>

-----------------------------------------------------------------------------
(* sample_processor: begin, (collect, taken) per device, check, push, count. *)

Waiting == Len(raw_set) + 1   \* the device the drain waits for

DrainBegin ==
    /\ drain = "begin"
    /\ drain' = IF pipeline_running THEN "collect" ELSE "exited"
    /\ gen_at_start' = flush_generation
    /\ timeouts' = 0
    /\ UNCHANGED <<raw_set, free, queue, size, lossVars, leaked>>

DrainTake ==
    /\ drain = "collect"
    /\ Take(Waiting)
    /\ raw_set' = Append(raw_set, Head(queue[Waiting]))
    /\ drain' = "taken"
    /\ UNCHANGED <<gen_at_start, timeouts, free, size, lossVars, leaked>>

\* The set is given up, its buffers recycled.
GiveUp(pc) ==
    /\ drain' = pc
    /\ raw_set' = None
    /\ free' = Recycled(active)

StopSeen == ~pipeline_running

\* Slip: the count sticks at its limit, a stall is reported only once.
NextTimeouts_Sticks == IF timeouts <= StuckMax THEN timeouts + 1 ELSE timeouts
NextTimeouts == IF timeouts + 1 >= StuckMax THEN 0 ELSE timeouts + 1

\* wait_dequeue_timed gave up: leave if the pipeline stops; after StuckMax
\* times on one device, signal a loss.
DrainTimeout ==
    /\ drain = "collect"
    /\ queue[Waiting] = <<>>
    /\ \/ /\ StopSeen
          /\ GiveUp("exited")
          /\ UNCHANGED <<timeouts, lossVars>>
       \/ /\ ~StopSeen
          /\ timeouts' = NextTimeouts
          /\ IF timeouts + 1 = StuckMax THEN SignalCoherenceLost ELSE UNCHANGED lossVars
          /\ UNCHANGED <<drain, raw_set, free>>
    /\ UNCHANGED <<gen_at_start, queue, size, leaked>>

\* A block was dequeued but the pipeline stops: the counter keeps the block.
DrainQuit ==
    /\ drain = "taken"
    /\ ~pipeline_running
    /\ leaked' = [leaked EXCEPT ![Len(raw_set)] = @ + 1]
    /\ GiveUp("exited")
    /\ UNCHANGED <<gen_at_start, timeouts, queue, size, lossVars>>

DrainCountOut ==
    /\ drain = "taken"
    /\ pipeline_running
    /\ CountOut(Len(raw_set))
    /\ drain' = IF Len(raw_set) = active THEN "check" ELSE "collect"
    /\ timeouts' = 0
    /\ UNCHANGED <<raw_set, gen_at_start, free, queue, lossVars, leaked>>

\* A set that straddles an L1 flush is discarded.
DrainCheck ==
    /\ drain = "check"
    /\ IF flush_generation # gen_at_start
       THEN GiveUp("begin")
       ELSE drain' = "push" /\ UNCHANGED <<raw_set, free>>
    /\ UNCHANGED <<gen_at_start, timeouts, queue, size, lossVars, leaked>>

\* Slip: the next set is collected into the last one.
NewSet_Reused == UNCHANGED raw_set
NewSet == raw_set' = None

DrainPush ==
    /\ drain = "push"
    /\ PushDropOldest(Raw, l2_raw_cap, raw_set)
    /\ free' = IF MustDrop(Raw, l2_raw_cap) THEN Recycled(Len(Head(queue[Raw]))) ELSE free
    /\ NewSet
    /\ drain' = "count"
    /\ UNCHANGED <<gen_at_start, timeouts, lossVars, leaked>>

DrainCount ==
    /\ drain = "count"
    /\ CountIn(Raw)
    /\ drain' = "begin"
    /\ UNCHANGED <<raw_set, gen_at_start, timeouts, free, queue, lossVars, leaked>>

Drain ==
    /\ \/ DrainBegin \/ DrainTake \/ DrainTimeout \/ DrainQuit
       \/ DrainCountOut \/ DrainCheck \/ DrainPush \/ DrainCount
    /\ UNCHANGED <<devVars, l2_raw_cap, convVars, corr, flushVars, ctlVars>>

-----------------------------------------------------------------------------
(* conversion_worker: wait, taken, push, count. *)

ConvTake ==
    /\ conv = "wait"
    /\ Take(Raw)
    /\ conv_set' = Head(queue[Raw])
    /\ conv' = "taken"
    /\ UNCHANGED <<broadcast, free, size, leaked>>

ConvTimeout ==
    /\ conv = "wait"
    /\ queue[Raw] = <<>>
    /\ conv' = IF pipeline_running THEN "wait" ELSE "exited"
    /\ UNCHANGED <<conv_set, broadcast, free, queue, size, leaked>>

ConvQuit ==
    /\ conv = "taken"
    /\ ~pipeline_running
    /\ conv' = "exited"
    /\ conv_set' = None
    /\ free' = Recycled(Len(conv_set))
    /\ leaked' = [leaked EXCEPT ![Raw] = @ + 1]
    /\ UNCHANGED <<broadcast, queue, size>>

\* Counted out, converted, and sent to the TCP and RTL-TCP streamers.
ConvBroadcast ==
    /\ conv = "taken"
    /\ pipeline_running
    /\ CountOut(Raw)
    /\ broadcast' = conv_set
    /\ conv' = "push"
    /\ UNCHANGED <<conv_set, free, queue, leaked>>

ConvPush ==
    /\ conv = "push"
    /\ PushDropOldest(L2, L2Max, conv_set)
    /\ conv' = "count"
    /\ UNCHANGED <<conv_set, broadcast, free, leaked>>

ConvCount ==
    /\ conv = "count"
    /\ CountIn(L2)
    /\ free' = Recycled(Len(conv_set))
    /\ conv_set' = None
    /\ conv' = IF pipeline_running THEN "wait" ELSE "exited"
    /\ UNCHANGED <<broadcast, queue, leaked>>

Conv ==
    /\ \/ ConvTake \/ ConvTimeout \/ ConvQuit
       \/ ConvBroadcast \/ ConvPush \/ ConvCount
    /\ UNCHANGED <<devVars, l2_raw_cap, drainVars, corr, flushVars, ctlVars, lossVars>>

(* correlation_processor takes one set of L2 after another. *)
CorrTake == corr = "wait" /\ Take(L2) /\ corr' = "taken" /\ UNCHANGED size
CorrCountOut == corr = "taken" /\ CountOut(L2) /\ corr' = "wait" /\ UNCHANGED queue

Corr ==
    /\ CorrTake \/ CorrCountOut
    /\ UNCHANGED <<devVars, free, l2_raw_cap, drainVars, convVars, flushVars,
                   ctlVars, lossVars, leaked>>

-----------------------------------------------------------------------------
(* clear_l1_buffer() and clear_l2_buffer(), one dequeue at a time.  Both     *)
(* empty L2-raw first.                                                       *)

ClearL1 == <<Raw>> \o [d \in Dev |-> d]
ClearL2 == <<Raw, L2>>

FlushesL1(f) == flush[f].todo # <<>> /\ \E i \in DOMAIN flush[f].todo : flush[f].todo[i] \in Dev

FlushState(f, todo, held) == flush' = [flush EXCEPT ![f] = [todo |-> todo, held |-> held]]
Start(f, program) == FlushState(f, program, None)

\* By the watchdog, which takes down the coherence_lost latch first, by a lag
\* reset, or by the discrete scanner.
BeginClearL1(f) ==
    /\ ctl = "up"
    /\ Start(f, ClearL1)
    /\ flushed' = TRUE
    /\ coherence_lost' \in {coherence_lost, FALSE}

\* By the same threads, a settings change, or the phase machine.
BeginClearL2(f) ==
    /\ Start(f, ClearL2)
    /\ UNCHANGED <<flushed, coherence_lost>>

BeginFlush(f) ==
    /\ flush[f] = Resting
    /\ flushes < MaxFlushes
    /\ flushes' = flushes + 1
    /\ BeginClearL1(f) \/ BeginClearL2(f)
    /\ UNCHANGED <<devVars, free, queue, size, l2_raw_cap, drainVars, convVars,
                   corr, flush_generation, ctlVars, lossy, leaked>>

Target(f) == Head(flush[f].todo)

FlushTake(f) ==
    /\ flush[f].held = None
    /\ Take(Target(f))
    /\ FlushState(f, flush[f].todo, <<Head(queue[Target(f)])>>)
    /\ UNCHANGED <<free, size, flush_generation>>

\* Count the item out, and return its buffers to their pools.
FlushCountOut(f) ==
    /\ flush[f].held # None
    /\ CountOut(Target(f))
    /\ free' = IF Target(f) \in Dev THEN [free EXCEPT ![Target(f)] = @ + 1]
               ELSE IF Target(f) = Raw THEN Recycled(Len(Head(flush[f].held)))
               ELSE free
    /\ FlushState(f, flush[f].todo, None)
    /\ UNCHANGED <<queue, flush_generation>>

\* The queue is empty: the next one, and after the last device of L1 the new
\* flush_generation.
FlushNext(f) ==
    /\ flush[f].held = None
    /\ queue[Target(f)] = <<>>
    /\ FlushState(f, Tail(flush[f].todo), None)
    /\ flush_generation' = IF Target(f) = NumDevices THEN flush_generation + 1
                           ELSE flush_generation
    /\ UNCHANGED <<free, queue, size>>

Flush(f) ==
    /\ flush[f].todo # <<>>
    /\ FlushTake(f) \/ FlushCountOut(f) \/ FlushNext(f)
    /\ UNCHANGED <<devVars, l2_raw_cap, drainVars, convVars, corr, flushes,
                   flushed, ctlVars, lossVars, leaked>>

\* The calibration code tightens and relaxes the cap of L2-raw.
SetRawCap ==
    /\ l2_raw_cap' \in {L2RawCalMax, L2RawMax} \ {l2_raw_cap}
    /\ UNCHANGED <<devVars, free, queue, size, drainVars, convVars, corr,
                   flushVars, ctlVars, lossVars, leaked>>

-----------------------------------------------------------------------------
(* stop_pipeline_threads, the reopening of the devices with another element  *)
(* count and start_pipeline_threads.                                         *)

\* reconfigure_num_elements refuses while a recovery or the scanner, whose
\* threads flush L1, is at work.
StopPipeline ==
    /\ \/ ctl = "up" /\ restarts < MaxRestarts
       \/ ctl = "down"
    /\ \A f \in Flushers : ~FlushesL1(f)
    /\ pipeline_running' = FALSE
    /\ ctl' = "stopping"
    /\ UNCHANGED <<tick, drain, conv, broadcast, flush, flushed, streaming,
                   active, restarts, lossVars>>

CancelReaders ==
    /\ ctl = "stopping"
    /\ streaming' = FALSE
    /\ ctl' = "joining"
    /\ UNCHANGED <<tick, drain, conv, broadcast, flush, flushed,
                   pipeline_running, active, restarts, lossVars>>

\* Slip: L1 is not flushed.
StopFlush_KeepsL1 == ClearL2
\* Slip: L2 is not flushed.
StopFlush_KeepsL2 == ClearL1
\* With all threads joined: L1, then L2.
StopFlush == ClearL1 \o ClearL2

Joined ==
    /\ ctl = "joining"
    /\ \A d \in Dev : cb[d] = "idle"
    /\ drain = "exited"
    /\ conv = "exited"
    /\ Start(Control, StopFlush)
    /\ ctl' = "flushing"
    /\ UNCHANGED <<tick, drain, conv, broadcast, flushed, pipeline_running,
                   streaming, active, restarts, lossVars>>

Stopped == ctl = "flushing" /\ flush[Control] = Resting

\* The devices opened, with the new count or after a rollback with the old one.
StartPipeline ==
    /\ Stopped
    /\ active' \in ActiveCounts
    /\ pipeline_running' = TRUE
    /\ streaming' = TRUE
    /\ tick' = [d \in Dev |-> LastOfRun(restarts) + 1]
    /\ drain' = "begin"
    /\ conv' = "wait"
    /\ restarts' = restarts + 1
    /\ ctl' = "started"
    /\ broadcast' = None
    /\ lossy' = FALSE /\ flushed' = FALSE
    /\ UNCHANGED <<flush, coherence_lost>>

\* A loss latched so far is forgotten: a full recalibration follows.
ForgetLoss ==
    /\ ctl = "started"
    /\ coherence_lost' = FALSE
    /\ ctl' = "up"
    /\ UNCHANGED <<tick, drain, conv, broadcast, flush, flushed,
                   pipeline_running, streaming, active, restarts, lossy>>

\* Neither count could be opened: down, until another count is asked for.
OpenFails ==
    /\ Stopped
    /\ restarts < MaxRestarts
    /\ restarts' = restarts + 1
    /\ ctl' = "down"
    /\ UNCHANGED <<tick, drain, conv, broadcast, flush, flushed,
                   pipeline_running, streaming, active, lossVars>>

ControlFrame == UNCHANGED <<cb, free, queue, size, l2_raw_cap, raw_set, gen_at_start,
                            timeouts, conv_set, corr, flush_generation, flushes, leaked>>

Reconfigure == (CancelReaders \/ Joined \/ StartPipeline \/ ForgetLoss) /\ ControlFrame

-----------------------------------------------------------------------------
Next ==
    \/ \E d \in Dev : Callback(d) \/ CallbackCount(d)
    \/ Drain
    \/ Conv
    \/ Corr
    \/ \E f \in Flushers : BeginFlush(f)
    \/ \E f \in Clearers : Flush(f)
    \/ SetRawCap
    \/ Reconfigure
    \/ (StopPipeline \/ OpenFails) /\ ControlFrame

Spec == Init /\ [][Next]_vars

\* Each thread takes its next step some time: the operating system schedules
\* them all and every wait of theirs has a timeout.  Nothing makes a device
\* deliver a block or a command arrive.
LiveSpec ==
    /\ Spec
    /\ \A d \in Dev : WF_vars(CallbackCount(d))
    /\ WF_vars(Drain) /\ WF_vars(Conv) /\ WF_vars(Corr)
    /\ \A f \in Clearers : WF_vars(Flush(f))
    /\ WF_vars(Reconfigure)

-----------------------------------------------------------------------------
(* Properties. *)

\* A restart that fails is counted, and another attempt follows.
LastBlock == LastOfRun(MaxRestarts + 1)
Block == 1..LastBlock
Set == UNION {[1..n -> Block] : n \in Dev}
Item(q) == IF q \in Dev THEN Block ELSE Set

QueuesOK ==
    /\ queue = [q \in Queues |-> queue[q]]
    /\ \A q \in Queues : queue[q] \in Seq(Item(q))
    /\ size \in [Queues -> Int]
    /\ leaked \in [Queues -> Nat]

ClearersOK ==
    /\ flush = [f \in Clearers |-> [todo |-> flush[f].todo, held |-> flush[f].held]]
    /\ \A f \in Clearers :
          /\ flush[f].todo \in Seq(Queues)
          /\ flush[f].held # None =>
                /\ flush[f].todo # <<>>
                /\ flush[f].held = <<Head(flush[f].held)>>
                /\ Head(flush[f].held) \in Item(Target(f))

\* The values every variable may take.
TypeOK ==
    /\ QueuesOK
    /\ ClearersOK
    /\ tick \in [Dev -> 1..LastBlock + 1]
    /\ cb \in [Dev -> {"idle", "enqueued"}]
    /\ free \in [Dev -> Nat]
    /\ l2_raw_cap \in {L2RawCalMax, L2RawMax}
    /\ drain \in {"begin", "collect", "taken", "check", "push", "count", "exited"}
    /\ raw_set \in {None} \cup Set
    /\ gen_at_start \in Nat /\ timeouts \in Nat
    /\ conv \in {"wait", "taken", "push", "count", "exited"}
    /\ conv_set \in {None} \cup Set
    /\ broadcast \in {None} \cup Set
    /\ corr \in {"wait", "taken"}
    /\ flush_generation \in Nat /\ flushes \in Nat
    /\ ctl \in {"up", "stopping", "joining", "flushing", "started", "down"}
    /\ pipeline_running \in BOOLEAN /\ streaming \in BOOLEAN
    /\ active \in ActiveCounts /\ restarts \in Nat
    /\ coherence_lost \in BOOLEAN /\ lossy \in BOOLEAN /\ flushed \in BOOLEAN

If1(p) == IF p THEN 1 ELSE 0
Holders == [q \in Queues |-> {f \in Clearers : flush[f].held # None /\ Target(f) = q}]

\* Items of q dequeued by a consumer and not counted out yet, and item
\* enqueued by the producer and not counted in yet.
Outgoing == [q \in Queues |-> If1(drain = "taken" /\ Len(raw_set) = q)
                              + If1(conv = "taken" /\ q = Raw)
                              + If1(corr = "taken" /\ q = L2)
                              + Cardinality(Holders[q])]
Incoming == [q \in Queues |-> If1(q \in Dev /\ cb[q] = "enqueued")
                              + If1(q = Raw /\ drain = "count")
                              + If1(q = L2 /\ conv = "count")]

\* Each counter is the depth of its queue, but for the fetch_add and fetch_subs
\* under way and what the exit paths of drain and conversion worker leave out
\* (sdr_pipeline.cpp 261-264, 337-340): no interleaving makes it drift.
CountersAccounted ==
    \A q \in Queues :
        size[q] = Len(queue[q]) + Outgoing[q] - Incoming[q] + leaked[q]

\* A counter is read by the thread that enqueues, and whenever it reads it the
\* counter covers the queue: not wrapped below zero, which would wedge the "L1
\* full" test (sdr_pipeline.cpp 403-409), and hiding no item from the test.
ReadersNeverSeeUnderflow ==
    \A q \in Queues : Incoming[q] = 0 => size[q] >= Len(queue[q])

\* No queue outgrows its cap, whatever the counters have drifted to and however
\* the cap of L2-raw is moved.
DepthsBounded ==
    /\ \A d \in Dev : Len(queue[d]) <= L1Max
    /\ Len(queue[Raw]) <= L2RawMax
    /\ Len(queue[L2]) <= L2Max

Holding(set, d) == If1(d <= Len(set))
InFlight(d) ==
    Len(queue[d]) + Holding(raw_set, d) + Holding(conv_set, d)
    + Cardinality({i \in DOMAIN queue[Raw] : d <= Len(queue[Raw][i])})
    + Cardinality(Holders[d])
    + Cardinality({f \in Holders[Raw] : d <= Len(Head(flush[f].held))})

\* No path of any thread loses a buffer of a sample pool, early exits included:
\* a buffer is in the pool or in flight.  Losses would end in a dead channel.
NoBufferLost == \A d \in Dev : free[d] + InFlight(d) >= PoolSize

Aligned(set) == \A i, j \in DOMAIN set : set[i] = set[j]
SetsOf(q) == {queue[q][i] : i \in DOMAIN queue[q]}

\* Desynchronisation is never silent: while no loss was signalled and L1 not
\* flushed since the pipeline was last started, all sets are aligned, wherever
\* whole sets are dropped, whatever L2 flushes run, and after any restart.
NoSilentDesync ==
    ~lossy /\ ~flushed =>
        \A set \in SetsOf(Raw) \cup SetsOf(L2) \cup {raw_set, conv_set} : Aligned(set)

\* No set assembled with another element count survives a restart
\* (pipeline_control.cpp 96-101): while the pipeline runs, each whole set has
\* one block of each active element.
SetsMatchElementCount ==
    pipeline_running =>
        \A set \in SetsOf(Raw) \cup SetsOf(L2) \cup ({conv_set, broadcast} \ {None}) :
            Len(set) = active

\* What the streamers receive is a SetStream: in order on every channel and no
\* set twice, one block per active channel, and aligned until a loss was
\* signalled or L1 flushed.
Stream == INSTANCE SetStream
          WITH Channels <- NumDevices, Last <- LastBlock,
               out <- broadcast, synced <- ~lossy /\ ~flushed
ImplementsSetStream == Stream!Spec

\* Stopping the pipeline comes to an end: each thread that is joined notices
\* pipeline_running, also while it waits for a device that is silent.
StopCompletes == ctl = "stopping" ~> ctl \in {"up", "down"}

\* A device that delivers nothing while the drain waits for it is reported,
\* again and again if the report is taken down (sdr_pipeline.cpp 243-258).
StalledDeviceIsReported ==
    \A d \in Dev :
        <>[](drain = "collect" /\ Waiting = d /\ queue[d] = <<>> /\ pipeline_running)
            => []<>coherence_lost

-----------------------------------------------------------------------------
(* What comments of the code say and the code does not do. *)

\* sdr_pipeline.cpp 403-406: fetch_add on enqueue and fetch_sub "on every
\* dequeue" match, so the counters "track the true depth": zero, with every
\* thread joined and the queues flushed.
CountersTrackDepth ==
    Stopped => \A q \in Dev \cup {Raw} : size[q] = 0

\* A stop of the pipeline always completes, and a device that stalls is reported
\* again and again: nobody waits for ever for what does not come.
NothingHangs ==
    /\ StopCompletes
    /\ StalledDeviceIsReported
=============================================================================
