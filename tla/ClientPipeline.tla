--------------------------- MODULE ClientPipeline ---------------------------
(***************************************************************************)
(* The sample path of the direction finding client, from a packet whose    *)
(* bytes have all arrived to the displayed spectrum and the input of       *)
(* MUSIC: the receiver thread, the RawDataBuffer, the decimation thread,   *)
(* the persistent buffer and its generations, the FFT worker threads, and  *)
(* the resize of the FFT.                                                  *)
(*                                                                         *)
(* Samples are the number of the packet they came in.  The persistent      *)
(* buffer is cut in places of one packet's channel; a copy is two steps,   *)
(* so that a reader may see a place half written.  Frequencies are the     *)
(* number of retunes that led to them.                                     *)
(***************************************************************************)
EXTENDS Integers, Sequences, FiniteSets

CONSTANTS
    Workers,      \* the FFT worker threads
    Channels,     \* number of channels the arrays are made for
    Counts,       \* the element counts the server may send
    Places,       \* places of the persistent buffer below its 80 % mark
    Sizes,        \* the FFT sizes the web page offers
    MaxRaw,       \* packets the RawDataBuffer keeps
    MaxMemory,    \* channels' worth of samples it keeps
    MaxQueued,    \* items the FFT queue takes
    MaxPackets,   \* bound: packets received
    MaxRetunes,   \* bound: retunes of the server
    MaxSwitches,  \* bound: changes of channel, mode or DoA by the web page
    MaxResizes    \* bound: resizes of the FFT

None   == -1

ASSUME PipelineAssumption ==
    /\ IsFiniteSet(Workers) /\ None \notin Workers
    /\ Counts \subseteq 1 .. Channels /\ Counts # {}
    /\ Sizes \subseteq Nat \ {0} /\ Sizes # {}
    /\ {Channels, Places, MaxRaw, MaxMemory, MaxQueued} \subseteq Nat \ {0}
    /\ {MaxPackets, MaxRetunes, MaxSwitches, MaxResizes} \subseteq Nat

VARIABLES
    rx,        \* the receiver thread: where it is, its packet, its statics
    raw,       \* RawDataBuffer::packet_queue
    memory,    \* RawDataBuffer::total_memory_bytes, in channels of samples
    switches,  \* active_channel, wideband_mode_enabled, doa_enabled
    tuned,     \* active_num_elements, tuner_frequencies[0], the DoA hold
    dec,       \* the decimation thread
    pbuf,      \* persistent_data_buffer, its write position and generation
    fftq,      \* fft_work_queue
    worker,    \* the FFT worker threads
    ctx,       \* channel_fft_contexts: size, and the thread in the mutex
    avg,       \* fft_averaged: size, what is mixed in it, resets seen
    shown,     \* fft_reset_generation, fft_data_valid, holder of fft_mutex
    resizer,   \* FFTProcessor::resize on the web thread
    budget     \* what is left of the bounds

vars == <<rx, raw, memory, switches, tuned, dec, pbuf, fftq, worker, ctx, avg,
          shown, resizer, budget>>

Chan   == 0 .. Channels - 1
Floor  == -2          \* what initialize and resize fill the averages with
Reset  == -3          \* what reset_all_buffers fills them with
Least(x, y) == IF x < y THEN x ELSE y

NoPacket == [id |-> None, freq |-> 0, retuning |-> FALSE, n |-> 1,
             converted |-> {}]
NoItem   == [ch |-> 0, place |-> 0, gen |-> 0, id |-> None]
Popping  == [pc |-> "pop", packet |-> NoPacket, elements |-> 0, active |-> 0,
             wideband |-> FALSE, todo |-> {}]
AtRest   == [pc |-> "idle", item |-> NoItem, size |-> 0, seen |-> None,
             reset |-> FALSE]

-----------------------------------------------------------------------------
\* RawDataBuffer.  Every operation holds queue_mutex, so each is one step.

\* RawDataPacket::memory_usage: the channels that were converted.
MemoryUsage(p) == Cardinality(p.converted)
MemoryOf(q)    == Cardinality({x \in (1 .. Len(q)) \X Chan : x[2] \in q[x[1]].converted})

\* enforce_memory_limit, then enforce_queue_size_limit: how many of the oldest
\* packets of q go.
Excess(q) ==
    CHOOSE k \in 0 .. Len(q) :
        LET fits(j) == LET rest == SubSeq(q, j + 1, Len(q)) IN
                       MemoryOf(rest) <= MaxMemory /\ Len(rest) <= MaxRaw
        IN  fits(k) /\ \A j \in 0 .. k - 1 : ~fits(j)

\* push_packet, after cleanup_stale_packets has dropped the oldest k.
PushPacket(p, k) ==
    LET q == Append(SubSeq(raw, k + 1, Len(raw)), p)
        x == Excess(q)
    IN  /\ raw' = SubSeq(q, x + 1, Len(q))
        /\ memory' = memory + MemoryUsage(p) - MemoryOf(SubSeq(raw, 1, k))
                     - MemoryOf(SubSeq(q, 1, x))

\* try_pop_packet: the oldest packet.
PopPacket ==
    /\ raw # <<>>
    /\ raw' = Tail(raw)
    /\ memory' = memory - MemoryUsage(Head(raw))

-----------------------------------------------------------------------------
\* The receiver thread.

\* g_last_retune_complete_ms is set when packet p is being looked at.
Hold(t, p) == [t EXCEPT !.hold = TRUE, !.since = p.id]

\* Packet of the server: its frequency is that of the last or of a new
\* retune, and the retuning flag may be up in any of them.
RecvHeader ==
    /\ rx.pc = "header"
    /\ budget.packets > 0
    /\ \E f \in rx.freq .. Least(rx.freq + 1, MaxRetunes), r \in BOOLEAN, n \in Counts :
          LET p == [NoPacket EXCEPT !.id = MaxPackets - budget.packets,
                                    !.freq = f, !.retuning = r, !.n = n]
              completed == rx.wasRetuning /\ ~r
          IN  /\ rx' = [rx EXCEPT !.packet = p, !.freq = f, !.wasRetuning = r,
                           !.pc = IF completed /\ ~switches.wideband
                                  THEN "reset" ELSE "update"]
              /\ tuned' = IF completed THEN Hold(tuned, p) ELSE tuned
    /\ budget' = [budget EXCEPT !.packets = @ - 1]
    /\ UNCHANGED <<raw, memory, switches, dec, pbuf, fftq, worker, ctx, avg,
                   shown, resizer>>

\* A retune is over: a new reset generation, the display is invalid, and the
\* queue of FFT work is drained ...
RecvReset ==
    /\ rx.pc = "reset"
    /\ shown' = [shown EXCEPT !.gen = @ + 1, !.valid = FALSE]
    /\ fftq' = <<>>
    /\ rx' = [rx EXCEPT !.pc = "fill"]
    /\ UNCHANGED <<raw, memory, switches, tuned, dec, pbuf, worker, ctx, avg,
                   resizer, budget>>

\* ... and reset_all_buffers fills every channel's average, under fft_mutex.
RecvFill ==
    /\ rx.pc = "fill"
    /\ shown.holder = None
    /\ avg' = [avg EXCEPT !.mix = [c \in Chan |-> {Reset}]]
    /\ rx' = [rx EXCEPT !.pc = "update"]
    /\ UNCHANGED <<raw, memory, switches, tuned, dec, pbuf, fftq, worker, ctx,
                   shown, resizer, budget>>

\* The metadata of the reference channel reach tuner_frequencies ...
RecvUpdate ==
    /\ rx.pc = "update"
    /\ tuned' = [tuned EXCEPT !.freq = rx.packet.freq]
    /\ rx' = [rx EXCEPT !.pc = "arm"]
    /\ UNCHANGED <<raw, memory, switches, dec, pbuf, fftq, worker, ctx, avg,
                   shown, resizer, budget>>

\* ... and a changed one arms the hold.  A packet of a retune goes no further.
RecvArm ==
    /\ rx.pc = "arm"
    /\ tuned' = IF rx.lastRef \notin {None, rx.packet.freq}
                THEN Hold(tuned, rx.packet) ELSE tuned
    /\ rx' = [rx EXCEPT !.lastRef = rx.packet.freq,
                        !.pc = IF rx.packet.retuning THEN "header" ELSE "push",
                        !.packet = IF rx.packet.retuning THEN NoPacket ELSE @]
    /\ UNCHANGED <<raw, memory, switches, dec, pbuf, fftq, worker, ctx, avg,
                   shown, resizer, budget>>

\* The channels the receiver converts.
ToConvert(n, elements) ==
    LET all    == 0 .. n - 1
        active == all \cap {switches.active}
    IN  IF switches.wideband THEN all
        ELSE IF switches.doa /\ n >= elements THEN 0 .. elements - 1 \cup active
        ELSE active

\* The element count follows the header, the channels wanted are converted,
\* and the packet is pushed; packets that are too old go first.
RecvPush ==
    /\ rx.pc = "push"
    /\ LET n == rx.packet.n
           elements == IF n >= 2 THEN n ELSE tuned.elements
           p == [rx.packet EXCEPT !.converted = ToConvert(n, elements)]
       IN  /\ tuned' = [tuned EXCEPT !.elements = elements]
           /\ \E k \in 0 .. Len(raw) : PushPacket(p, k)
    /\ rx' = [rx EXCEPT !.pc = "header", !.packet = NoPacket]
    /\ UNCHANGED <<switches, dec, pbuf, fftq, worker, ctx, avg, shown, resizer, budget>>

HoldExpires_Early ==
    /\ tuned.hold
    /\ tuned' = [tuned EXCEPT !.hold = FALSE]
    /\ UNCHANGED <<rx, raw, memory, switches, dec, pbuf, fftq, worker, ctx, avg,
                   shown, resizer, budget>>

\* RETUNE_DOA_HOLD_MS have passed: more than the decimation thread takes for a
\* packet to be stale, so the packets of before the hold are gone.
HoldExpires ==
    /\ tuned.hold
    /\ \A i \in 1 .. Len(raw) : raw[i].id >= tuned.since
    /\ dec.pc = "pop" \/ dec.packet.id >= tuned.since
    /\ tuned' = [tuned EXCEPT !.hold = FALSE]
    /\ UNCHANGED <<rx, raw, memory, switches, dec, pbuf, fftq, worker, ctx, avg,
                   shown, resizer, budget>>

-----------------------------------------------------------------------------
\* The decimation thread.

\* A packet is taken and, unless it is stale, the flags and the element count
\* are read for it.
DecPop ==
    /\ dec.pc = "pop"
    /\ PopPacket
    /\ LET p == Head(raw) IN
       \/ dec' = [dec EXCEPT !.pc = "gate", !.packet = p,
                     !.elements = Least(tuned.elements, p.n),
                     !.active = switches.active, !.wideband = switches.wideband]
       \/ dec' = dec       \* is_stale(1500 ms)
    /\ UNCHANGED <<rx, switches, tuned, pbuf, fftq, worker, ctx, avg, shown,
                   resizer, budget>>

\* MUSIC needs a coherent packet of the current count, DoA on and no hold, and
\* the decimator an input of every element.
DecGate ==
    /\ dec.pc = "gate"
    /\ dec' = [dec EXCEPT !.pc =
          IF /\ ~dec.wideband /\ dec.elements >= 2
             /\ dec.packet.n >= tuned.elements /\ switches.doa
             /\ ~tuned.hold
             /\ 0 .. dec.elements - 1 \subseteq dec.packet.converted
          THEN "music" ELSE "spectrum"]
    /\ UNCHANGED <<rx, raw, memory, switches, tuned, pbuf, fftq, worker, ctx,
                   avg, shown, resizer, budget>>

\* With these channels still to copy for the FFT, or done with the packet.
DecWith(todo) == IF todo = {} THEN Popping
                 ELSE [dec EXCEPT !.pc = "copy", !.todo = todo]

\* The channels whose samples go to the FFT: all of them in wideband mode,
\* else the one that was active when the packet was taken.
DecSpectrum ==
    /\ dec.pc \in {"music", "spectrum"}
    /\ dec' = DecWith(IF switches.wideband THEN dec.packet.converted
                      ELSE dec.packet.converted \cap {dec.active})
    /\ UNCHANGED <<rx, raw, memory, switches, tuned, pbuf, fftq, worker, ctx,
                   avg, shown, resizer, budget>>

\* Under persistent_buffer_mutex: past the 80 % mark the position goes back to
\* the start and a new generation begins; then the copy starts.
DecCopy ==
    /\ dec.pc = "copy"
    /\ LET wrap  == pbuf.pos + 1 > Places
           place == IF wrap THEN 1 ELSE pbuf.pos + 1
       IN  pbuf' = [at  |-> [pbuf.at EXCEPT ![place] = None],
                    pos |-> place,
                    gen |-> pbuf.gen + (IF wrap THEN 1 ELSE 0)]
    /\ dec' = [dec EXCEPT !.pc = "enqueue"]
    /\ UNCHANGED <<rx, raw, memory, switches, tuned, fftq, worker, ctx, avg,
                   shown, resizer, budget>>

\* The copy is done and its item queued, if the queue takes it.
DecEnqueue ==
    /\ dec.pc = "enqueue"
    /\ \E ch \in dec.todo :
          /\ \A c \in dec.todo : ch <= c
          /\ fftq' = IF Len(fftq) < MaxQueued
                     THEN Append(fftq, [ch |-> ch, place |-> pbuf.pos,
                                        gen |-> pbuf.gen, id |-> dec.packet.id])
                     ELSE fftq
          /\ dec' = DecWith(dec.todo \ {ch})
    /\ pbuf' = [pbuf EXCEPT !.at[pbuf.pos] = dec.packet.id]
    /\ UNCHANGED <<rx, raw, memory, switches, tuned, worker, ctx, avg, shown,
                   resizer, budget>>

-----------------------------------------------------------------------------
\* The FFT workers: fft_processor_thread and process_channel_fft.

Goto(w, pc) == worker' = [worker EXCEPT ![w].pc = pc]

Leave_Locked(w) ==
    /\ worker' = [worker EXCEPT ![w] = AtRest]
    /\ resizer' = [resizer EXCEPT !.active = @ - 1]
    /\ UNCHANGED <<rx, raw, memory, switches, tuned, dec, pbuf, fftq, ctx, budget>>

\* The locks are released and WorkerGuard takes the worker out of the count.
Leave(w) ==
    /\ worker' = [worker EXCEPT ![w] = AtRest]
    /\ ctx' = [c \in Chan |-> IF ctx[c].holder = w
                              THEN [ctx[c] EXCEPT !.holder = None] ELSE ctx[c]]
    /\ resizer' = [resizer EXCEPT !.active = @ - 1]
    /\ UNCHANGED <<rx, raw, memory, switches, tuned, dec, pbuf, fftq, budget>>

\* An item is taken.  One of more than 500 ms ago is dropped, and any while a
\* resize is in progress; else the worker is counted ...
WorkerTake(w) ==
    /\ worker[w].pc = "idle"
    /\ fftq # <<>>
    /\ fftq' = Tail(fftq)
    /\ \/ UNCHANGED worker
       \/ /\ ~resizer.flag
          /\ worker' = [worker EXCEPT ![w].pc = "count", ![w].item = Head(fftq)]
    /\ UNCHANGED <<rx, raw, memory, switches, tuned, dec, pbuf, ctx, avg, shown,
                   resizer, budget>>

WorkerCount(w) ==
    /\ worker[w].pc = "count"
    /\ Goto(w, "recheck")
    /\ resizer' = [resizer EXCEPT !.active = @ + 1]
    /\ UNCHANGED <<rx, raw, memory, switches, tuned, dec, pbuf, fftq, ctx, avg,
                   shown, budget>>

WorkerRecheck_Never(w) ==
    /\ worker[w].pc = "recheck"
    /\ Goto(w, "enter")
    /\ UNCHANGED <<rx, raw, memory, switches, tuned, dec, pbuf, fftq, ctx,
                   resizer, budget, avg, shown>>

\* ... and looks again before it touches anything.
WorkerRecheck(w) ==
    /\ worker[w].pc = "recheck"
    /\ IF resizer.flag
       THEN Leave(w)
       ELSE /\ Goto(w, "enter")
            /\ UNCHANGED <<rx, raw, memory, switches, tuned, dec, pbuf, fftq,
                           ctx, resizer, budget>>
    /\ UNCHANGED <<avg, shown>>

\* The channel's context is locked and the samples are read into it.
WorkerEnter(w) ==
    /\ worker[w].pc = "enter"
    /\ LET item == worker[w].item IN
       /\ ctx[item.ch].holder = None
       /\ ctx' = [ctx EXCEPT ![item.ch].holder = w]
       /\ worker' = [worker EXCEPT ![w].pc = "verify",
                         ![w].size = ctx[item.ch].size,
                         ![w].seen = pbuf.at[item.place]]
    /\ UNCHANGED <<rx, raw, memory, switches, tuned, dec, pbuf, fftq, avg,
                   shown, resizer, budget>>

\* The generation an item was queued in is still that of the buffer.
Trusted(w) == pbuf.gen = worker[w].item.gen

\* The last read of the samples; the generation then decides whether they can
\* be trusted.  If so the transform is made, fft_mutex taken, and the reset
\* generation read and settled.
WorkerExecute(w) ==
    /\ worker[w].pc = "verify"
    /\ Trusted(w)
    /\ shown.holder = None
    /\ shown' = [shown EXCEPT !.holder = w]
    /\ LET item == worker[w].item IN
       /\ worker' = [worker EXCEPT ![w].pc = "store",
              ![w].seen = IF pbuf.at[item.place] = @ THEN @ ELSE None,
              ![w].reset = avg.lastGen[item.ch] < shown.gen]
       /\ avg' = [avg EXCEPT !.lastGen[item.ch] = shown.gen]
    /\ UNCHANGED <<rx, raw, memory, switches, tuned, dec, pbuf, fftq, ctx,
                   resizer, budget>>

WorkerDiscard(w) ==
    /\ worker[w].pc = "verify"
    /\ ~Trusted(w)
    /\ Leave(w)
    /\ UNCHANGED <<avg, shown>>

\* The frame is blended into the channel's average, or replaces it, and the
\* display is valid.
WorkerStore(w) ==
    /\ worker[w].pc = "store"
    /\ LET ch == worker[w].item.ch IN
       avg' = [avg EXCEPT !.mix[ch] =
                   {worker[w].item.id} \cup (IF worker[w].reset THEN {} ELSE @)]
    /\ shown' = [shown EXCEPT !.valid = TRUE, !.holder = None]
    /\ Leave(w)

-----------------------------------------------------------------------------
\* FFTProcessor::resize, on the thread of the web server.

ResizeBegin ==
    /\ resizer.pc = "idle"
    /\ budget.resizes > 0
    /\ \E s \in Sizes \ {avg.size} :
          resizer' = [resizer EXCEPT !.pc = "wait", !.size = s, !.flag = TRUE]
    /\ budget' = [budget EXCEPT !.resizes = @ - 1]
    /\ UNCHANGED <<rx, raw, memory, switches, tuned, dec, pbuf, fftq, worker,
                   ctx, avg, shown>>

\* It goes on when no worker is counted, or after 500 ms all the same.
ResizeDrained ==
    /\ resizer.pc = "wait"
    /\ resizer' = [resizer EXCEPT !.pc = "contexts", !.todo = Chan,
                      !.gaveUp = @ \/ resizer.active > 0]
    /\ UNCHANGED <<rx, raw, memory, switches, tuned, dec, pbuf, fftq, worker,
                   ctx, avg, shown, budget>>

\* Each context is made anew under its own mutex.
ResizeContext ==
    /\ resizer.pc = "contexts"
    /\ \E c \in resizer.todo :
          /\ \A d \in resizer.todo : c <= d
          /\ ctx[c].holder = None
          /\ ctx' = [ctx EXCEPT ![c].size = resizer.size]
          /\ resizer' = [resizer EXCEPT !.todo = @ \ {c},
                !.pc = IF resizer.todo = {c} THEN "arrays" ELSE @]
    /\ UNCHANGED <<rx, raw, memory, switches, tuned, dec, pbuf, fftq, worker,
                   avg, shown, budget>>

\* The arrays are resized and filled under fft_mutex.
ResizeArrays ==
    /\ resizer.pc = "arrays"
    /\ shown.holder = None
    /\ avg' = [avg EXCEPT !.size = resizer.size,
                          !.mix = [c \in Chan |-> {Floor}]]
    /\ resizer' = [resizer EXCEPT !.pc = "idle", !.flag = FALSE]
    /\ UNCHANGED <<rx, raw, memory, switches, tuned, dec, pbuf, fftq, worker,
                   ctx, shown, budget>>

\* The web page switches the active channel, wideband mode or DoA.
Switch ==
    /\ budget.switches > 0
    /\ \/ \E c \in Chan \ {switches.active} :
             switches' = [switches EXCEPT !.active = c]
       \/ switches' = [switches EXCEPT !.wideband = ~@]
       \/ switches' = [switches EXCEPT !.doa = ~@]
    /\ budget' = [budget EXCEPT !.switches = @ - 1]
    /\ UNCHANGED <<rx, raw, memory, tuned, dec, pbuf, fftq, worker, ctx, avg,
                   shown, resizer>>

-----------------------------------------------------------------------------
Init ==
    /\ rx = [pc |-> "header", packet |-> NoPacket, freq |-> 0, lastRef |-> None,
             wasRetuning |-> FALSE]
    /\ raw = <<>>
    /\ memory = 0
    /\ switches = [active |-> 0, wideband |-> FALSE, doa |-> TRUE]
    /\ tuned = [freq |-> 0, hold |-> FALSE, since |-> 0, elements |-> CHOOSE n \in Counts : TRUE]
    /\ dec = Popping
    /\ pbuf = [at |-> [i \in 1 .. Places |-> None], pos |-> 0, gen |-> 1]
    /\ fftq = <<>>
    /\ worker = [w \in Workers |-> AtRest]
    /\ \E s \in Sizes :
          /\ ctx = [c \in Chan |-> [size |-> s, holder |-> None]]
          /\ avg = [size |-> s, mix |-> [c \in Chan |-> {Floor}],
                    lastGen |-> [c \in Chan |-> 0]]
    /\ shown = [gen |-> 0, valid |-> TRUE, holder |-> None]
    /\ resizer = [pc |-> "idle", size |-> 0, flag |-> FALSE, active |-> 0,
                  todo |-> {}, gaveUp |-> FALSE]
    /\ budget = [packets |-> MaxPackets, switches |-> MaxSwitches,
                 resizes |-> MaxResizes]

Receiver == RecvHeader \/ RecvReset \/ RecvFill \/ RecvUpdate
            \/ RecvArm \/ RecvPush
Decimation == DecPop \/ DecGate \/ DecSpectrum \/ DecCopy
              \/ DecEnqueue
Work(w) == WorkerTake(w) \/ WorkerCount(w) \/ WorkerRecheck(w) \/ WorkerEnter(w)
           \/ WorkerExecute(w) \/ WorkerDiscard(w) \/ WorkerStore(w)
Resize == ResizeBegin \/ ResizeDrained \/ ResizeContext \/ ResizeArrays

Next == Receiver \/ Decimation \/ (\E w \in Workers : Work(w)) \/ Resize
        \/ HoldExpires \/ Switch

Spec == Init /\ [][Next]_vars

LiveSpec ==
    /\ Spec
    /\ WF_vars(Decimation) /\ WF_vars(ResizeDrained) /\ WF_vars(ResizeContext)
    /\ WF_vars(ResizeArrays)
    /\ \A w \in Workers : WF_vars(Work(w))

-----------------------------------------------------------------------------
Ids     == 0 .. MaxPackets - 1
Packets == [id : {None} \cup Ids, freq : 0 .. MaxRetunes, retuning : BOOLEAN,
            n : Counts \cup {1}, converted : SUBSET Chan]
Items   == [ch : Chan, place : 0 .. Places, gen : Nat, id : {None} \cup Ids]

\* Types and bounds.  That resizer.active counts the workers between "count"
\* and their end is part of it: resize() trusts the number.
TypeOK ==
    /\ rx \in [pc : {"header", "reset", "fill", "update", "arm", "push"},
               packet : Packets, freq : 0 .. MaxRetunes,
               lastRef : None .. MaxRetunes, wasRetuning : BOOLEAN]
    /\ raw \in Seq(Packets) /\ Len(raw) <= MaxRaw
    /\ memory \in 0 .. MaxMemory
    /\ switches \in [active : Chan, wideband : BOOLEAN, doa : BOOLEAN]
    /\ tuned \in [freq : 0 .. MaxRetunes, hold : BOOLEAN, since : {0} \cup Ids,
                  elements : Counts]
    /\ dec \in [pc : {"pop", "gate", "music", "spectrum", "copy", "enqueue"},
                packet : Packets, elements : 0 .. Channels, active : Chan \cup {0},
                wideband : BOOLEAN, todo : SUBSET Chan]
    /\ pbuf \in [at : [1 .. Places -> {None} \cup Ids], pos : 0 .. Places, gen : Nat]
    /\ fftq \in Seq(Items) /\ Len(fftq) <= MaxQueued
    /\ worker \in [Workers -> [pc : {"idle", "count", "recheck", "enter", "verify",
                                     "store"}, item : Items, size : {0} \cup Sizes,
                               seen : {None} \cup Ids, reset : BOOLEAN]]
    /\ ctx \in [Chan -> [size : Sizes, holder : {None} \cup Workers]]
    /\ avg \in [size : Sizes, mix : [Chan -> SUBSET ({Floor, Reset} \cup Ids)],
                lastGen : [Chan -> Nat]]
    /\ shown \in [gen : Nat, valid : BOOLEAN, holder : {None} \cup Workers]
    /\ resizer \in [pc : {"idle", "wait", "contexts", "arrays"},
                    size : {0} \cup Sizes, flag : BOOLEAN, active : Nat,
                    todo : SUBSET Chan, gaveUp : BOOLEAN]
    /\ resizer.active =
          Cardinality({w \in Workers : worker[w].pc \notin {"idle", "count"}})
    /\ budget \in [packets : 0 .. MaxPackets, switches : 0 .. MaxSwitches,
                   resizes : 0 .. MaxResizes]

\* A frame that reaches the average was read from one packet only: the
\* generation counter catches every overwrite of the persistent buffer, with
\* the decimation thread copying while workers lag behind a wrap.
FramesWhole == \A w \in Workers :
    worker[w].pc = "store" => worker[w].seen = worker[w].item.id

\* A worker never writes a frame longer than the averages: the flag, the count
\* of workers and the second look at the flag keep workers out of the contexts
\* of a new size until the arrays have it too.  Only a resize that stopped
\* waiting after 500 ms breaks it.
WritesInBounds == \A w \in Workers :
    worker[w].pc = "store" => worker[w].size <= avg.size \/ resizer.gaveUp

\* total_memory_bytes is the memory of the queued packets, over stale packets,
\* evictions by either limit and pops, so the limit means what it says.
MemoryAccounted == memory = MemoryOf(raw)

\* MUSIC never gets a packet sampled before a retune under the frequency label
\* of after it, but in the moment between the update of tuner_frequencies and
\* the arming of the hold.
HoldCoversOldPackets ==
    [][dec.pc = "gate" /\ dec'.pc = "music" =>
          dec.packet.freq = tuned.freq \/ rx.pc = "arm"]_vars

\* A resize comes to its end, so the workers do not drop items for ever.
ResizeEnds == resizer.flag ~> ~resizer.flag

\* The sample path of the client is sound: counters, frames, writes and memory.
PipelineSound ==
    /\ TypeOK
    /\ FramesWhole
    /\ WritesInBounds
    /\ MemoryAccounted
=============================================================================
