------------------------------- MODULE AudioPath -------------------------------
(***************************************************************************)
(* The audio of the direction finding client: the decimator that is the FM   *)
(* source fills a queue, the FM thread demodulates its blocks into a ring,    *)
(* and the timer of the web thread plays packets from it.  The web thread      *)
(* also carries out the commands (source, bandwidth, mode, on and off), so    *)
(* its commands and its reads follow each other; the FM thread clears the     *)
(* ring by itself after a gap, and the continuous scanner moves the source.   *)
(*                                                                           *)
(* A sample is its number; a squelched one is silence but keeps its place.    *)
(* A rate stands for the sample rate of a bandwidth.  The ring belongs to one *)
(* writer and one reader, its clear to neither: whether a clear has ever      *)
(* overlapped a read or a write, or slipped in before the flag of the fill,   *)
(* is history.                                                                *)
(***************************************************************************)
EXTENDS Integers, Sequences, FiniteSets, SequencesExt

CONSTANTS
    Ids,          \* decimator ids (MAX_DECIMATORS)
    Rates,        \* sample rates of the bandwidth options
    FmQueueCap,   \* items the FM queue takes (20)
    RingSize,     \* samples of the ring, a power of two
    FillTarget,   \* INITIAL_FILL_TARGET
    Block,        \* audio samples a block comes to
    PacketSize,   \* AUDIO_SAMPLES_PER_PACKET
    GapTimeouts,  \* timeouts that make a gap (15)
    Commands,     \* commands of this instance
    MaxAudioBlocks, \* bound: blocks
    MaxOrders     \* bound: blocks, commands and steps of time together

ASSUME AudioAssumption ==
    /\ Ids \subseteq Nat /\ IsFiniteSet(Ids) /\ 0 \in Ids /\ Rates # {} /\ 0 \notin Rates
    /\ {FmQueueCap, RingSize, FillTarget, Block, PacketSize, GapTimeouts} \subseteq Nat \ {0}
    /\ FillTarget < RingSize

VARIABLES
    decs,    \* the decimators: rate of each id, Absent if there is none
    source,  \* fm_decimator_id
    on,      \* fm_enabled
    dec,     \* the decimation thread and the block in its hands
    fmQueue, \* fm_decimated_queue: [n, rate, age]
    fm,      \* the FM thread: its block, what it loaded, its cached rate
    demod,   \* processing_enabled, rate, ratio, filters, their flag, process_mutex
    ring,    \* write_pos, read_pos, the cells, initial_fill_complete
    page,     \* the web thread
    heard,   \* history: the samples taken since the last clear and not yet played,
             \* whether they were ever enough for the fill, whether a clear has
             \* overlapped a read or a write, and whether the last one slipped in
             \* between the look at the ring and the flag that follows from it
    left     \* events left of the bound

audioVars == <<decs, source, on, dec, fmQueue, fm, demod, ring, page, heard, left>>

Absent == 0
Lower(x, y) == IF x < y THEN x ELSE y
Default == CHOOSE r \in Rates : TRUE   \* 240 kHz
Existing == {i \in Ids : decs[i] # Absent}

-----------------------------------------------------------------------------
\* The ring.  Positions are modulo its size.

Used(w, r) == (w - r) % RingSize

Space(w, r)      == RingSize - Used(w, r) - 1

\* Where the samples go that the ring has room for.
Filled(cells, w, samples, count) ==
    [i \in DOMAIN cells |-> IF (i - w) % RingSize < count
                            THEN samples[((i - w) % RingSize) + 1] ELSE cells[i]]
Taken(cells, r, count) == [i \in 1 .. count |-> cells[(r + i - 1) % RingSize]]

Samples(n) == [i \in 1 .. Block |-> (n - 1) * Block + i]

Clearing == {"clear", "clearRead", "clearFill"}

-----------------------------------------------------------------------------
\* The decimation thread: the source is fixed when the block's tasks start.

Launch ==
    /\ dec.pc = "idle" /\ dec.n < MaxAudioBlocks /\ left > 0
    /\ on /\ decs[source] # Absent
    /\ dec' = [pc |-> "enqueue", n |-> dec.n + 1, rate |-> decs[source]]
    /\ left' = left - 1
    /\ UNCHANGED <<decs, source, on, fmQueue, fm, demod, ring, page, heard>>

Enqueue ==
    /\ dec.pc = "enqueue"
    /\ fmQueue' = IF Len(fmQueue) < FmQueueCap
                THEN Append(fmQueue, [n |-> dec.n, rate |-> dec.rate, age |-> 0]) ELSE fmQueue
    /\ dec' = [dec EXCEPT !.pc = "idle"]
    /\ UNCHANGED <<decs, source, on, fm, demod, ring, page, left, heard>>

\* Blocks in the queue become older than 100 ms, then than 200 ms.
Age ==
    /\ \E i \in DOMAIN fmQueue : fmQueue[i].age < 2
    /\ left > 0 /\ left' = left - 1
    /\ fmQueue' = [i \in DOMAIN fmQueue |-> [fmQueue[i] EXCEPT !.age = Lower(@ + 1, 2)]]
    /\ UNCHANGED <<decs, source, on, dec, fm, demod, ring, page, heard>>

-----------------------------------------------------------------------------
\* The FM thread.

\* It looks at fm_enabled at the top of its loop only.
FmTop ==
    /\ fm.pc = "top"
    /\ IF on THEN fm' = [fm EXCEPT !.pc = "wait"]
       ELSE fm.timeouts > 0 /\ fm' = [fm EXCEPT !.timeouts = 0]
    /\ UNCHANGED <<decs, source, on, dec, fmQueue, demod, ring, page, left, heard>>

FmTimeout ==
    /\ fm.pc = "wait" /\ fmQueue = <<>>
    /\ fm' = [fm EXCEPT !.pc = "top", !.timeouts = Lower(@ + 1, GapTimeouts)]
    /\ UNCHANGED <<decs, source, on, dec, fmQueue, demod, ring, page, left, heard>>

\* After a gap the old blocks go first, down to the last one there is.
FirstYoung(q) ==
    LET young == {i \in DOMAIN q : q[i].age = 0}
    IN  IF young = {} THEN Len(q) ELSE CHOOSE i \in young : \A j \in young : i <= j

FmTake ==
    /\ fm.pc = "wait" /\ fmQueue # <<>>
    /\ LET gap == fm.timeouts >= GapTimeouts
           i == IF gap THEN FirstYoung(fmQueue) ELSE 1
       IN  /\ fm' = [fm EXCEPT !.pc = IF gap THEN "reset" ELSE "age",
                               !.item = fmQueue[i], !.timeouts = 0]
           /\ fmQueue' = SubSeq(fmQueue, i + 1, Len(fmQueue))
    /\ UNCHANGED <<decs, source, on, dec, demod, ring, page, left, heard>>

\* reset_audio_buffer by the FM thread, or by the web thread below.
FmReset ==
    /\ fm.pc = "reset" /\ demod.lock = "free"
    /\ demod' = [demod EXCEPT !.lock = "fm"]
    /\ fm' = [fm EXCEPT !.pc = "clear"]
    /\ heard' = [heard EXCEPT !.raced = @ \/ page.pc = "playStore"]
    /\ UNCHANGED <<decs, source, on, dec, fmQueue, ring, page, left>>

FmAge ==
    /\ fm.pc = "age"
    /\ fm' = [fm EXCEPT !.pc = IF fm.item.age = 2 THEN "top" ELSE "rate"]
    /\ UNCHANGED <<decs, source, on, dec, fmQueue, demod, ring, page, left, heard>>

\* setInputSampleRate, if the block's rate is not the one before: the rate, the
\* resampling ratio, and the flag for new filters, one after the other.
Asks(rate) == rate # demod.rate

FmRate ==
    /\ fm.pc = "rate"
    /\ IF fm.item.rate # fm.last /\ Asks(fm.item.rate)
       THEN demod' = [demod EXCEPT !.rate = fm.item.rate] /\ fm' = [fm EXCEPT !.pc = "ratio", !.last = fm.item.rate]
       ELSE demod' = demod /\ fm' = [fm EXCEPT !.pc = "filters", !.last = fm.item.rate]
    /\ UNCHANGED <<decs, source, on, dec, fmQueue, ring, page, left, heard>>

FmRatio ==
    /\ fm.pc = "ratio"
    /\ demod' = [demod EXCEPT !.ratio = fm.item.rate]
    /\ fm' = [fm EXCEPT !.pc = "need"]
    /\ UNCHANGED <<decs, source, on, dec, fmQueue, ring, page, left, heard>>

FmNeed ==
    /\ fm.pc = "need"
    /\ demod' = [demod EXCEPT !.need = TRUE]
    /\ fm' = [fm EXCEPT !.pc = "filters"]
    /\ UNCHANGED <<decs, source, on, dec, fmQueue, ring, page, left, heard>>

\* updateFiltersIfNeeded: the flag is taken, then the filters made, of the
\* rate and ratio as they are by then, under the lock.
FmFilters ==
    /\ fm.pc = "filters"
    /\ IF demod.enabled
       THEN /\ demod' = [demod EXCEPT !.need = FALSE]
            /\ fm' = [fm EXCEPT !.pc = IF demod.need THEN "recreate" ELSE "demod"]
       ELSE demod' = demod /\ fm' = [fm EXCEPT !.pc = "top"]
    /\ UNCHANGED <<decs, source, on, dec, fmQueue, ring, page, left, heard>>

Designed_RateOnly(d) == [d EXCEPT !.filters.rate = d.rate]
Designed(d) == [d EXCEPT !.filters = [rate |-> d.rate, ratio |-> d.ratio]]

FmRecreate ==
    /\ fm.pc = "recreate" /\ demod.lock = "free"
    /\ demod' = Designed(demod)
    /\ fm' = [fm EXCEPT !.pc = "demod"]
    /\ UNCHANGED <<decs, source, on, dec, fmQueue, ring, page, left, heard>>

\* process_decimated_samples gives up if the lock is taken.
FmDemod ==
    /\ fm.pc = "demod"
    /\ fm' = [fm EXCEPT !.pc = IF demod.lock = "free" /\ demod.enabled THEN "add" ELSE "top"]
    /\ UNCHANGED <<decs, source, on, dec, fmQueue, demod, ring, page, left, heard>>

\* AudioRingBuffer::write, first the loads and the copy ...
FmAdd ==
    /\ fm.pc = "add"
    /\ LET count == Lower(Block, Space(ring.write, ring.read)) IN
       IF demod.enabled
       THEN /\ ring' = [ring EXCEPT !.cells = Filled(@, ring.write, Samples(fm.item.n), count)]
            /\ fm' = [fm EXCEPT !.pc = "store", !.pos = (ring.write + count) % RingSize,
                                !.count = count]
            /\ heard' = [heard EXCEPT !.raced = @ \/ page.pc \in Clearing]
       ELSE UNCHANGED <<ring, heard>> /\ fm' = [fm EXCEPT !.pc = "top"]
    /\ UNCHANGED <<decs, source, on, dec, fmQueue, demod, page, left>>

\* ... then the store.
FmStore ==
    /\ fm.pc = "store"
    /\ ring' = [ring EXCEPT !.write = fm.pos]
    /\ fm' = [fm EXCEPT !.pc = "fill", !.pos = 0, !.count = 0]
    /\ heard' = [heard EXCEPT !.pending = @ \o SubSeq(Samples(fm.item.n), 1, fm.count),
                               !.enough = @ \/ Len(heard.pending) + fm.count >= FillTarget]
    /\ UNCHANGED <<decs, source, on, dec, fmQueue, demod, page, left>>

\* The fill is complete when there is enough: the look, and then, without the
\* lock and without another look, the flag.
FmFill ==
    /\ fm.pc = "fill"
    /\ fm' = [fm EXCEPT !.pc = IF ~ring.fill /\ Used(ring.write, ring.read) >= FillTarget
                               THEN "complete" ELSE "top"]
    /\ UNCHANGED <<decs, source, on, dec, fmQueue, demod, ring, page, left, heard>>

FmComplete ==
    /\ fm.pc = "complete"
    /\ ring' = [ring EXCEPT !.fill = TRUE]
    /\ fm' = [fm EXCEPT !.pc = "top"]
    /\ UNCHANGED <<decs, source, on, dec, fmQueue, demod, page, left, heard>>

-----------------------------------------------------------------------------
\* clear(): write_pos, then read_pos, then the fill flag.

Cleared(pc) ==
    CASE pc = "clear"     -> [ring EXCEPT !.write = 0]
      [] pc = "clearRead" -> [ring EXCEPT !.read = 0]
      [] pc = "clearFill" -> [ring EXCEPT !.fill = FALSE]
NextClear == [clear |-> "clearRead", clearRead |-> "clearFill"]

Unlocked(d)       == [d EXCEPT !.lock = "free"]

\* What was heard is of no account; a clear that ends with the FM thread between
\* its look and the flag will find the flag set again.
Emptied(pc) ==
    [heard EXCEPT !.pending = <<>>, !.enough = FALSE,
                  !.slipped = IF pc = "clearFill" THEN fm.pc = "complete" ELSE @]

FmClear ==
    /\ fm.pc \in Clearing
    /\ ring' = Cleared(fm.pc)
    /\ IF fm.pc = "clearFill"
       THEN fm' = [fm EXCEPT !.pc = "age"] /\ demod' = Unlocked(demod)
       ELSE fm' = [fm EXCEPT !.pc = NextClear[fm.pc]] /\ demod' = demod
    /\ heard' = Emptied(fm.pc)
    /\ UNCHANGED <<decs, source, on, dec, fmQueue, page, left>>

WebReset ==
    /\ page.pc = "reset" /\ demod.lock = "free"
    /\ demod' = [demod EXCEPT !.lock = "web"]
    /\ page' = [page EXCEPT !.pc = "clear"]
    /\ heard' = [heard EXCEPT !.raced = @ \/ fm.pc = "store"]
    /\ UNCHANGED <<decs, source, on, dec, fmQueue, fm, ring, left>>

WebClear ==
    /\ page.pc \in Clearing
    /\ ring' = Cleared(page.pc)
    /\ IF page.pc = "clearFill"
       THEN page' = [page EXCEPT !.pc = "idle"] /\ demod' = Unlocked(demod)
       ELSE page' = [page EXCEPT !.pc = NextClear[page.pc]] /\ demod' = demod
    /\ heard' = Emptied(page.pc)
    /\ UNCHANGED <<decs, source, on, dec, fmQueue, fm, left>>

-----------------------------------------------------------------------------
\* The web thread: the audio timer ...

Playable == on /\ demod.enabled /\ ring.fill

\* get_opus_packet: what is there, and silence for the rest.  Nothing played,
\* nothing changes, and the step is left out.
Play ==
    /\ page.pc = "idle" /\ Playable
    /\ LET count == Lower(PacketSize, Used(ring.write, ring.read)) IN
           /\ count > 0
           /\ page' = [page EXCEPT !.pc = "playStore", !.pos = ring.read, !.count = count]
    /\ heard' = [heard EXCEPT !.raced = @ \/ fm.pc \in Clearing]
    /\ UNCHANGED <<decs, source, on, dec, fmQueue, fm, demod, ring, left>>

PlayStore ==
    /\ page.pc = "playStore"
    /\ ring' = [ring EXCEPT !.read = (page.pos + page.count) % RingSize]
    /\ page' = [page EXCEPT !.pc = "idle", !.pos = 0, !.count = 0]
    /\ heard' = [heard EXCEPT !.pending = SubSeq(@, page.count + 1, Len(@))]
    /\ UNCHANGED <<decs, source, on, dec, fmQueue, fm, demod, left>>

\* ... and the commands.
Order(c) ==
    /\ page.pc = "idle" /\ c \in Commands /\ left > 0
    /\ left' = left - 1
    /\ UNCHANGED <<dec, fmQueue, fm, ring, heard>>

\* FM:1 and FM:0, which clears.
FmOn ==
    /\ Order("fm") /\ ~on
    /\ on' = TRUE /\ demod' = [demod EXCEPT !.enabled = TRUE]
    /\ UNCHANGED <<decs, source, page>>

FmSwitchOff ==
    /\ Order("fm") /\ on
    /\ on' = FALSE /\ demod' = [demod EXCEPT !.enabled = FALSE]
    /\ page' = [page EXCEPT !.pc = "reset"]
    /\ UNCHANGED <<decs, source>>

\* CHANNEL, FFT_SIZE, FFT_DECIMATION.
ResetAudio ==
    /\ Order("reset")
    /\ page' = [page EXCEPT !.pc = "reset"]
    /\ UNCHANGED <<decs, source, on, demod>>

\* SET_FM_DECIMATOR, with the mode of the decimator, if there is one.
SetSource ==
    /\ Order("source")
    /\ \E i \in Ids : source' = i
    /\ page' = [page EXCEPT !.pc = "reset"]
    /\ \E other \in BOOLEAN :
          demod' = IF decs[source'] # Absent /\ other THEN [demod EXCEPT !.need = TRUE] ELSE demod
    /\ UNCHANGED <<decs, on>>

\* BANDWIDTH: all decimators, then the demodulator.  DEMOD_MODE: that of the
\* source, and new filters.
SetAllRates ==
    /\ Order("bandwidth")
    /\ \E r \in Rates :
          /\ decs' = [i \in Ids |-> IF decs[i] = Absent THEN Absent ELSE r]
          /\ page' = IF decs[source] # Absent THEN [page EXCEPT !.pc = "rate", !.rate = r] ELSE page
    /\ UNCHANGED <<source, on, demod>>

SetMode ==
    /\ Order("mode")
    /\ \E r \in Rates :
          IF decs[source] = Absent THEN UNCHANGED <<decs, page>>
          ELSE /\ decs' = [decs EXCEPT ![source] = r]
               /\ page' = [page EXCEPT !.pc = "rate", !.rate = r]
    /\ \E other \in BOOLEAN : demod' = [demod EXCEPT !.need = @ \/ other]
    /\ UNCHANGED <<source, on>>

\* SET_DECIMATOR_BW: the decimator only.
SetRate ==
    /\ Order("rate")
    /\ \E i \in Existing, r \in Rates : r # decs[i] /\ decs' = [decs EXCEPT ![i] = r]
    /\ UNCHANGED <<source, on, demod, page>>

\* The three stores of setInputSampleRate.
WebRate ==
    /\ page.pc = "rate"
    /\ IF Asks(page.rate)
       THEN demod' = [demod EXCEPT !.rate = page.rate] /\ page' = [page EXCEPT !.pc = "ratio"]
       ELSE demod' = demod /\ page' = [page EXCEPT !.pc = "idle"]
    /\ UNCHANGED <<decs, source, on, dec, fmQueue, fm, ring, left, heard>>

WebRatio ==
    /\ page.pc = "ratio"
    /\ demod' = [demod EXCEPT !.ratio = page.rate]
    /\ page' = [page EXCEPT !.pc = "need"]
    /\ UNCHANGED <<decs, source, on, dec, fmQueue, fm, ring, left, heard>>

WebNeed ==
    /\ page.pc = "need"
    /\ demod' = [demod EXCEPT !.need = TRUE]
    /\ page' = [page EXCEPT !.pc = "idle", !.rate = Absent]
    /\ UNCHANGED <<decs, source, on, dec, fmQueue, fm, ring, left, heard>>

\* addDecimator takes the smallest free id and the bandwidth of the first.
FreeId == CHOOSE i \in Ids \ Existing : \A j \in Ids \ Existing : i <= j

AddDecimator ==
    /\ Order("list") /\ Existing # Ids
    /\ \E first \in Existing : decs' = [decs EXCEPT ![FreeId] = decs[first]]
    /\ UNCHANGED <<source, on, demod, page>>

\* The source moves to another decimator when its own goes.
SourceWithout(id, s) == IF s = id THEN Existing \ {id} ELSE {s}

\* removeDecimator: never the last.
RemoveDecimator ==
    /\ Order("list") /\ Cardinality(Existing) > 1
    /\ \E id \in Existing :
          /\ source' \in SourceWithout(id, source)
          /\ decs' = [decs EXCEPT ![id] = Absent]
    /\ UNCHANGED <<on, demod, page>>
-----------------------------------------------------------------------------
AudioInit ==
    /\ \E n \in Ids : decs = [i \in Ids |-> IF i <= n THEN Default ELSE Absent]
    /\ source = 0
    /\ on = TRUE
    /\ dec = [pc |-> "idle", n |-> 0, rate |-> Absent]
    /\ fmQueue = <<>>
    /\ fm = [pc |-> "top", item |-> [n |-> 0, rate |-> Absent, age |-> 0],
             timeouts |-> 0, last |-> Absent, pos |-> 0, count |-> 0]
    /\ demod = [enabled |-> TRUE, rate |-> Default, ratio |-> Default, need |-> FALSE,
                filters |-> [rate |-> Default, ratio |-> Default], lock |-> "free"]
    /\ ring = [write |-> 0, read |-> 0, cells |-> [i \in 0 .. RingSize - 1 |-> 0], fill |-> FALSE]
    /\ page = [pc |-> "idle", rate |-> Absent, pos |-> 0, count |-> 0]
    /\ heard = [pending |-> <<>>, enough |-> FALSE, raced |-> FALSE, slipped |-> FALSE]
    /\ left = MaxOrders

FmStep == \/ FmTop \/ FmTimeout \/ FmTake \/ FmReset \/ FmAge \/ FmRate \/ FmRatio \/ FmNeed
          \/ FmFilters \/ FmRecreate \/ FmDemod \/ FmAdd \/ FmStore \/ FmFill
          \/ FmComplete \/ FmClear
WebStep == WebReset \/ WebClear \/ PlayStore \/ WebRate \/ WebRatio \/ WebNeed
WebCommand == \/ FmOn \/ FmSwitchOff \/ ResetAudio \/ SetSource \/ SetAllRates \/ SetMode
              \/ SetRate \/ AddDecimator \/ RemoveDecimator

AudioNext == Launch \/ Enqueue \/ Age \/ FmStep \/ WebStep \/ Play \/ WebCommand

\* The FM thread, and the web thread inside a command, go on.
AudioSpec == AudioInit /\ [][AudioNext]_audioVars

-----------------------------------------------------------------------------
AudioTypeOK ==
    /\ decs \in [Ids -> Rates \cup {Absent}] /\ Existing # {} /\ source \in Ids
    /\ Len(fmQueue) <= FmQueueCap
    /\ {ring.write, ring.read} \subseteq 0 .. RingSize - 1
    /\ demod.lock \in {"free", "fm", "web"}
    /\ demod.lock = "fm" <=> fm.pc \in Clearing
    /\ demod.lock = "web" <=> page.pc \in Clearing

\* As long as no clear has overlapped a read or a write, what the ring holds,
\* full, empty or wrapped, is exactly what was taken since the last clear and not
\* yet played, in order: nothing is lost, played twice or overwritten unplayed.
RingIsQueue ==
    ~heard.raced /\ demod.lock = "free"
        => Taken(ring.cells, ring.read, Used(ring.write, ring.read)) = heard.pending

\* "Force buffer refill before audio resumes" (fm_demodulator.cpp:643): the audio
\* is let through only if enough was written since the ring was cleared.  The
\* code keeps this with two exceptions, which the property names: a clear that
\* overlapped a read or a write, and one that ended just when the FM thread had
\* looked at the ring and not yet set the flag, which then stands on an empty
\* ring.  The second exception ends with the next clear.
FillIsReal ==
    ring.fill /\ ~heard.raced /\ ~heard.slipped /\ demod.lock = "free" => heard.enough

\* The filters are those of the rate and ratio set, unless new ones are due or
\* a change is under way.
FilterIsCurrent ==
    demod.need \/ fm.pc \in {"ratio", "need", "recreate"} \/ page.pc \in {"ratio", "need"}
    \/ demod.filters = [rate |-> demod.rate, ratio |-> demod.ratio]

\* Taking away a decimator never leaves the audio without a source.
SourceOutlives ==
    [][decs[source] # Absent /\ (\E i \in Ids : decs[i] # Absent /\ decs'[i] = Absent)
          => decs'[source'] # Absent]_audioVars

\* The audio between its two threads is sound: lock, ring, refill and filters.
AudioSound ==
    /\ AudioTypeOK
    /\ RingIsQueue
    /\ FillIsReal
    /\ FilterIsCurrent
=============================================================================
