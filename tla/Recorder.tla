------------------------------ MODULE Recorder ------------------------------
(***************************************************************************)
(* The recording of bearings on the device (DoaLogger): a thread that polls  *)
(* the decimators, captures what is new and due and appends it to a file, a  *)
(* CSV or a SQLite one; the web thread that starts, stops and deletes; and   *)
(* the power cuts and write errors the file has to survive.                  *)
(*                                                                           *)
(* A frame of MUSIC is its number, which stands for its bearing and for its  *)
(* stamp: the two are read one after the other.  A file is the records that  *)
(* have been written to it, of which the first so many are on the medium.    *)
(***************************************************************************)
EXTENDS Integers, Sequences, FiniteSets, SequencesExt, Functions

CONSTANTS
    LogDecs,       \* decimators, in the order of the list
    Files,         \* names of recordings
    SyncTicks,     \* SYNC_INTERVAL_MS, in ticks of the clock
    MaxLogEvents   \* bound: frames, settings, deletions, new starts, calibrations,
                   \* errors and power cuts together

ASSUME RecorderAssumption ==
    /\ LogDecs \subseteq Nat /\ IsFiniteSet(LogDecs) /\ Files # {}
    /\ {SyncTicks, MaxLogEvents} \subseteq Nat /\ SyncTicks > 0

VARIABLES
    published,     \* the last frame each decimator has published, 0 for none
    noise,     \* doa_is_calibrating
    conf,      \* format_ and filename_
    rec,       \* running_, the active format and file, entry_count_, the session, and
               \* as history how many of its entries were counted and are not there
    stage,     \* the logger thread: pc, what it has captured, whose turn it is
    stamps,    \* last_stamp_
    waits,     \* decimators whose interval has not passed since last_write_ms_
    sync,      \* dirty_since_sync_, ticks since last_sync_ms_, looped since the tick
    files,     \* the recordings: records, how many are on the medium
    late,      \* history: ticks since the first record that is not on the medium
    asking,    \* the web thread: idle, or in stop()
    torn,      \* history: a CSV write of this session has failed half way
    chances    \* events left

recVars == <<published, noise, conf, rec, stage, stamps, waits, sync, files, late, asking,
             torn, chances>>

Nothing == [kind |-> "none", recs |-> <<>>, kept |-> 0]
Asleep == [pc |-> "none", got |-> <<>>, next |-> {}]
Event == chances > 0 /\ chances' = chances - 1
Lowest(S) == CHOOSE x \in S : \A y \in S : x <= y

-----------------------------------------------------------------------------
\* What surrounds the recorder.

Publish(d) ==
    /\ Event
    /\ published' = [published EXCEPT ![d] = @ + 1]
    /\ UNCHANGED <<noise, conf, rec, stage, stamps, waits, sync, files, late, asking, torn>>

NoiseTurns ==
    /\ noise' = ~noise /\ (noise' => chances > 0)
    /\ chances' = IF noise' THEN chances - 1 ELSE chances
    /\ UNCHANGED <<published, conf, rec, stage, stamps, waits, sync, files, late, asking, torn>>

IntervalPasses ==
    /\ \E d \in waits : waits' = waits \ {d}
    /\ UNCHANGED <<published, noise, conf, rec, stage, stamps, sync, files, late, asking, torn, chances>>

\* A tick is long: the thread goes round its loop in it, if there is one.
Tick ==
    /\ asking = "idle"
    /\ stage.pc = "none" \/ (stage.pc = "top" /\ sync.looped)
    /\ late > 0 \/ sync.since < SyncTicks
    /\ sync' = [sync EXCEPT !.since = IF @ < SyncTicks THEN @ + 1 ELSE @, !.looped = FALSE]
    /\ late' = IF late = 0 THEN 0 ELSE late + 1
    /\ UNCHANGED <<published, noise, conf, rec, stage, stamps, waits, files, asking, torn, chances>>

-----------------------------------------------------------------------------
\* The thread.

\* What is written reaches the medium: the results of fsync and of the
\* checkpoint are ignored too, and both are taken to succeed.
Synced(f) == [files EXCEPT ![f].kept = Len(files[f].recs)]

MaySync_Quiet == sync.dirty /\ sync.since >= SyncTicks /\ ~noise
MaySync == sync.dirty /\ sync.since >= SyncTicks

\* Whether a frame with this stamp is to be written.
Due(d, stamp) == stamps[d] # stamp /\ d \notin waits

AnyDue == \E d \in LogDecs : published[d] # 0 /\ Due(d, published[d])

\* The loop: the periodic sync, and whether there is anything to capture.
LoopTop ==
    /\ stage.pc = "top" /\ rec.running
    /\ stage' = IF ~noise /\ AnyDue
                THEN [pc |-> "bearing", got |-> <<>>, next |-> {d \in LogDecs : published[d] # 0}]
                ELSE stage
    /\ IF MaySync
       THEN /\ sync' = [dirty |-> FALSE, since |-> 0, looped |-> TRUE]
            /\ files' = Synced(rec.file) /\ late' = 0
       ELSE sync' = [sync EXCEPT !.looped = TRUE] /\ UNCHANGED <<files, late>>
    /\ UNCHANGED <<published, noise, conf, rec, stamps, waits, asking, torn, chances>>

LoopEnds ==
    /\ stage.pc = "top" /\ ~rec.running
    /\ stage' = Asleep
    /\ UNCHANGED <<published, noise, conf, rec, stamps, waits, sync, files, late, asking, torn, chances>>

\* capture_doa_records: the bearing of each decimator that has one, and then
\* the stamp, which may by then be that of the next frame.
CaptureBearing ==
    /\ stage.pc = "bearing"
    /\ LET d == Lowest(stage.next) IN
       stage' = [stage EXCEPT !.pc = "stamp",
                              !.got = Append(@, [dec |-> d, frame |-> published[d], stamp |-> 0])]
    /\ UNCHANGED <<published, noise, conf, rec, stamps, waits, sync, files, late, asking, torn, chances>>

CaptureStamp ==
    /\ stage.pc = "stamp"
    /\ LET d == Lowest(stage.next) IN
       stage' = [pc |-> IF stage.next = {d} THEN "write" ELSE "bearing",
                 got |-> [stage.got EXCEPT ![Len(stage.got)].stamp = published[d]],
                 next |-> stage.next \ {d}]
    /\ UNCHANGED <<published, noise, conf, rec, stamps, waits, sync, files, late, asking, torn, chances>>

\* The captured records that are due, and their list: in the order of capture,
\* which is that of the decimators.
ToWrite == {r \in ToSet(stage.got) : Due(r.dec, r.stamp)}
Listed(S) == {rs \in [1 .. Cardinality(S) -> S] : \A i, j \in DOMAIN rs : i < j => rs[i].dec < rs[j].dec}

Entry(r) == [dec |-> r.dec, frame |-> r.frame, stamp |-> r.stamp, run |-> rec.run]
Appended(rs) == [files EXCEPT ![rec.file].recs = @ \o [i \in DOMAIN rs |-> Entry(rs[i])]]

\* What the thread keeps of a write that it takes for a success.
Counted ==
    /\ stage.pc = "write"
    /\ stage' = [stage EXCEPT !.pc = "top", !.got = <<>>]
    /\ stamps' = [d \in LogDecs |-> IF \E r \in ToWrite : r.dec = d
                                    THEN (CHOOSE r \in ToWrite : r.dec = d).stamp
                                    ELSE stamps[d]]
    /\ waits' = waits \cup {r.dec : r \in ToWrite}
    /\ sync' = [sync EXCEPT !.dirty = @ \/ ToWrite # {}]
    /\ UNCHANGED <<published, noise, conf, asking, torn>>

\* These records go into the file, and all that were due into the count.
Enter(rs) ==
    /\ files' = Appended(rs)
    /\ late' = (IF late = 0 /\ rs # <<>> THEN 1 ELSE late)
    /\ rec' = [rec EXCEPT !.entries = @ + Cardinality(ToWrite),
                          !.lost = @ + (Cardinality(ToWrite) - Len(rs))]

WriteRecords ==
    /\ Counted
    /\ \E rs \in Listed(ToWrite) : Enter(rs)
    /\ UNCHANGED chances

\* Of a database a failed write leaves nothing, for the transaction is rolled
\* back; in a CSV file some first lines stay.
Rest(rs) == IF rec.format = "csv" THEN rs ELSE <<>>

\* The COMMIT or the fflush fails, and nobody looks at its result: the records
\* are counted and remembered as written.
WriteIsLost ==
    /\ Counted /\ ToWrite # {} /\ Event
    /\ \E rs \in Listed(ToWrite) : \E n \in 0 .. Cardinality(ToWrite) - 1 :
          Enter(Rest(SubSeq(rs, 1, n)))

\* An insert or fputs fails, which is noticed: nothing is counted, and all are
\* written again.
WriteFails ==
    /\ stage.pc = "write" /\ ToWrite # {} /\ Event
    /\ stage' = [stage EXCEPT !.pc = "top", !.got = <<>>]
    /\ \E rs \in Listed(ToWrite) : \E n \in 0 .. Cardinality(ToWrite) - 1 :
          files' = Appended(Rest(SubSeq(rs, 1, n)))
    /\ torn' = (torn \/ rec.format = "csv")
    /\ UNCHANGED <<published, noise, conf, rec, stamps, waits, sync, late, asking>>

LoggerStep == LoopTop \/ LoopEnds \/ CaptureBearing \/ CaptureStamp \/ WriteRecords

-----------------------------------------------------------------------------
\* The web thread.

\* setFormat and setFilename.
Configure(c) ==
    /\ asking = "idle" /\ Event /\ conf' = c
    /\ (c.format = conf.format) # (c.file = conf.file)
    /\ UNCHANGED <<published, noise, rec, stage, stamps, waits, sync, files, late, asking, torn>>

\* openSink: what is there is appended to, unless it is no database. A text
\* recording is taken not to be given the name of a database.
MayOpen(f) == files[f].kind \in {"none", conf.format} \/ files[f].recs = <<>>

\* start(): a new session.
StartLogging ==
    /\ asking = "idle" /\ ~rec.running /\ MayOpen(conf.file)
    /\ IF rec.run = 0 THEN UNCHANGED chances ELSE Event
    /\ rec' = [running |-> TRUE, format |-> conf.format, file |-> conf.file, entries |-> 0,
               lost |-> 0, run |-> rec.run + 1]
    /\ stage' = [Asleep EXCEPT !.pc = "top"]
    /\ stamps' = [d \in LogDecs |-> 0] /\ waits' = {}
    /\ sync' = [dirty |-> FALSE, since |-> 0, looped |-> FALSE]
    /\ files' = [files EXCEPT ![conf.file].kind = conf.format]
    /\ torn' = FALSE
    /\ UNCHANGED <<published, noise, conf, late, asking>>

\* stop(): the flag, the join and the last flush.
StopLogging ==
    /\ asking = "idle" /\ rec.running
    /\ asking' = "joining" /\ rec' = [rec EXCEPT !.running = FALSE]
    /\ UNCHANGED <<published, noise, conf, stage, stamps, waits, sync, files, late, torn, chances>>

MayClose == stage.pc = "none"

CloseSink ==
    /\ asking = "joining" /\ MayClose
    /\ asking' = "idle"
    /\ files' = Synced(rec.file) /\ late' = 0
    /\ UNCHANGED <<published, noise, conf, rec, stage, stamps, waits, sync, torn, chances>>

MayDelete(f) == ~(rec.running /\ f = rec.file)

\* doa_delete_recording: the file and what a database keeps beside it.
Erased(f) == [files EXCEPT ![f] = Nothing]

DeleteRecording(f) ==
    /\ asking = "idle" /\ files[f].kind # "none" /\ MayDelete(f) /\ Event
    /\ files' = Erased(f)
    /\ UNCHANGED <<published, noise, conf, rec, stage, stamps, waits, sync, late, asking, torn>>

\* The power goes: of what is not on the medium a prefix may be.
PowerCut ==
    /\ Event
    /\ \E n \in files[rec.file].kept .. Len(files[rec.file].recs) :
          files' = [files EXCEPT ![rec.file].recs = SubSeq(@, 1, n), ![rec.file].kept = n]
    /\ rec' = [rec EXCEPT !.running = FALSE, !.entries = 0, !.lost = 0]
    /\ stage' = Asleep /\ asking' = "idle" /\ late' = 0
    /\ published' = [d \in LogDecs |-> 0]
    /\ sync' = [dirty |-> FALSE, since |-> 0, looped |-> FALSE]
    /\ UNCHANGED <<noise, conf, stamps, waits, torn>>

WebStep ==
    \/ \E c \in [format : {"csv", "sqlite"}, file : Files] : Configure(c)
    \/ StartLogging \/ StopLogging \/ CloseSink
    \/ \E f \in Files : DeleteRecording(f)

-----------------------------------------------------------------------------
RecInit ==
    /\ published = [d \in LogDecs |-> 0] /\ noise = FALSE
    /\ conf \in [format : {"csv", "sqlite"}, file : Files]
    /\ rec = [running |-> FALSE, format |-> conf.format, file |-> conf.file, entries |-> 0,
              lost |-> 0, run |-> 0]
    /\ stage = Asleep
    /\ stamps = [d \in LogDecs |-> 0] /\ waits = {}
    /\ sync = [dirty |-> FALSE, since |-> 0, looped |-> FALSE]
    /\ files = [f \in Files |-> Nothing] /\ late = 0
    /\ asking = "idle" /\ torn = FALSE /\ chances = MaxLogEvents

RecNext ==
    \/ \E d \in LogDecs : Publish(d)
    \/ NoiseTurns \/ IntervalPasses \/ Tick \/ LoggerStep \/ WriteIsLost \/ WriteFails
    \/ WebStep \/ PowerCut

RecFairness ==
    /\ WF_recVars(LoggerStep) /\ WF_recVars(NoiseTurns) /\ WF_recVars(IntervalPasses)

RecSpec == RecInit /\ [][RecNext]_recVars /\ RecFairness

-----------------------------------------------------------------------------
\* Types, and the records of a capture in the order of the list.
RecTypeOK ==
    /\ published \in [LogDecs -> Nat] /\ stamps \in [LogDecs -> Nat]
    /\ waits \subseteq LogDecs /\ stage.next \subseteq LogDecs
    /\ stage.pc \in {"none", "top", "bearing", "stamp", "write"}
    /\ asking \in {"idle", "joining"} /\ rec.file \in Files
    /\ \A i, j \in DOMAIN stage.got : i < j => stage.got[i].dec < stage.got[j].dec
    /\ \A f \in Files : files[f].kind \in {"none", "csv", "sqlite"} /\ files[f].kept <= Len(files[f].recs)

(***************************************************************************)
(* The records of a session go forward: those of a decimator under ever later  *)
(* stamps, and none with a bearing older than the stamp of the one before it,   *)
(* so that a bearing is logged twice at most: under its own stamp, and once     *)
(* more when the next frame is published between the look at the bearing and    *)
(* the look at the stamp (capture_doa_records), while another decimator was the  *)
(* one that was due.  A CSV write that fails half way, and is noticed, is an     *)
(* exception: its first lines are written again.                                 *)
(***************************************************************************)
RecordsAdvance ==
    \A f \in Files : \A j \in DOMAIN files[f].recs :
        LET r == files[f].recs[j] IN
        /\ r.frame <= r.stamp
        /\ ~torn /\ r.run = rec.run =>
            \A i \in 1 .. j - 1 :
                LET q == files[f].recs[i] IN
                q.run = r.run /\ q.dec = r.dec => q.stamp < r.stamp /\ q.stamp <= r.frame

(***************************************************************************)
(* The count published to the user is what the file has got of this session    *)
(* and what a failed COMMIT or fflush has taken unnoticed: nothing is counted   *)
(* that was rolled back with notice, nothing counted twice, nothing deleted     *)
(* under it (entry_count_, the refusal in LOG_DELETE).                          *)
(***************************************************************************)
OfThisSession == {i \in DOMAIN files[rec.file].recs : files[rec.file].recs[i].run = rec.run}
CountedIsThere ==
    /\ rec.running => files[rec.file].kind # "none"
    /\ rec.running /\ ~torn => Cardinality(OfThisSession) + rec.lost = rec.entries

(***************************************************************************)
(* A power cut takes only what was written in the last interval, also when     *)
(* nothing is written any more and while a calibration goes on (loggerThread). *)
(***************************************************************************)
LossBounded == late <= SyncTicks + 1

\* After a stop the file is complete and on the medium, with no thread left
\* that would write to it (stop, closeSink).
StoppedIsSafe ==
    (~rec.running /\ asking = "idle") =>
        stage.pc = "none" /\ files[rec.file].kept = Len(files[rec.file].recs)

(***************************************************************************)
(* While a recording goes on every decimator's last frame gets its record,      *)
(* whatever the others do (the pre-check and the second test of loggerThread),   *)
(* but for what a failed COMMIT or fflush took.                                  *)
(***************************************************************************)
HasRecord(d) ==
    \E i \in OfThisSession : LET r == files[rec.file].recs[i] IN r.dec = d /\ r.stamp = published[d]

FramesAreLogged ==
    \A d \in LogDecs :
        <>[]rec.running =>
            <>[](stamps[d] = published[d] /\ (published[d] = 0 \/ rec.lost > 0 \/ HasRecord(d)))

\* What a recording holds, what is counted of it, and what a power cut leaves.
RecordingSound ==
    /\ RecTypeOK
    /\ RecordsAdvance
    /\ CountedIsThere
    /\ LossBounded
    /\ StoppedIsSafe
=============================================================================
