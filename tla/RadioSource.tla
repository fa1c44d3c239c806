----------------------------- MODULE RadioSource -----------------------------
(***************************************************************************)
(* The GNU Radio source block: the reader thread that takes packets from   *)
(* heimdall's data port, the frame queue, work() and the tags it puts on   *)
(* the stream, the control thread that keeps frequency and gain of the     *)
(* server at what the flowgraph asked for, and start() and stop().         *)
(*                                                                         *)
(* What a packet goes through on its connection is module DataLink; here   *)
(* packets arrive whole.  Frequency and gain are numbers that grow with    *)
(* every change the flowgraph makes.                                       *)
(***************************************************************************)
EXTENDS Integers, Sequences, FiniteSets

CONSTANTS
    QueueCap,     \* QUEUE_CAP
    FreeCap,      \* FREELIST_CAP
    CoherentOnly, \* d_coherent_only
    Metadata,     \* what the headers of packets can say
    MaxFrames,    \* bound: packets that become frames
    MaxEvents     \* bound: calls of start (after the first), set_freq and
                  \* set_gain, broken connections and restarts of the server

ASSUME RadioAssumption ==
    /\ {QueueCap, FreeCap} \subseteq Nat \ {0} /\ FreeCap >= QueueCap + 4
    /\ CoherentOnly \in BOOLEAN
    /\ Metadata \subseteq [freq : Nat \ {0}, noise : BOOLEAN, retuning : BOOLEAN, few : BOOLEAN]
    /\ {MaxFrames, MaxEvents} \subseteq Nat

VARIABLES
    block,    \* d_running, the phase of the scheduler's thread, runs, events
    receiver, \* the reader thread: its step, d_data_fd, packets so far
    frames,   \* d_queue, and the sizes of the freelist and of what is alive
    work,     \* d_cur_frame, how much of it is out, the tag, the last output
    wanted,   \* d_freq_mhz, d_gain_db
    cmds,     \* d_cmd_queue, and the commands the control thread holds
    ctrl,     \* the control thread: its step and d_ctrl_fd
    server    \* heimdall's control port: commands on their way, settings

radioVars == <<block, receiver, frames, work, wanted, cmds, ctrl, server>>

Settings == {"freq", "gain"}
None == [id |-> 0, freq |-> 0, noise |-> FALSE, run |-> 0]
Untagged == [freq |-> 0, noise |-> FALSE]
Command(k) == [key |-> k, value |-> wanted[k]]

-----------------------------------------------------------------------------
\* The reader thread.

ReaderGoes(pc) == receiver' = [receiver EXCEPT !.pc = pc]

\* try_connect gives a socket, then d_fd_mutex is taken to register it.
ReaderConnect ==
    /\ receiver.pc = "connect"
    /\ block.running
    /\ ReaderGoes("register")
    /\ UNCHANGED <<block, frames, work, wanted, cmds, ctrl, server>>

ReaderRegister ==
    /\ receiver.pc = "register"
    /\ receiver' = [receiver EXCEPT !.pc = "receive", !.fd = "open"]
    /\ UNCHANGED <<block, frames, work, wanted, cmds, ctrl, server>>

\* acquire_frame: a used frame if there is one, else a new one.
Acquired(f) == IF f.free > 0 THEN [f EXCEPT !.free = @ - 1]
               ELSE [f EXCEPT !.alive = @ + 1]

\* release_frame: kept for use, or freed when there are enough.
Released(f) == IF f.free < FreeCap THEN [f EXCEPT !.free = @ + 1]
               ELSE [f EXCEPT !.alive = @ - 1]

\* push_frame: the oldest frame of a full queue goes.
Pushed(f, frame) ==
    IF Len(f.queue) >= QueueCap
    THEN Released([f EXCEPT !.queue = Append(Tail(@), frame)])
    ELSE [f EXCEPT !.queue = Append(@, frame)]

\* process_packet: packets with calibration noise or of a retune are left out
\* of a coherent stream, those with too few channels out of any: they leave no trace.
Unwanted(m) == m.few \/ (CoherentOnly /\ (m.noise \/ m.retuning))

ReaderPacket ==
    /\ receiver.pc = "receive"
    /\ receiver.packets < MaxFrames
    /\ \E m \in Metadata :
          /\ ~Unwanted(m)
          /\ frames' = Pushed(Acquired(frames),
                              [id |-> receiver.packets + 1, freq |-> m.freq,
                               noise |-> m.noise, run |-> block.runs])
    /\ receiver' = [receiver EXCEPT !.packets = @ + 1]
    /\ UNCHANGED <<block, work, wanted, cmds, ctrl, server>>

\* recv returns within its 500 ms, at once after a shutdown; with d_running
\* down the thread leaves both loops, and closes its socket.
ReaderSeesStop == receiver.pc \in {"connect", "receive"}

ReaderQuit ==
    /\ ~block.running
    /\ ReaderSeesStop
    /\ receiver' = [receiver EXCEPT !.pc = "off", !.fd = "closed"]
    /\ UNCHANGED <<block, frames, work, wanted, cmds, ctrl, server>>

\* The connection breaks, the thread connects again.
ReaderBreak ==
    /\ receiver.pc = "receive"
    /\ block.events < MaxEvents
    /\ block' = [block EXCEPT !.events = @ + 1]
    /\ receiver' = [receiver EXCEPT !.pc = "connect", !.fd = "closed"]
    /\ UNCHANGED <<frames, work, wanted, cmds, ctrl, server>>

-----------------------------------------------------------------------------
\* The thread of the scheduler: start, work, stop.

\* What is queued or half out is let go, the freelist stays.
Restarted(f) == [queue |-> <<>>, free |-> f.free, alive |-> f.free]

Start ==
    /\ block.phase = "stopped"
    /\ block.runs > 0 => block.events < MaxEvents
    /\ block' = [block EXCEPT !.running = TRUE, !.phase = "running", !.runs = @ + 1,
                              !.events = IF block.runs > 0 THEN @ + 1 ELSE @]
    /\ frames' = Restarted(frames)
    /\ work' = [work EXCEPT !.frame = None, !.tagged = FALSE]
    /\ receiver' = [receiver EXCEPT !.pc = "connect"]
    /\ ctrl' = [ctrl EXCEPT !.pc = "connect"]
    /\ UNCHANGED <<wanted, cmds, server>>

\* ... only a change of the frequency is tagged
NeedsTag_Frequency(frame) == ~work.tagged \/ work.tag.freq # frame.freq

\* The metadata of a frame are tagged when they are not those of the last tag.
NeedsTag(frame) ==
    ~work.tagged \/ work.tag # [freq |-> frame.freq, noise |-> frame.noise]

\* work takes the next frame, tags it if needed, and puts out its first half ...
WorkTake ==
    /\ block.phase = "running"
    /\ work.frame = None
    /\ frames.queue # <<>>
    /\ LET frame == Head(frames.queue) IN
       work' = [frame  |-> frame, tagged |-> TRUE,
                tag    |-> IF NeedsTag(frame)
                           THEN [freq |-> frame.freq, noise |-> frame.noise]
                           ELSE work.tag,
                last   |-> frame.id]
    /\ frames' = [frames EXCEPT !.queue = Tail(@)]
    /\ UNCHANGED <<block, receiver, wanted, cmds, ctrl, server>>

\* ... and in a later call the rest; the frame is then released.
WorkRest ==
    /\ block.phase = "running"
    /\ work.frame # None
    /\ work' = [work EXCEPT !.frame = None]
    /\ frames' = Released(frames)
    /\ UNCHANGED <<block, receiver, wanted, cmds, ctrl, server>>

\* stop: d_running falls, waiting threads are woken, the sockets that are
\* registered are shut down ...
Stop ==
    /\ block.phase = "running"
    /\ block' = [block EXCEPT !.running = FALSE, !.phase = "stopping"]
    /\ receiver' = [receiver EXCEPT !.fd = IF @ = "open" THEN "shut" ELSE @]
    /\ UNCHANGED <<frames, work, wanted, cmds, ctrl, server>>

\* ... and the threads joined.
Joined ==
    /\ block.phase = "stopping"
    /\ receiver.pc = "off" /\ ctrl.pc = "off"
    /\ block' = [block EXCEPT !.phase = "stopped"]
    /\ UNCHANGED <<receiver, frames, work, wanted, cmds, ctrl, server>>

-----------------------------------------------------------------------------
\* The settings.

\* set_freq and set_gain, from any thread, at any time.
Set(k) ==
    /\ block.events < MaxEvents
    /\ block' = [block EXCEPT !.events = @ + 1]
    /\ wanted' = [wanted EXCEPT ![k] = @ + 1]
    /\ cmds' = [cmds EXCEPT !.queue = Append(@, [key |-> k, value |-> wanted[k] + 1])]
    /\ UNCHANGED <<receiver, frames, work, ctrl, server>>

\* ... commands queued before the connection are sent after the values of now
Resync_Appends == [queue |-> <<>>, held |-> <<Command("freq"), Command("gain")>> \o cmds.queue]

\* The queued commands are dropped in favour of the values of now, under
\* d_cmd_mutex ...
Resync == [queue |-> <<>>, held |-> <<Command("freq"), Command("gain")>>]

\* ... when control_loop has connected.
CtrlConnect ==
    /\ ctrl.pc = "connect"
    /\ block.running
    /\ ctrl' = [ctrl EXCEPT !.pc = "send", !.up = TRUE]
    /\ cmds' = Resync
    /\ UNCHANGED <<block, receiver, frames, work, wanted, server>>

\* send_all of the next command it holds; after the last it polls again.
CtrlSend ==
    /\ ctrl.pc = "send"
    /\ ctrl.up
    /\ server' = [server EXCEPT !.wire = Append(@, Head(cmds.held))]
    /\ cmds' = [cmds EXCEPT !.held = Tail(@)]
    /\ ctrl' = IF Len(cmds.held) = 1 THEN [ctrl EXCEPT !.pc = "poll"] ELSE ctrl
    /\ UNCHANGED <<block, receiver, frames, work, wanted>>

\* A send or a recv finds the connection broken: it is closed, and what is
\* still held is lost.
CtrlLost ==
    /\ ctrl.pc \in {"send", "poll"}
    /\ ~ctrl.up
    /\ ctrl' = [ctrl EXCEPT !.pc = "connect"]
    /\ cmds' = [cmds EXCEPT !.held = <<>>]
    /\ UNCHANGED <<block, receiver, frames, work, wanted, server>>

\* After the poll, woken by the pipe or after 200 ms, the queue is swapped out.
CtrlPoll ==
    /\ ctrl.pc = "poll"
    /\ block.running
    /\ cmds.queue # <<>>
    /\ cmds' = [queue |-> <<>>, held |-> cmds.queue]
    /\ ctrl' = [ctrl EXCEPT !.pc = "send"]
    /\ UNCHANGED <<block, receiver, frames, work, wanted, server>>

CtrlQuit ==
    /\ ~block.running
    /\ ctrl.pc \in {"connect", "poll"}
    /\ ctrl' = [pc |-> "off", up |-> FALSE]
    /\ UNCHANGED <<block, receiver, frames, work, wanted, cmds, server>>

\* The server takes a command.
ServerApply ==
    /\ server.wire # <<>>
    /\ server' = [wire |-> Tail(server.wire),
                  set |-> [server.set EXCEPT ![Head(server.wire).key] = Head(server.wire).value]]
    /\ UNCHANGED <<block, receiver, frames, work, wanted, cmds, ctrl>>

\* The control connection breaks, with some of what is on its way lost; or the
\* server has been restarted and is at its own settings again.
CtrlBreak ==
    /\ ctrl.up
    /\ block.events < MaxEvents
    /\ block' = [block EXCEPT !.events = @ + 1]
    /\ ctrl' = [ctrl EXCEPT !.up = FALSE]
    /\ \/ \E n \in 0 .. Len(server.wire) :
             server' = [server EXCEPT !.wire = SubSeq(@, 1, n)]
       \/ server' = [wire |-> <<>>, set |-> [k \in Settings |-> 0]]
    /\ UNCHANGED <<receiver, frames, work, wanted, cmds>>

-----------------------------------------------------------------------------
RadioInit ==
    /\ block = [running |-> FALSE, phase |-> "stopped", runs |-> 0, events |-> 0]
    /\ receiver = [pc |-> "off", fd |-> "closed", packets |-> 0]
    /\ frames = [queue |-> <<>>, free |-> 0, alive |-> 0]
    /\ work = [frame |-> None, tagged |-> FALSE, tag |-> Untagged, last |-> 0]
    /\ wanted = [k \in Settings |-> 1]
    /\ cmds = [queue |-> <<>>, held |-> <<>>]
    /\ ctrl = [pc |-> "off", up |-> FALSE]
    \* heimdall may have these settings already, from before
    /\ \E s \in {0, 1} : server = [wire |-> <<>>, set |-> [k \in Settings |-> s]]

Reader    == ReaderConnect \/ ReaderRegister \/ ReaderPacket \/ ReaderQuit
Scheduler == Start \/ WorkTake \/ WorkRest \/ Stop \/ Joined
Control   == CtrlConnect \/ CtrlSend \/ CtrlLost \/ CtrlPoll \/ CtrlQuit

RadioNext ==
    \/ Reader \/ ReaderBreak \/ Scheduler \/ Control \/ CtrlBreak \/ ServerApply
    \/ \E k \in Settings : Set(k)

RadioSpec == RadioInit /\ [][RadioNext]_radioVars

\* Threads are scheduled; the flowgraph need not start, stop or set anything.
RadioLiveSpec ==
    /\ RadioSpec
    /\ WF_radioVars(ReaderConnect \/ ReaderRegister \/ ReaderQuit)
    /\ WF_radioVars(Control) /\ WF_radioVars(Joined) /\ WF_radioVars(ServerApply)

-----------------------------------------------------------------------------
RadioTypeOK ==
    /\ block.phase \in {"stopped", "running", "stopping"}
    /\ block.running = (block.phase = "running")
    /\ receiver.pc \in {"off", "connect", "register", "receive"}
    /\ receiver.fd \in {"closed", "open", "shut"}
    /\ Len(frames.queue) <= QueueCap /\ frames.free \in 0 .. FreeCap
    /\ frames.alive = frames.free + Len(frames.queue)
                      + (IF work.frame = None THEN 0 ELSE 1)
    /\ ctrl.pc \in {"off", "connect", "send", "poll"}

\* The frames that exist never outnumber the full queue, the one in work() and
\* the one being filled: the freelist is used before memory is.
FramesBounded == frames.alive <= QueueCap + 2

\* The samples that are put out are those of the last tag, over frames that
\* were dropped, gated or lost with a connection, and over restarts.
TagsTrue == work.frame # None =>
    work.tagged /\ work.tag = [freq |-> work.frame.freq, noise |-> work.frame.noise]

\* Frames come out in the order they were received and only in the run they
\* were received in.
FramesInOrder ==
    [][work'.last # work.last =>
          work.last < work'.last /\ work'.frame.run = block.runs]_radioVars

\* The server never goes back to a setting the flowgraph has replaced, but by
\* a restart of its own.
NeverBack ==
    [][\A k \in Settings : server'.set[k] >= server.set[k] \/ server'.set[k] = 0]_radioVars

\* In the end the server has the settings that were asked for last, whatever
\* was queued, held or on its way when a connection broke.
SettingsArrive ==
    <>[](block.running => server.set = wanted)

\* stop() returns, even when it finds a socket that is not yet registered.
StopEnds == block.phase = "stopping" ~> block.phase = "stopped"

\* The block's frames are accounted for and come out under their tags.
RadioSound ==
    /\ RadioTypeOK
    /\ FramesBounded
    /\ TagsTrue
=============================================================================
