---------------------------- MODULE LinksProofs ----------------------------
(***************************************************************************)
(* What leaves the two programs, for every number of readers, every length *)
(* of a packet, room of a socket, cap of a queue, set of decimators, files *)
(* and keys and every bound: a reader gets a PacketStream, the rtl_tcp     *)
(* client whole blocks in order, the GNU Radio block puts out its samples  *)
(* under their tags, a recording holds what is counted, and the map output *)
(* does what it was configured to and asked for.                           *)
(*                                                                         *)
(* On a connection what a reader has buffered and what is on its way make  *)
(* one line of packets.  Linked says that the words of the line, taken     *)
(* from its first, are packets that follow each other, but for the end of  *)
(* the last; Follows that the first of them is the one the reader waits    *)
(* for; Open that a connection which still gets packets has them whole.    *)
(***************************************************************************)
EXTENDS MCLinks, SequenceTheorems, FiniteSetTheorems, NaturalsInduction, WellFoundedInduction, TLAPS

-----------------------------------------------------------------------------
(* The GNU Radio block: what its variables hold. *)

Frame == [id : Nat, freq : Nat, noise : BOOLEAN, run : Nat]
Cmd == [key : Settings, value : Nat]
BlockType == [running : BOOLEAN, phase : {"stopped", "running", "stopping"},
              runs : Nat, events : Nat]
RadioTypes ==
    /\ block \in BlockType
    /\ receiver \in [pc : {"off", "connect", "register", "receive"},
                     fd : {"closed", "open", "shut"}, packets : Nat]
    /\ frames \in [queue : Seq(Frame), free : Nat, alive : Nat]
    /\ work \in [frame : Frame, tagged : BOOLEAN, tag : [freq : Nat, noise : BOOLEAN],
                 last : Nat]
    /\ wanted \in [Settings -> Nat]
    /\ cmds \in [queue : Seq(Cmd), held : Seq(Cmd)]
    /\ ctrl \in [pc : {"off", "connect", "send", "poll"}, up : BOOLEAN]
    /\ server \in [wire : Seq(Cmd), set : [Settings -> Nat]]
    /\ ctrl.pc = "send" => cmds.held # <<>>

\* The frames that wait were received in this run, one after the other, after
\* the one that is out.
Queued ==
    /\ work.last <= receiver.packets
    /\ \A i \in DOMAIN frames.queue :
          LET frame == frames.queue[i] IN
          /\ frame.id > work.last /\ frame.id <= receiver.packets /\ frame.run = block.runs
          /\ \A j \in DOMAIN frames.queue : i < j => frame.id < frames.queue[j].id

\* Commands go forward on the way from the flowgraph to the server.
Rising(s) ==
    \A i, j \in DOMAIN s : i < j /\ s[i].key = s[j].key => s[i].value <= s[j].value
Before(s, t) ==
    \A i \in DOMAIN s, j \in DOMAIN t : s[i].key = t[j].key => s[i].value <= t[j].value
Within(s) ==
    \A i \in DOMAIN s : server.set[s[i].key] <= s[i].value /\ s[i].value <= wanted[s[i].key]
OnTheWay ==
    /\ \A k \in Settings : server.set[k] <= wanted[k]
    /\ Within(server.wire) /\ Within(cmds.held) /\ Within(cmds.queue)
    /\ Rising(server.wire) /\ Rising(cmds.held) /\ Rising(cmds.queue)
    /\ Before(server.wire, cmds.held) /\ Before(server.wire, cmds.queue)
    /\ Before(cmds.held, cmds.queue)

RadioInv == RadioTypes /\ RadioSound /\ Queued /\ OnTheWay

-----------------------------------------------------------------------------
(* The rtl_tcp server. *)

Item == [b : Nat, for : Nat]
RtlTypes ==
    /\ conv \in [pc : {"data", "check", "add"}, next : 1 .. MaxPackets + 1, for : 0 .. MaxRtl]
    /\ conv.pc # "data" => conv.next <= MaxPackets
    /\ rtl \in [pc : {"accept", "greet", "work", "close", "clear"}, conn : 0 .. MaxRtl,
                socket : BOOLEAN, up : BOOLEAN,
                got : {<<>>, <<"RTL0">>} \cup (Nat \X {1, 2} \X Nat)]
    /\ queue \in [list : Seq(Item), count : Nat,
                  sending : {<<>>} \cup (Item \X {1, 2})]

\* What a step of the list does not change: it is counted, and served in order.
ListOrdered ==
    /\ \A i \in DOMAIN queue.list :
          /\ queue.list[i].b < conv.next
          /\ \A j \in DOMAIN queue.list : i < j => queue.list[i].b < queue.list[j].b
    /\ queue.sending # <<>> =>
          /\ rtl.pc = "work" /\ queue.sending[1].b < conv.next
          /\ \A i \in DOMAIN queue.list : queue.sending[1].b < queue.list[i].b
    /\ Len(rtl.got) = 3 => rtl.got[1] < conv.next

\* Where the client is in a block.
InBlock ==
    /\ rtl.pc = "greet" => rtl.got = <<>>
    /\ rtl.pc = "work" =>
        /\ queue.sending = <<>> /\ Len(rtl.got) = 3 =>
              /\ rtl.got[2] = 2
              /\ \A i \in DOMAIN queue.list : rtl.got[1] < queue.list[i].b
        /\ queue.sending # <<>> /\ queue.sending[2] = 1 /\ Len(rtl.got) = 3 =>
              rtl.got[2] = 2 /\ rtl.got[1] < queue.sending[1].b
        /\ queue.sending # <<>> /\ queue.sending[2] = 2 =>
              Len(rtl.got) = 3 /\ rtl.got[1] = queue.sending[1].b /\ rtl.got[2] = 1

\* One block at most is of an earlier connection: the one in conversion, the one
\* being sent, or one of the list.
AddsStale == conv.pc = "add" /\ conv.for < rtl.conn
SendsStale == queue.sending # <<>> /\ queue.sending[1].for < rtl.conn
OneStale ==
    /\ conv.for <= rtl.conn
    /\ rtl.socket <=> rtl.pc \in {"greet", "work", "close"}
    /\ rtl.pc = "accept" => Len(queue.list) <= IF conv.pc = "add" THEN 0 ELSE 1
    /\ rtl.pc \in {"greet", "work"} =>
          /\ \A i, j \in Stale : i = j
          /\ AddsStale => Stale = {} /\ ~SendsStale
          /\ SendsStale => Stale = {}

RtlInv == RtlTypes /\ Len(queue.list) <= RtlMax /\ RtlCounted /\ ListOrdered /\ InBlock /\ OneStale

-----------------------------------------------------------------------------
(* The data server: a connection c, its reader d, and out, the packet that is *)
(* broadcast next.                                                            *)

ConnType == [server : {"none", "backlog", "active", "inactive", "closed"}, wire : Seq(Words)]
ReaderType == [pc : {"connect", "receive", "parse"}, buffer : Seq(Words), last : Seq(Words),
               same : BOOLEAN]

NextOut == IF conv.pc = "data" THEN conv.next ELSE conv.next + 1

\* Word j of a line is the one that a packet which begins at word i has there.
Part(line, i, j) ==
    line[j] = Word(line[i].p, j - i + 1,
                   IF j - i + 1 \in {1, line[i].claim} THEN line[i].claim ELSE 0)

Linked(line, out) ==
    /\ line # <<>> => line[1].i = 1
    /\ \A i \in DOMAIN line : line[i].i = 1 =>
          LET next == i + line[i].claim IN
          /\ line[i].claim \in Lengths /\ line[i].p < out
          /\ \A j \in DOMAIN line : i <= j /\ j < next => Part(line, i, j)
          /\ next \in DOMAIN line => line[next].i = 1 /\ line[next].p = line[i].p + 1

\* The packet a line goes on with.
Follows(line, last, same) ==
    line # <<>> => IF same THEN line[1].p = last + 1 ELSE last < line[1].p

\* The last packet of a line is whole, and the newest.
Open(line, last, same, out) ==
    /\ line = <<>> /\ same => last + 1 = out
    /\ \A i \in DOMAIN line : line[i].i = 1 =>
          LET next == i + line[i].claim IN
          next <= Len(line) + 1 /\ (next = Len(line) + 1 => line[i].p + 1 = out)

Line(c, d) == d.buffer \o c.wire
Served(c, d, out) ==
    /\ Len(c.wire) <= SocketRoom
    /\ PacketOf(d.last) < out
    /\ d.pc = "connect" <=> c.server = "none"
    /\ d.pc = "connect" => c.wire = <<>> /\ ~d.same
    /\ c.server = "backlog" => Line(c, d) = <<>> /\ ~d.same
    /\ d.pc # "connect" =>
          Linked(Line(c, d), out) /\ Follows(Line(c, d), PacketOf(d.last), d.same)
    /\ c.server = "active" => Open(Line(c, d), PacketOf(d.last), d.same, out)

DataInv ==
    /\ conn \in [Readers -> ConnType] /\ reader \in [Readers -> ReaderType]
    /\ breaks \in 0 .. MaxBreaks
    /\ \A r \in Readers : Served(conn[r], reader[r], NextOut)

-----------------------------------------------------------------------------
(* The GNU Radio block. *)

LEMMA RadioGiven ==
    /\ QueueCap \in Nat /\ QueueCap > 0 /\ FreeCap \in Nat /\ FreeCap >= QueueCap + 4
    /\ Metadata \subseteq [freq : Nat \ {0}, noise : BOOLEAN, retuning : BOOLEAN, few : BOOLEAN]
    /\ MaxFrames \in Nat /\ MaxEvents \in Nat
BY RadioAssumption

LEMMA NoneIsFrame == None \in Frame /\ None.id = 0
BY DEF None, Frame

LEMMA EventSpent ==
    ASSUME block \in BlockType, block' = [block EXCEPT !.events = @ + 1]
    PROVE  /\ block' \in BlockType /\ block'.running = block.running
           /\ block'.phase = block.phase /\ block'.runs = block.runs
<1> DEFINE e == block.events + 1
<1>1. e \in Nat /\ block' = [block EXCEPT !.events = e]
  BY DEF BlockType
<1> HIDE DEF e
<1> QED  BY <1>1 DEF BlockType

\* Steps that leave the frames and what is out of them alone.
LEMMA FramesRest ==
    ASSUME RadioInv, UNCHANGED <<frames, work>>, block'.runs = block.runs,
           receiver'.packets = receiver.packets,
           block'.phase \in {"stopped", "running", "stopping"},
           block'.running = (block'.phase = "running"),
           receiver'.pc \in {"off", "connect", "register", "receive"},
           receiver'.fd \in {"closed", "open", "shut"},
           ctrl'.pc \in {"off", "connect", "send", "poll"}
    PROVE  RadioSound' /\ Queued'
<1>1. RadioSound'
  BY DEF RadioInv, RadioSound, RadioTypeOK, FramesBounded, TagsTrue
<1>2. Queued'
  BY DEF RadioInv, Queued
<1> QED  BY <1>1, <1>2

\* Steps that leave the settings alone.
LEMMA SettingsRest ==
    ASSUME RadioInv, UNCHANGED <<wanted, cmds, server>>
    PROVE  OnTheWay'
BY DEF RadioInv, OnTheWay, Within, Rising, Before

LEMMA RadioStarts == RadioInit => RadioInv
<1> SUFFICES ASSUME RadioInit PROVE RadioInv
  OBVIOUS
<1>1. RadioTypes
  BY NoneIsFrame DEF RadioInit, RadioTypes, BlockType, Settings, Untagged, Frame, Cmd
<1>2. RadioSound
  <2>1. block.running = (block.phase = "running")
    BY DEF RadioInit
  <2>2. /\ block.phase = "stopped" /\ receiver.pc = "off" /\ receiver.fd = "closed"
        /\ frames.queue = <<>> /\ frames.free = 0 /\ frames.alive = 0 /\ work.frame = None
        /\ ctrl.pc = "off"
    BY DEF RadioInit
  <2> QED  BY <2>1, <2>2, RadioGiven DEF RadioSound, RadioTypeOK, FramesBounded, TagsTrue
<1>3. Queued /\ OnTheWay
  BY DEF RadioInit, Queued, OnTheWay, Within, Rising, Before, Settings
<1> QED  BY <1>1, <1>2, <1>3 DEF RadioInv

\* The reader connects, leaves or loses its connection.
LEMMA ReaderMoves ==
    ASSUME RadioInv, ReaderConnect \/ ReaderRegister \/ ReaderQuit \/ ReaderBreak
    PROVE  RadioInv'
<1> USE DEF ReaderConnect, ReaderRegister, ReaderQuit, ReaderBreak, ReaderGoes
<1>1. RadioTypes'
  <2>1. UNCHANGED <<frames, work, wanted, cmds, ctrl, server>>
    OBVIOUS
  <2>2. receiver' \in [pc : {"off", "connect", "register", "receive"},
                      fd : {"closed", "open", "shut"}, packets : Nat]
    BY DEF RadioInv, RadioTypes
  <2>3. block' \in BlockType
    BY EventSpent DEF RadioInv, RadioTypes
  <2> QED  BY <2>1, <2>2, <2>3 DEF RadioInv, RadioTypes
<1>2. RadioSound' /\ Queued'
  <2>1. /\ UNCHANGED <<frames, work>> /\ block'.runs = block.runs
        /\ receiver'.packets = receiver.packets
    BY EventSpent DEF RadioInv, RadioTypes
  <2>2. /\ block'.phase \in {"stopped", "running", "stopping"}
        /\ block'.running = (block'.phase = "running")
        /\ receiver'.pc \in {"off", "connect", "register", "receive"}
        /\ receiver'.fd \in {"closed", "open", "shut"}
        /\ ctrl'.pc \in {"off", "connect", "send", "poll"}
    BY EventSpent DEF RadioInv, RadioTypes, RadioSound, RadioTypeOK
  <2> QED  BY <2>1, <2>2, FramesRest
<1>3. OnTheWay'
  BY SettingsRest
<1> QED  BY <1>1, <1>2, <1>3 DEF RadioInv

\* Frames are made, kept and let go of, the sum being right.
FramesType == [queue : Seq(Frame), free : Nat, alive : Nat]
Balanced(f, out) ==
    /\ Len(f.queue) <= QueueCap /\ f.free <= FreeCap
    /\ f.alive = f.free + Len(f.queue) + out
    /\ f.alive <= QueueCap + 2

LEMMA AcquiredIs ==
    ASSUME NEW f \in FramesType, NEW out \in {0, 1}, Balanced(f, out)
    PROVE  /\ Acquired(f) \in FramesType /\ Acquired(f).queue = f.queue
           /\ Acquired(f).free <= FreeCap
           /\ Acquired(f).alive = Acquired(f).free + Len(f.queue) + out + 1
           /\ Acquired(f).alive <= QueueCap + 2
<1>1. Len(f.queue) \in Nat
  BY DEF FramesType
<1>2. CASE f.free > 0
  <2> DEFINE n == f.free - 1
  <2>1. n \in Nat /\ n + 1 = f.free
    BY <1>2 DEF FramesType
  <2>2. Acquired(f) = [f EXCEPT !.free = n]
    BY <1>2 DEF Acquired
  <2> HIDE DEF n
  <2>3. /\ Acquired(f) \in FramesType /\ Acquired(f).queue = f.queue
        /\ Acquired(f).free = n /\ Acquired(f).alive = f.alive
    BY <2>1, <2>2 DEF FramesType
  <2>4. /\ f.alive = f.free + Len(f.queue) + out /\ f.free <= FreeCap
        /\ f.alive <= QueueCap + 2 /\ f.free \in Nat /\ f.alive \in Nat
    BY DEF Balanced, FramesType
  <2> DEFINE l == Len(f.queue)  a == f.alive  e == f.free
  <2>5. n <= FreeCap /\ a = n + l + out + 1 /\ a <= QueueCap + 2
    <3>1. a = e + l + out /\ e <= FreeCap /\ a <= QueueCap + 2 /\ e \in Nat /\ a \in Nat
          /\ l \in Nat /\ n + 1 = e /\ n \in Nat
      BY <1>1, <2>1, <2>4
    <3> HIDE DEF l, a, e
    <3> QED  BY <3>1, RadioGiven
  <2> QED  BY <2>3, <2>5
<1>3. CASE ~(f.free > 0)
  BY <1>1, <1>3, RadioGiven DEF Acquired, FramesType, Balanced
<1> QED  BY <1>2, <1>3

LEMMA ReleasedIs ==
    ASSUME NEW f \in FramesType, f.free <= FreeCap, NEW n \in Nat,
           f.alive = f.free + n + 1, f.alive <= QueueCap + 2
    PROVE  /\ Released(f) \in FramesType /\ Released(f).queue = f.queue
           /\ Released(f).free <= FreeCap /\ Released(f).alive = Released(f).free + n
           /\ Released(f).alive <= QueueCap + 2
<1>1. CASE f.free < FreeCap
  BY <1>1, RadioGiven, SMTT(40) DEF Released, FramesType
<1>2. CASE ~(f.free < FreeCap)
  BY <1>2, RadioGiven DEF Released, FramesType
<1> QED  BY <1>1, <1>2

\* What push_frame leaves in the queue.
LEMMA PushedIs ==
    ASSUME NEW f \in FramesType, NEW frame \in Frame, NEW out \in {0, 1},
           Len(f.queue) <= QueueCap, f.free <= FreeCap,
           f.alive = f.free + Len(f.queue) + out + 1, f.alive <= QueueCap + 2
    PROVE  LET g == Pushed(f, frame) IN
           /\ g \in FramesType /\ Balanced(g, out)
           /\ g.queue = Append(f.queue, frame)
              \/ (f.queue # <<>> /\ g.queue = Append(Tail(f.queue), frame))
<1> DEFINE g == Pushed(f, frame)
<1>1. f.queue \in Seq(Frame) /\ Len(f.queue) \in Nat
  BY DEF FramesType
<1>2. CASE Len(f.queue) >= QueueCap
  <2> DEFINE q == Append(Tail(f.queue), frame)
  <2> DEFINE h == [f EXCEPT !.queue = q]
  <2>1. f.queue # <<>>
    BY <1>1, <1>2, RadioGiven
  <2>2. q \in Seq(Frame) /\ Len(q) = Len(f.queue)
    BY <1>1, <2>1
  <2> HIDE DEF q
  <2>3. h \in FramesType /\ h.queue = q /\ h.free = f.free /\ h.alive = f.alive
    BY <2>2 DEF FramesType
  <2>4. g = Released(h)
    BY <1>2 DEF Pushed, q
  <2> HIDE DEF h, g
  <2> DEFINE n == Len(q) + out
  <2>5. n \in Nat /\ h.alive = h.free + n + 1 /\ h.free <= FreeCap /\ h.alive <= QueueCap + 2
    BY <1>1, <2>2, <2>3 DEF FramesType
  <2>6. /\ g \in FramesType /\ g.queue = q /\ g.free <= FreeCap /\ g.alive = g.free + n
        /\ g.alive <= QueueCap + 2
    <3> HIDE DEF n
    <3> QED  BY <2>3, <2>4, <2>5, ReleasedIs
  <2>7. Balanced(g, out)
    BY <1>1, <2>2, <2>6 DEF Balanced, FramesType
  <2> QED  BY <2>1, <2>6, <2>7 DEF q, g
<1>3. CASE ~(Len(f.queue) >= QueueCap)
  <2> DEFINE q == Append(f.queue, frame)
  <2>1. q \in Seq(Frame) /\ Len(q) = Len(f.queue) + 1
    BY <1>1
  <2> HIDE DEF q
  <2>2. g = [f EXCEPT !.queue = q]
    BY <1>3 DEF Pushed, q
  <2>3. g \in FramesType /\ g.queue = q /\ g.free = f.free /\ g.alive = f.alive
    BY <2>1, <2>2 DEF FramesType
  <2>4. Balanced(g, out)
    BY <1>1, <1>3, <2>1, <2>3, RadioGiven DEF Balanced, FramesType
  <2> QED  BY <2>3, <2>4 DEF q
<1> QED  BY <1>2, <1>3

Out == IF work.frame = None THEN 0 ELSE 1

LEMMA IsBalanced ==
    ASSUME RadioInv
    PROVE  frames \in FramesType /\ Out \in {0, 1} /\ Balanced(frames, Out)
BY RadioGiven DEF RadioInv, RadioTypes, RadioSound, RadioTypeOK, FramesBounded, FramesType,
                  Balanced, Out

\* A packet becomes the last frame of the queue.
LEMMA PacketKeeps ==
    ASSUME RadioInv, ReaderPacket
    PROVE  RadioInv'
<1> DEFINE f == Acquired(frames)
<1>1. PICK m \in Metadata :
         frames' = Pushed(f, [id |-> receiver.packets + 1, freq |-> m.freq,
                              noise |-> m.noise, run |-> block.runs])
  BY DEF ReaderPacket
<1> DEFINE frame == [id |-> receiver.packets + 1, freq |-> m.freq, noise |-> m.noise,
                     run |-> block.runs]
<1>2. receiver.packets \in Nat /\ block.runs \in Nat /\ work.last \in Nat
  BY DEF RadioInv, RadioTypes, BlockType
<1>3. m.freq \in Nat /\ m.noise \in BOOLEAN
  BY RadioGiven
<1>4. frame \in Frame /\ frame.id = receiver.packets + 1 /\ frame.run = block.runs
  <2> DEFINE n == receiver.packets + 1
  <2>1. n \in Nat
    BY <1>2
  <2>2. frame = [id |-> n, freq |-> m.freq, noise |-> m.noise, run |-> block.runs]
    OBVIOUS
  <2> HIDE DEF n
  <2>3. frame \in Frame /\ frame.id = n /\ frame.run = block.runs
    BY <1>2, <1>3, <2>1, <2>2 DEF Frame
  <2> QED  BY <2>3 DEF n
<1> HIDE DEF frame
<1>5. /\ f \in FramesType /\ f.queue = frames.queue /\ f.free <= FreeCap
      /\ f.alive = f.free + Len(f.queue) + Out + 1 /\ f.alive <= QueueCap + 2
      /\ Len(f.queue) <= QueueCap
  BY IsBalanced, AcquiredIs DEF Balanced
<1> HIDE DEF f
<1>6. /\ frames' \in FramesType /\ Balanced(frames', Out)
      /\ frames'.queue = Append(frames.queue, frame)
         \/ (frames.queue # <<>> /\ frames'.queue = Append(Tail(frames.queue), frame))
  <2>1. frames' = Pushed(f, frame)
    BY <1>1 DEF frame
  <2> QED  BY <1>4, <1>5, <2>1, PushedIs, IsBalanced
<1>7. /\ receiver' = [receiver EXCEPT !.packets = @ + 1]
      /\ UNCHANGED <<block, work, wanted, cmds, ctrl, server>>
  BY DEF ReaderPacket
<1>8. /\ receiver' \in [pc : {"off", "connect", "register", "receive"},
                        fd : {"closed", "open", "shut"}, packets : Nat]
      /\ receiver'.packets = receiver.packets + 1
      /\ receiver'.pc = receiver.pc /\ receiver'.fd = receiver.fd
  <2> DEFINE n == receiver.packets + 1
  <2>1. n \in Nat /\ receiver' = [receiver EXCEPT !.packets = n]
    BY <1>2, <1>7
  <2> HIDE DEF n
  <2>2. receiver \in [pc : {"off", "connect", "register", "receive"},
                     fd : {"closed", "open", "shut"}, packets : Nat]
    BY DEF RadioInv, RadioTypes
  <2> QED  BY <2>1, <2>2 DEF n
<1>9. RadioTypes'
  BY <1>6, <1>7, <1>8 DEF RadioInv, RadioTypes, FramesType
<1>10. RadioSound'
  <2>1. Len(frames'.queue) \in Nat /\ frames'.free \in Nat /\ frames'.alive \in Nat
    BY <1>6 DEF FramesType
  <2>2. Out' = Out
    BY <1>7 DEF Out
  <2>3. Balanced(frames', Out')
    BY <1>6, <2>2
  <2>4. TagsTrue' /\ (block.running = (block.phase = "running"))'
    BY <1>7 DEF RadioInv, RadioSound, RadioTypeOK, TagsTrue
  <2> QED  BY <1>7, <1>8, <2>1, <2>3, <2>4, RadioGiven
           DEF RadioInv, RadioSound, RadioTypeOK, FramesBounded, Balanced, Out
<1>11. Queued'
  <2>1. frames.queue \in Seq(Frame)
    BY DEF RadioInv, RadioTypes
  <2>2. \A i \in DOMAIN frames.queue : frames.queue[i].id \in Nat
    <3>1. \A i \in DOMAIN frames.queue : frames.queue[i] \in Frame
      BY <2>1
    <3> QED  BY <3>1 DEF Frame
  <2>3. CASE frames'.queue = Append(frames.queue, frame)
    BY <1>2, <1>4, <1>7, <1>8, <2>1, <2>2, <2>3 DEF RadioInv, Queued
  <2>4. CASE frames.queue # <<>> /\ frames'.queue = Append(Tail(frames.queue), frame)
    <3> DEFINE q == Append(Tail(frames.queue), frame)  s == frames.queue
    <3>1. Len(q) = Len(s) /\ DOMAIN q = 1 .. Len(s) /\ DOMAIN s = 1 .. Len(s) /\ Len(s) \in Nat
      BY <2>1, <2>4
    <3>2. \A i \in DOMAIN q : IF i < Len(s) THEN i + 1 \in DOMAIN s /\ q[i] = s[i + 1]
                             ELSE i = Len(s) /\ q[i] = frame
      BY <2>1, <2>4, <3>1
    <3> HIDE DEF q
    <3>3. frames'.queue = q
      BY <2>4 DEF q
    <3>4. /\ work.last <= receiver.packets
          /\ \A i \in DOMAIN s : /\ s[i].id > work.last /\ s[i].id <= receiver.packets
                                /\ s[i].run = block.runs
                                /\ \A j \in DOMAIN s : i < j => s[i].id < s[j].id
      BY DEF RadioInv, Queued
    <3>5. /\ \A i \in DOMAIN s : s[i].id \in Nat
          /\ work' = work /\ block' = block
      BY <1>7, <2>2
    <3> HIDE DEF s
    <3>6. \A i \in DOMAIN q : /\ q[i].id > work.last /\ q[i].id <= receiver.packets + 1
                              /\ q[i].run = block.runs
      BY <1>2, <1>4, <3>1, <3>2, <3>4, <3>5
    <3>7. ASSUME NEW i \in DOMAIN q, NEW j \in DOMAIN q, i < j
          PROVE  q[i].id < q[j].id
      <4>1. i + 1 \in DOMAIN s /\ q[i] = s[i + 1] /\ s[i + 1].id <= receiver.packets
        BY <3>1, <3>2, <3>4, <3>7
      <4>2. CASE j < Len(s)
        BY <3>1, <3>2, <3>4, <3>7, <4>1, <4>2
      <4>3. CASE j = Len(s)
        BY <1>2, <1>4, <3>2, <3>5, <3>7, <4>1, <4>3
      <4> QED  BY <3>1, <3>7, <4>2, <4>3
    <3> QED  BY <1>2, <1>8, <3>3, <3>4, <3>5, <3>6, <3>7 DEF Queued
  <2> QED  BY <1>6, <2>3, <2>4
<1>12. OnTheWay'
  BY <1>7, SettingsRest
<1> QED  BY <1>9, <1>10, <1>11, <1>12 DEF RadioInv

\* start() lets go of what is queued or half out.
LEMMA StartKeeps ==
    ASSUME RadioInv, Start
    PROVE  RadioInv'
<1>1. /\ frames' = Restarted(frames) /\ work' = [work EXCEPT !.frame = None, !.tagged = FALSE]
      /\ receiver' = [receiver EXCEPT !.pc = "connect"] /\ ctrl' = [ctrl EXCEPT !.pc = "connect"]
      /\ UNCHANGED <<wanted, cmds, server>>
  BY DEF Start
<1>2. block' \in BlockType /\ block'.running = TRUE /\ block'.phase = "running"
  <2> DEFINE n == block.runs + 1  e == IF block.runs > 0 THEN block.events + 1 ELSE block.events
  <2>1. n \in Nat /\ e \in Nat
    BY DEF RadioInv, RadioTypes, BlockType
  <2>2. block' = [block EXCEPT !.running = TRUE, !.phase = "running", !.runs = n, !.events = e]
    BY DEF Start
  <2>3. block \in BlockType
    BY DEF RadioInv, RadioTypes
  <2> HIDE DEF n, e
  <2> QED  BY <2>1, <2>2, <2>3 DEF BlockType
<1>3. /\ work'.frame = None /\ work'.last = work.last /\ frames'.queue = <<>>
      /\ receiver'.packets = receiver.packets
      /\ receiver'.pc = "connect" /\ receiver'.fd = receiver.fd /\ ctrl'.pc = "connect"
      /\ frames'.free = frames.free /\ frames'.alive = frames.free
  BY <1>1 DEF RadioInv, RadioTypes, Restarted
<1>4. RadioTypes'
  <2>1. work' \in [frame : Frame, tagged : BOOLEAN, tag : [freq : Nat, noise : BOOLEAN], last : Nat]
    BY <1>1, NoneIsFrame DEF RadioInv, RadioTypes
  <2>2. frames' \in [queue : Seq(Frame), free : Nat, alive : Nat]
    BY <1>1 DEF RadioInv, RadioTypes, Restarted
  <2>3. /\ receiver' \in [pc : {"off", "connect", "register", "receive"},
                          fd : {"closed", "open", "shut"}, packets : Nat]
        /\ ctrl' \in [pc : {"off", "connect", "send", "poll"}, up : BOOLEAN]
    BY <1>1 DEF RadioInv, RadioTypes
  <2> QED  BY <1>1, <1>2, <1>3, <2>1, <2>2, <2>3 DEF RadioInv, RadioTypes
<1>5. RadioSound'
  <2>1. frames.free \in Nat /\ frames.free <= FreeCap /\ frames.free <= QueueCap + 2
    BY IsBalanced, RadioGiven DEF Balanced, FramesType, Out
  <2>2. (block.running = (block.phase = "running"))'
    BY <1>2
  <2>3. Len(frames'.queue) = 0
    BY <1>3
  <2>4. receiver.fd \in {"closed", "open", "shut"}
    BY DEF RadioInv, RadioTypes
  <2> QED  BY <1>2, <1>3, <2>1, <2>2, <2>3, <2>4, RadioGiven
           DEF RadioSound, RadioTypeOK, FramesBounded, TagsTrue
<1>6. Queued'
  BY <1>3 DEF RadioInv, Queued
<1>7. OnTheWay'
  BY <1>1, SettingsRest
<1> QED  BY <1>4, <1>5, <1>6, <1>7 DEF RadioInv

\* work takes the next frame, under a tag of its own or the last one.
LEMMA TakeKeepsRadio ==
    ASSUME RadioInv, WorkTake
    PROVE  RadioInv' /\ work.last < work'.last /\ work'.frame.run = block.runs
<1> DEFINE frame == Head(frames.queue)  s == frames.queue
<1>1. /\ work.frame = None /\ s # <<>> /\ frames' = [frames EXCEPT !.queue = Tail(@)]
      /\ UNCHANGED <<block, receiver, wanted, cmds, ctrl, server>>
  BY DEF WorkTake
<1>2. /\ s \in Seq(Frame) /\ frame = s[1] /\ frame \in Frame /\ 1 \in DOMAIN s
      /\ Tail(s) \in Seq(Frame) /\ Len(Tail(s)) = Len(s) - 1 /\ Len(s) \in Nat
  BY <1>1 DEF RadioInv, RadioTypes
<1>3. /\ work'.frame = frame /\ work'.tagged = TRUE /\ work'.last = frame.id
      /\ work'.tag = [freq |-> frame.freq, noise |-> frame.noise]
      /\ work' \in [frame : Frame, tagged : BOOLEAN, tag : [freq : Nat, noise : BOOLEAN],
                    last : Nat]
  <2> DEFINE tag == IF NeedsTag(frame) THEN [freq |-> frame.freq, noise |-> frame.noise]
                    ELSE work.tag
  <2>1. tag = [freq |-> frame.freq, noise |-> frame.noise]
    BY DEF NeedsTag
  <2>2. work' = [frame |-> frame, tagged |-> TRUE, tag |-> tag, last |-> frame.id]
    BY DEF WorkTake
  <2>3. tag \in [freq : Nat, noise : BOOLEAN]
    BY <1>2, <2>1 DEF Frame
  <2>4. frame.id \in Nat
    BY <1>2 DEF Frame
  <2> HIDE DEF tag, frame
  <2> QED  BY <1>2, <2>1, <2>2, <2>3, <2>4
<1>4. frame.id > work.last /\ frame.id <= receiver.packets /\ frame.run = block.runs
  BY <1>2 DEF RadioInv, Queued
<1>5. frame.id \in Nat /\ work.last \in Nat /\ receiver.packets \in Nat
  BY <1>2 DEF RadioInv, RadioTypes, Frame
<1>6. frame # None
  BY <1>4, <1>5, NoneIsFrame
<1>7. /\ frames'.queue = Tail(s) /\ frames'.free = frames.free /\ frames'.alive = frames.alive
      /\ frames' \in FramesType
  BY <1>1, <1>2 DEF RadioInv, RadioTypes, FramesType
<1>8. RadioTypes'
  BY <1>1, <1>3, <1>7 DEF RadioInv, RadioTypes, FramesType
<1>9. RadioSound'
  <2>1. /\ Len(s) <= QueueCap /\ frames.free <= FreeCap /\ frames.alive = frames.free + Len(s)
        /\ frames.alive <= QueueCap + 2 /\ frames.free \in Nat /\ frames.alive \in Nat
    BY <1>1, IsBalanced DEF Balanced, Out, FramesType
  <2>2. Len(frames'.queue) + 1 = Len(s) /\ Len(frames'.queue) \in Nat
    BY <1>2, <1>7
  <2>3. frames'.alive = frames'.free + Len(frames'.queue) + 1
    <3> DEFINE l == Len(frames'.queue)  k == Len(s)
    <3>1. l + 1 = k /\ l \in Nat /\ frames'.alive = frames.free + k
      BY <1>7, <2>1, <2>2
    <3> HIDE DEF l, k
    <3>2. frames'.alive = frames'.free + l + 1
      BY <1>7, <2>1, <3>1
    <3> QED  BY <3>2 DEF l
  <2>4. Len(frames'.queue) <= QueueCap /\ frames'.free \in 0 .. FreeCap
        /\ frames'.alive <= QueueCap + 2
    BY <1>7, <2>1, <2>2, RadioGiven
  <2>5. (block.running = (block.phase = "running"))'
    BY <1>1 DEF RadioInv, RadioSound, RadioTypeOK
  <2>6. TagsTrue'
    BY <1>3 DEF TagsTrue
  <2> HIDE DEF frame, s
  <2> QED  BY <1>1, <1>3, <1>6, <2>3, <2>4, <2>5, <2>6
           DEF RadioInv, RadioSound, RadioTypeOK, FramesBounded
<1>10. Queued'
  <2>1. \A i \in DOMAIN Tail(s) : i + 1 \in DOMAIN s /\ Tail(s)[i] = s[i + 1] /\ i >= 1
    BY <1>2
  <2>2. \A i, j \in DOMAIN Tail(s) : i < j => i + 1 < j + 1
    BY <1>2
  <2>3. \A i \in DOMAIN s : 1 < i => s[1].id < s[i].id
    BY <1>2 DEF RadioInv, Queued
  <2>4. \A i \in DOMAIN Tail(s) : 1 < i + 1
    BY <1>2
  <2> QED  BY <1>1, <1>2, <1>3, <1>4, <1>7, <2>1, <2>2, <2>3, <2>4 DEF RadioInv, Queued
<1>11. OnTheWay'
  BY <1>1, SettingsRest
<1> QED  BY <1>3, <1>4, <1>8, <1>9, <1>10, <1>11 DEF RadioInv

\* ... and lets go of it.
LEMMA RestKeepsRadio ==
    ASSUME RadioInv, WorkRest
    PROVE  RadioInv' /\ work'.last = work.last
<1> DEFINE n == Len(frames.queue)
<1>1. /\ work.frame # None /\ work' = [work EXCEPT !.frame = None]
      /\ frames' = Released(frames) /\ UNCHANGED <<block, receiver, wanted, cmds, ctrl, server>>
  BY DEF WorkRest
<1>2. /\ work' \in [frame : Frame, tagged : BOOLEAN, tag : [freq : Nat, noise : BOOLEAN],
                    last : Nat]
      /\ work'.frame = None /\ work'.last = work.last
  BY <1>1, NoneIsFrame DEF RadioInv, RadioTypes
<1>3. /\ frames \in FramesType /\ n \in Nat /\ n <= QueueCap /\ frames.free <= FreeCap
      /\ frames.alive = frames.free + n + 1 /\ frames.alive <= QueueCap + 2
  BY <1>1, IsBalanced DEF Balanced, Out, FramesType
<1>4. /\ frames' \in FramesType /\ frames'.queue = frames.queue /\ frames'.free <= FreeCap
      /\ frames'.alive = frames'.free + n /\ frames'.alive <= QueueCap + 2
  <2> HIDE DEF n
  <2> QED  BY <1>1, <1>3, ReleasedIs
<1>5. RadioTypes'
  BY <1>1, <1>2, <1>4 DEF RadioInv, RadioTypes, FramesType
<1>6. RadioSound'
  <2>1. (block.running = (block.phase = "running"))'
    BY <1>1 DEF RadioInv, RadioSound, RadioTypeOK
  <2>2. frames'.free \in 0 .. FreeCap /\ Len(frames'.queue) <= QueueCap
        /\ frames'.alive = frames'.free + Len(frames'.queue) + 0
    BY <1>3, <1>4, RadioGiven DEF FramesType
  <2> HIDE DEF n
  <2> QED  BY <1>1, <1>2, <1>4, <2>1, <2>2
           DEF RadioInv, RadioSound, RadioTypeOK, FramesBounded, TagsTrue
<1>7. Queued'
  BY <1>1, <1>2, <1>4 DEF RadioInv, Queued
<1>8. OnTheWay'
  BY <1>1, SettingsRest
<1> QED  BY <1>2, <1>5, <1>6, <1>7, <1>8 DEF RadioInv

LEMMA StopKeeps ==
    ASSUME RadioInv, Stop \/ Joined
    PROVE  RadioInv'
<1> USE DEF Stop, Joined
<1>1. /\ block' \in BlockType /\ block'.runs = block.runs
      /\ block'.phase \in {"stopped", "running", "stopping"}
      /\ block'.running = (block'.phase = "running")
  <2>1. block \in BlockType /\ block.running = (block.phase = "running")
    BY DEF RadioInv, RadioTypes, RadioSound, RadioTypeOK
  <2>2. /\ block' \in BlockType /\ block'.runs = block.runs
        /\ block'.phase \in {"stopped", "stopping"}
    BY <2>1 DEF BlockType
  <2>3. ~block'.running
    BY <2>1 DEF BlockType
  <2> QED  BY <2>2, <2>3 DEF BlockType
<1>2. /\ receiver' \in [pc : {"off", "connect", "register", "receive"},
                        fd : {"closed", "open", "shut"}, packets : Nat]
      /\ receiver'.packets = receiver.packets
  BY DEF RadioInv, RadioTypes
<1>3. UNCHANGED <<frames, work, wanted, cmds, ctrl, server>>
  OBVIOUS
<1>4. RadioTypes'
  BY <1>1, <1>2, <1>3 DEF RadioInv, RadioTypes
<1>5. RadioSound' /\ Queued'
  BY <1>2, <1>3, <1>1, FramesRest DEF RadioInv, RadioTypes
<1>6. OnTheWay'
  BY <1>3, SettingsRest
<1> QED  BY <1>4, <1>5, <1>6 DEF RadioInv

-----------------------------------------------------------------------------
(* The settings of the block. *)

CmdsType == [queue : Seq(Cmd), held : Seq(Cmd)]
CtrlType == [pc : {"off", "connect", "send", "poll"}, up : BOOLEAN]
ServerType == [wire : Seq(Cmd), set : [Settings -> Nat]]

\* The types of what a step of the settings touches are enough.
LEMMA SettingsTyped ==
    ASSUME RadioInv, UNCHANGED <<receiver, frames, work>>,
           block' = block \/ block' = [block EXCEPT !.events = @ + 1],
           wanted' \in [Settings -> Nat], cmds' \in CmdsType, ctrl' \in CtrlType,
           server' \in ServerType, ctrl'.pc = "send" => cmds'.held # <<>>
    PROVE  RadioTypes' /\ RadioSound' /\ Queued'
<1>1. /\ block' \in BlockType /\ block'.runs = block.runs /\ block'.phase = block.phase
      /\ block'.running = block.running
  BY EventSpent DEF RadioInv, RadioTypes
<1>2. RadioTypes'
  BY <1>1 DEF RadioInv, RadioTypes, CmdsType, CtrlType, ServerType
<1>3. RadioSound' /\ Queued'
  BY <1>1, FramesRest DEF RadioInv, RadioSound, RadioTypeOK, CtrlType
<1> QED  BY <1>2, <1>3

LEMMA SettingsGiven ==
    ASSUME RadioInv
    PROVE  /\ wanted \in [Settings -> Nat] /\ cmds \in CmdsType /\ ctrl \in CtrlType
           /\ server \in ServerType
           /\ cmds.queue \in Seq(Cmd) /\ cmds.held \in Seq(Cmd) /\ server.wire \in Seq(Cmd)
           /\ server.set \in [Settings -> Nat]
           /\ \A k \in Settings : wanted[k] \in Nat /\ server.set[k] \in Nat
           /\ ctrl.pc = "send" => cmds.held # <<>>
BY DEF RadioInv, RadioTypes, CmdsType, CtrlType, ServerType

LEMMA CmdFields ==
    ASSUME NEW s \in Seq(Cmd), NEW i \in DOMAIN s
    PROVE  s[i].key \in Settings /\ s[i].value \in Nat
<1>1. s[i] \in Cmd
  OBVIOUS
<1> QED  BY <1>1 DEF Cmd

\* A line and its new end.
LEMMA AppendIs ==
    ASSUME NEW S, NEW s \in Seq(S), NEW c \in S
    PROVE  LET q == Append(s, c) IN
           /\ q \in Seq(S) /\ Len(q) = Len(s) + 1
           /\ \A i \in DOMAIN q : \/ i \in DOMAIN s /\ q[i] = s[i] /\ i < Len(s) + 1
                                  \/ i = Len(s) + 1 /\ q[i] = c
<1> DEFINE q == Append(s, c)
<1>1. q \in Seq(S) /\ Len(q) = Len(s) + 1 /\ Len(s) \in Nat
  OBVIOUS
<1>2. ASSUME NEW i \in DOMAIN q, i # Len(s) + 1
      PROVE  i \in DOMAIN s /\ q[i] = s[i] /\ i < Len(s) + 1
  BY <1>1, <1>2
<1>3. q[Len(s) + 1] = c
  OBVIOUS
<1>4. \A i \in DOMAIN q : \/ i \in DOMAIN s /\ q[i] = s[i] /\ i < Len(s) + 1
                          \/ i = Len(s) + 1 /\ q[i] = c
  <2> HIDE DEF q
  <2> TAKE i \in DOMAIN q
  <2>1. CASE i = Len(s) + 1
    BY <1>3, <2>1
  <2>2. CASE i # Len(s) + 1
    BY <1>2, <2>2
  <2> QED  BY <2>1, <2>2
<1> QED  BY <1>1, <1>4

LEMMA SetKeeps ==
    ASSUME RadioInv, NEW k \in Settings, Set(k)
    PROVE  RadioInv'
<1> DEFINE n == wanted[k] + 1  c == [key |-> k, value |-> n]  q == Append(cmds.queue, c)
<1>1. n \in Nat /\ c \in Cmd /\ c.key = k /\ c.value = n /\ n > wanted[k]
  <2>1. n \in Nat /\ n > wanted[k]
    BY SettingsGiven
  <2> HIDE DEF n
  <2> QED  BY <2>1 DEF Cmd
<1>2. /\ block' = [block EXCEPT !.events = @ + 1] /\ wanted' = [wanted EXCEPT ![k] = n]
      /\ cmds' = [cmds EXCEPT !.queue = q]
      /\ UNCHANGED <<receiver, frames, work, ctrl, server>>
  BY SettingsGiven DEF Set
<1> HIDE DEF n, c
<1>3. /\ q \in Seq(Cmd) /\ Len(q) = Len(cmds.queue) + 1
      /\ \A i \in DOMAIN q : \/ i \in DOMAIN cmds.queue /\ q[i] = cmds.queue[i]
                                /\ i < Len(cmds.queue) + 1
                             \/ i = Len(cmds.queue) + 1 /\ q[i] = c
  BY <1>1, AppendIs, SettingsGiven
<1> HIDE DEF q
<1>4. /\ wanted' \in [Settings -> Nat] /\ cmds' \in CmdsType
      /\ cmds'.queue = q /\ cmds'.held = cmds.held
      /\ \A j \in Settings : wanted'[j] = IF j = k THEN n ELSE wanted[j]
  BY <1>1, <1>2, <1>3, SettingsGiven DEF CmdsType
<1>5. \A j \in Settings : wanted[j] <= wanted'[j] /\ wanted[j] \in Nat /\ wanted'[j] \in Nat
                          /\ server.set[j] \in Nat
  <2> TAKE j \in Settings
  <2>1. wanted[j] \in Nat /\ server.set[j] \in Nat
    BY SettingsGiven
  <2>2. CASE j = k
    BY <1>1, <1>4, <2>1, <2>2
  <2>3. CASE j # k
    BY <1>4, <2>1, <2>3
  <2> QED  BY <2>2, <2>3
<1>6. RadioTypes' /\ RadioSound' /\ Queued'
  BY <1>2, <1>4, SettingsGiven, SettingsTyped
<1>7. OnTheWay'
  <2>1. \A s \in Seq(Cmd) : Within(s) => Within(s)'
    BY <1>2, <1>5, CmdFields DEF Within
  <2>3. /\ Within(server.wire) /\ Within(cmds.held) /\ Within(cmds.queue)
        /\ Rising(server.wire) /\ Rising(cmds.held) /\ Rising(cmds.queue)
        /\ Before(server.wire, cmds.held) /\ Before(server.wire, cmds.queue)
        /\ Before(cmds.held, cmds.queue) /\ \A j \in Settings : server.set[j] <= wanted[j]
    BY DEF RadioInv, OnTheWay
  <2>4. Within(cmds.queue)'
    <3>1. \A i \in DOMAIN cmds.queue :
             cmds.queue[i].key \in Settings /\ cmds.queue[i].value \in Nat
      BY SettingsGiven, CmdFields
    <3>2. server.set[k] <= n /\ n <= wanted'[k]
      BY <1>1, <1>4, <2>3, SettingsGiven
    <3>3. \A i \in DOMAIN cmds.queue :
             /\ server.set[cmds.queue[i].key] <= cmds.queue[i].value
             /\ cmds.queue[i].value <= wanted'[cmds.queue[i].key]
      BY <1>5, <2>3, <3>1 DEF Within
    <3>4. \A i \in DOMAIN q : server.set[q[i].key] <= q[i].value /\ q[i].value <= wanted'[q[i].key]
      <4> TAKE i \in DOMAIN q
      <4>1. CASE i \in DOMAIN cmds.queue /\ q[i] = cmds.queue[i]
        BY <3>3, <4>1
      <4>2. CASE q[i] = c
        BY <1>1, <3>2, <4>2
      <4> QED  BY <1>3, <4>1, <4>2
    <3> QED  BY <1>2, <1>4, <3>4 DEF Within
  <2>5. ASSUME NEW s \in Seq(Cmd), Within(s), Before(s, cmds.queue)
        PROVE  Before(s, q)
    <3>1. \A i \in DOMAIN s : s[i].key = k => s[i].value <= n
      BY <1>1, <2>5, SettingsGiven, CmdFields DEF Within
    <3> QED  BY <1>1, <1>3, <2>5, <3>1 DEF Before
  <2>6. Rising(q)
    <3>1. \A i \in DOMAIN cmds.queue : cmds.queue[i].key = k => cmds.queue[i].value <= n
      BY <1>1, <2>3, SettingsGiven, CmdFields DEF Within
    <3>2. Len(cmds.queue) \in Nat /\ DOMAIN cmds.queue = 1 .. Len(cmds.queue)
      BY SettingsGiven
    <3> QED  BY <1>1, <1>3, <2>3, <3>1, <3>2 DEF Rising
  <2>7. \A j \in Settings : server'.set[j] <= wanted'[j]
    BY <1>2, <1>5, <2>3
  <2>8. /\ Within(server.wire)' /\ Within(cmds.held)' /\ Within(cmds.queue)'
    BY <1>2, <1>4, <1>5, <2>3, SettingsGiven, CmdFields, <2>4 DEF Within
  <2>9. Before(server.wire, q) /\ Before(cmds.held, q)
    BY <2>3, <2>5, SettingsGiven
  <2>10. /\ Rising(server.wire)' /\ Rising(cmds.held)' /\ Rising(cmds.queue)'
         /\ Before(server.wire, cmds.held)' /\ Before(server.wire, cmds.queue)'
         /\ Before(cmds.held, cmds.queue)'
    BY <1>2, <1>4, <2>3, <2>6, <2>9
  <2> QED  BY <2>7, <2>8, <2>10 DEF OnTheWay
<1> QED  BY <1>6, <1>7 DEF RadioInv

\* A part of a line of commands that is taken off its front, or left at it.
LEMMA PartKeeps ==
    ASSUME NEW s \in Seq(Cmd), NEW t \in Seq(Cmd), NEW d \in Nat,
           \A i \in DOMAIN t : i + d \in DOMAIN s /\ t[i] = s[i + d]
    PROVE  /\ Within(s) => Within(t)
           /\ Rising(s) => Rising(t)
           /\ \A u \in Seq(Cmd) : /\ Before(s, u) => Before(t, u)
                                  /\ Before(u, s) => Before(u, t)
<1>1. Within(s) => Within(t)
  BY DEF Within
<1>2. Rising(s) => Rising(t)
  <2>1. \A i, j \in DOMAIN t : i < j => i + d < j + d
    BY DOMAIN t \subseteq Nat
  <2> QED  BY <2>1 DEF Rising
<1>3. \A u \in Seq(Cmd) : (Before(s, u) => Before(t, u)) /\ (Before(u, s) => Before(u, t))
  BY DEF Before
<1> QED  BY <1>1, <1>2, <1>3

LEMMA TailIsPart ==
    ASSUME NEW s \in Seq(Cmd), s # <<>>
    PROVE  /\ Tail(s) \in Seq(Cmd) /\ Head(s) = s[1] /\ s[1] \in Cmd /\ 1 \in DOMAIN s
           /\ \A i \in DOMAIN Tail(s) : i + 1 \in DOMAIN s /\ Tail(s)[i] = s[i + 1] /\ 1 < i + 1
OBVIOUS

LEMMA NothingOnTheWay ==
    /\ Within(<<>>) /\ Rising(<<>>)
    /\ \A s : Before(<<>>, s) /\ Before(s, <<>>)
BY DEF Within, Rising, Before

\* The control thread connects and holds the values of now.
LEMMA ConnectKeeps ==
    ASSUME RadioInv, CtrlConnect
    PROVE  RadioInv'
<1> DEFINE c == Command("freq")  g == Command("gain")  h == <<c, g>>
<1>1. /\ cmds' = [queue |-> <<>>, held |-> h] /\ ctrl' = [ctrl EXCEPT !.pc = "send", !.up = TRUE]
      /\ UNCHANGED <<block, receiver, frames, work, wanted, server>>
  BY DEF CtrlConnect, Resync
<1>2. /\ c \in Cmd /\ g \in Cmd /\ c.key = "freq" /\ g.key = "gain"
      /\ c.value = wanted["freq"] /\ g.value = wanted["gain"]
  BY SettingsGiven DEF Command, Cmd, Settings
<1> HIDE DEF c, g
<1>3. h \in Seq(Cmd) /\ h # <<>> /\ h[1] = c /\ h[2] = g /\ DOMAIN h = {1, 2}
  BY <1>2
<1> HIDE DEF h
<1>4. /\ cmds' \in CmdsType /\ cmds'.held = h /\ cmds'.queue = <<>> /\ ctrl' \in CtrlType
  <2>1. ctrl' \in CtrlType
    BY <1>1, SettingsGiven DEF CtrlType
  <2>2. <<>> \in Seq(Cmd)
    OBVIOUS
  <2> QED  BY <1>1, <1>3, <2>1, <2>2 DEF CmdsType
<1>5. RadioTypes' /\ RadioSound' /\ Queued'
  BY <1>1, <1>3, <1>4, SettingsGiven, SettingsTyped
<1>6. OnTheWay'
  <2>1. \A k \in Settings : server.set[k] <= wanted[k] /\ wanted[k] \in Nat
    BY SettingsGiven DEF RadioInv, OnTheWay
  <2>2. Within(h) /\ Rising(h)
    BY <1>2, <1>3, <2>1 DEF Within, Rising, Settings
  <2>3. Before(server.wire, h)
    BY <1>2, <1>3 DEF RadioInv, OnTheWay, Within, Before
  <2>4. \A s : Within(s)' = Within(s)
    BY <1>1 DEF Within
  <2>5. Within(server.wire) /\ Rising(server.wire)
    BY DEF RadioInv, OnTheWay
  <2>6. /\ Within(server.wire)' /\ Within(cmds.held)' /\ Within(cmds.queue)'
    BY <1>1, <1>4, <2>2, <2>5, NothingOnTheWay DEF Within
  <2>7. /\ Rising(server.wire)' /\ Rising(cmds.held)' /\ Rising(cmds.queue)'
        /\ Before(server.wire, cmds.held)' /\ Before(server.wire, cmds.queue)'
        /\ Before(cmds.held, cmds.queue)'
    BY <1>1, <1>4, <2>2, <2>3, <2>5, NothingOnTheWay
  <2> QED  BY <1>1, <2>1, <2>6, <2>7 DEF OnTheWay
<1> QED  BY <1>5, <1>6 DEF RadioInv

\* A command goes on its way.
LEMMA SendKeeps ==
    ASSUME RadioInv, CtrlSend
    PROVE  RadioInv'
<1> DEFINE h == cmds.held  w == server.wire
<1>1. /\ ctrl.pc = "send" /\ server' = [server EXCEPT !.wire = Append(w, Head(h))]
      /\ cmds' = [cmds EXCEPT !.held = Tail(h)]
      /\ ctrl' = IF Len(h) = 1 THEN [ctrl EXCEPT !.pc = "poll"] ELSE ctrl
      /\ UNCHANGED <<block, receiver, frames, work, wanted>>
  BY SettingsGiven DEF CtrlSend, ServerType, CmdsType
<1>2. /\ h \in Seq(Cmd) /\ w \in Seq(Cmd) /\ h # <<>> /\ cmds.queue \in Seq(Cmd)
  BY <1>1, SettingsGiven
<1>3. /\ Tail(h) \in Seq(Cmd) /\ Head(h) = h[1] /\ h[1] \in Cmd /\ 1 \in DOMAIN h
      /\ \A i \in DOMAIN Tail(h) : i + 1 \in DOMAIN h /\ Tail(h)[i] = h[i + 1] /\ 1 < i + 1
      /\ Len(h) # 1 => Tail(h) # <<>>
  <2> HIDE DEF h
  <2>1. Len(h) # 1 => Tail(h) # <<>>
    <3>1. Len(Tail(h)) = Len(h) - 1 /\ Len(h) \in Nat /\ Len(h) > 0
      BY <1>2
    <3>2. Len(h) # 1 => Len(Tail(h)) # 0
      BY <3>1
    <3> DEFINE t == Tail(h)
    <3>3. Len(h) # 1 => Len(t) # 0
      BY <3>2
    <3> HIDE DEF t
    <3>4. t = <<>> => Len(t) = 0
      OBVIOUS
    <3> QED  BY <3>3, <3>4 DEF t
  <2> QED  BY <1>2, <2>1, TailIsPart
<1> DEFINE v == Append(w, h[1])
<1>4. v \in Seq(Cmd) /\ \A i \in DOMAIN v : \/ i \in DOMAIN w /\ v[i] = w[i] /\ i < Len(w) + 1
                                            \/ i = Len(w) + 1 /\ v[i] = h[1]
  BY <1>2, <1>3, AppendIs
<1>5. /\ server' \in ServerType /\ server'.wire = v /\ server'.set = server.set
      /\ cmds' \in CmdsType /\ cmds'.held = Tail(h) /\ cmds'.queue = cmds.queue
      /\ ctrl' \in CtrlType /\ (ctrl'.pc = "send" => Tail(h) # <<>>)
  <2> HIDE DEF v
  <2>1. server' = [server EXCEPT !.wire = v]
    BY <1>1, <1>3 DEF v
  <2>2. ctrl' \in CtrlType /\ (ctrl'.pc = "send" => Tail(h) # <<>>)
    BY <1>1, <1>3, SettingsGiven DEF CtrlType
  <2> QED  BY <1>1, <1>3, <1>4, <2>1, <2>2, SettingsGiven DEF ServerType, CmdsType
<1> HIDE DEF v
<1>6. RadioTypes' /\ RadioSound' /\ Queued'
  BY <1>1, <1>5, SettingsGiven, SettingsTyped
<1>7. OnTheWay'
  <2>1. /\ Within(w) /\ Within(h) /\ Within(cmds.queue) /\ Rising(w) /\ Rising(h)
        /\ Rising(cmds.queue) /\ Before(w, h) /\ Before(w, cmds.queue) /\ Before(h, cmds.queue)
        /\ \A k \in Settings : server.set[k] <= wanted[k]
    BY DEF RadioInv, OnTheWay
  <2> HIDE DEF h, w
  <2>2. /\ Within(Tail(h)) /\ Rising(Tail(h)) /\ Before(Tail(h), cmds.queue)
        /\ Before(w, Tail(h))
    BY <1>2, <1>3, <2>1, PartKeeps
  <2>3. Within(v)
    BY <1>2, <1>3, <1>4, <2>1 DEF Within
  <2>4. Rising(v)
    <3>1. \A i \in DOMAIN w : w[i].key = h[1].key => w[i].value <= h[1].value
      BY <1>3, <2>1 DEF Before
    <3>2. \A i, j \in DOMAIN v : i < j => i \in DOMAIN w /\ v[i] = w[i]
      BY <1>2, <1>4
    <3> QED  BY <1>4, <2>1, <3>1, <3>2 DEF Rising
  <2>5. Before(v, cmds.queue)
    BY <1>3, <1>4, <2>1 DEF Before
  <2>6. Before(v, Tail(h))
    <3>1. \A j \in DOMAIN Tail(h) : h[1].key = Tail(h)[j].key => h[1].value <= Tail(h)[j].value
      BY <1>3, <2>1 DEF Rising
    <3> QED  BY <1>4, <2>2, <3>1 DEF Before
  <2>7. /\ Within(server.wire)' /\ Within(cmds.held)' /\ Within(cmds.queue)'
    BY <1>1, <1>5, <2>1, <2>2, <2>3 DEF Within
  <2>8. /\ Rising(server.wire)' /\ Rising(cmds.held)' /\ Rising(cmds.queue)'
        /\ Before(server.wire, cmds.held)' /\ Before(server.wire, cmds.queue)'
        /\ Before(cmds.held, cmds.queue)'
    BY <1>5, <2>1, <2>2, <2>4, <2>5, <2>6
  <2> QED  BY <1>1, <1>5, <2>1, <2>7, <2>8 DEF OnTheWay
<1> QED  BY <1>6, <1>7 DEF RadioInv

\* The connection is lost with what is held, or the thread ends.
LEMMA LostKeeps ==
    ASSUME RadioInv, CtrlLost \/ CtrlQuit
    PROVE  RadioInv'
<1>1. /\ UNCHANGED <<block, receiver, frames, work, wanted, server>>
      /\ cmds' \in CmdsType /\ cmds'.queue = cmds.queue /\ cmds'.held \in {cmds.held, <<>>}
      /\ ctrl' \in CtrlType /\ ctrl'.pc # "send"
  <2>1. CASE CtrlLost
    <3>1. <<>> \in Seq(Cmd)
      OBVIOUS
    <3> QED  BY <2>1, <3>1, SettingsGiven DEF CtrlLost, CmdsType, CtrlType
  <2>2. CASE CtrlQuit
    BY <2>2, SettingsGiven DEF CtrlQuit, CtrlType
  <2> QED  BY <2>1, <2>2
<1>2. RadioTypes' /\ RadioSound' /\ Queued'
  BY <1>1, SettingsGiven, SettingsTyped
<1>3. OnTheWay'
  BY <1>1, NothingOnTheWay DEF Within, RadioInv, OnTheWay
<1> QED  BY <1>2, <1>3 DEF RadioInv

\* The queue is swapped out.
LEMMA PollKeepsRadio ==
    ASSUME RadioInv, CtrlPoll
    PROVE  RadioInv'
<1>1. /\ UNCHANGED <<block, receiver, frames, work, wanted, server>>
      /\ cmds' = [queue |-> <<>>, held |-> cmds.queue] /\ cmds.queue # <<>>
      /\ ctrl' = [ctrl EXCEPT !.pc = "send"]
  BY DEF CtrlPoll
<1>2. cmds' \in CmdsType /\ cmds'.queue = <<>> /\ cmds'.held = cmds.queue /\ ctrl' \in CtrlType
  <2>1. <<>> \in Seq(Cmd)
    OBVIOUS
  <2> QED  BY <1>1, <2>1, SettingsGiven DEF CmdsType, CtrlType
<1>3. RadioTypes' /\ RadioSound' /\ Queued'
  BY <1>1, <1>2, SettingsGiven, SettingsTyped
<1>4. OnTheWay'
  BY <1>1, <1>2, NothingOnTheWay DEF RadioInv, OnTheWay, Within
<1> QED  BY <1>3, <1>4 DEF RadioInv

\* The server takes a command: it is the oldest that is on its way.
LEMMA ServerKeeps ==
    ASSUME RadioInv, ServerApply
    PROVE  RadioInv' /\ \A k \in Settings : server'.set[k] >= server.set[k]
<1> DEFINE w == server.wire  c == w[1]  set == [server.set EXCEPT ![c.key] = c.value]
<1>1. w \in Seq(Cmd) /\ w # <<>>
  BY SettingsGiven DEF ServerApply
<1>2. /\ Tail(w) \in Seq(Cmd) /\ Head(w) = c /\ c \in Cmd /\ 1 \in DOMAIN w
      /\ \A i \in DOMAIN Tail(w) : i + 1 \in DOMAIN w /\ Tail(w)[i] = w[i + 1] /\ 1 < i + 1
  <2> HIDE DEF w
  <2> QED  BY <1>1, TailIsPart
<1>3. /\ UNCHANGED <<block, receiver, frames, work, wanted, cmds, ctrl>>
      /\ server' = [wire |-> Tail(w), set |-> set]
  BY <1>2 DEF ServerApply
<1>4. c.key \in Settings /\ c.value \in Nat
  BY <1>2 DEF Cmd
<1> HIDE DEF w, c
<1>5. /\ set \in [Settings -> Nat]
      /\ \A k \in Settings : set[k] = IF k = c.key THEN c.value ELSE server.set[k]
  BY <1>4, SettingsGiven
<1> HIDE DEF set
<1>6. server' \in ServerType /\ server'.wire = Tail(w) /\ server'.set = set
  BY <1>2, <1>3, <1>5 DEF ServerType
<1>7. RadioTypes' /\ RadioSound' /\ Queued'
  BY <1>3, <1>6, SettingsGiven, SettingsTyped
<1>8. /\ Within(w) /\ Within(cmds.held) /\ Within(cmds.queue) /\ Rising(w) /\ Rising(cmds.held)
      /\ Rising(cmds.queue) /\ Before(w, cmds.held) /\ Before(w, cmds.queue)
      /\ Before(cmds.held, cmds.queue) /\ \A k \in Settings : server.set[k] <= wanted[k]
  BY DEF RadioInv, OnTheWay, w
<1>9. server.set[c.key] <= c.value /\ c.value <= wanted[c.key]
  BY <1>2, <1>8 DEF Within, c
<1>10. \A k \in Settings : /\ set[k] \in Nat /\ server.set[k] <= set[k] /\ set[k] <= wanted[k]
                           /\ server.set[k] \in Nat
  <2> TAKE k \in Settings
  <2>1. server.set[k] \in Nat
    BY SettingsGiven
  <2>2. CASE k = c.key
    BY <1>4, <1>5, <1>9, <2>1, <2>2
  <2>3. CASE k # c.key
    BY <1>5, <1>8, <2>1, <2>3
  <2> QED  BY <2>2, <2>3
<1>11. OnTheWay'
  <2>1. /\ Within(Tail(w)) /\ Rising(Tail(w)) /\ Before(Tail(w), cmds.held)
        /\ Before(Tail(w), cmds.queue)
    BY <1>1, <1>2, <1>8, PartKeeps, SettingsGiven
  <2>2. ASSUME NEW s \in Seq(Cmd), Within(s),
               \A i \in DOMAIN s : s[i].key = c.key => c.value <= s[i].value
        PROVE  \A i \in DOMAIN s : set[s[i].key] <= s[i].value /\ s[i].value <= wanted[s[i].key]
    <3> TAKE i \in DOMAIN s
    <3>1. s[i].key \in Settings /\ s[i].value \in Nat
      BY CmdFields
    <3>2. server.set[s[i].key] <= s[i].value /\ s[i].value <= wanted[s[i].key]
      BY <2>2 DEF Within
    <3>3. CASE s[i].key = c.key
      BY <1>4, <1>5, <2>2, <3>2, <3>3
    <3>4. CASE s[i].key # c.key
      BY <1>5, <3>1, <3>2, <3>4
    <3> QED  BY <3>3, <3>4
  <2>3. /\ \A i \in DOMAIN Tail(w) : Tail(w)[i].key = c.key => c.value <= Tail(w)[i].value
        /\ \A i \in DOMAIN cmds.held : cmds.held[i].key = c.key => c.value <= cmds.held[i].value
        /\ \A i \in DOMAIN cmds.queue : cmds.queue[i].key = c.key => c.value <= cmds.queue[i].value
    BY <1>2, <1>8 DEF Rising, Before, c
  <2>4. Within(server.wire)'
    BY <1>2, <1>3, <1>6, <2>1, <2>2, <2>3 DEF Within
  <2>5. Within(cmds.held)' /\ Within(cmds.queue)'
    BY <1>3, <1>6, <1>8, <2>2, <2>3, SettingsGiven DEF Within
  <2> QED  BY <1>3, <1>6, <1>8, <1>10, <2>1, <2>4, <2>5 DEF OnTheWay
<1> QED  BY <1>6, <1>7, <1>10, <1>11 DEF RadioInv

\* The connection breaks, or the server starts from its own settings again.
LEMMA BreakKeeps ==
    ASSUME RadioInv, CtrlBreak
    PROVE  RadioInv' /\ (server'.set = server.set \/ \A k \in Settings : server'.set[k] = 0)
<1> DEFINE w == server.wire
<1>1. /\ block' = [block EXCEPT !.events = @ + 1] /\ ctrl' = [ctrl EXCEPT !.up = FALSE]
      /\ UNCHANGED <<receiver, frames, work, wanted, cmds>>
  BY DEF CtrlBreak
<1>2. w \in Seq(Cmd)
  BY SettingsGiven
<1>3. ctrl' \in CtrlType /\ (ctrl'.pc = "send" => cmds'.held # <<>>)
  BY <1>1, SettingsGiven DEF CtrlType
<1>4. /\ Within(w) /\ Within(cmds.held) /\ Within(cmds.queue) /\ Rising(w) /\ Rising(cmds.held)
      /\ Rising(cmds.queue) /\ Before(w, cmds.held) /\ Before(w, cmds.queue)
      /\ Before(cmds.held, cmds.queue) /\ \A k \in Settings : server.set[k] <= wanted[k]
  BY DEF RadioInv, OnTheWay
<1>5. CASE \E n \in 0 .. Len(w) : server' = [server EXCEPT !.wire = SubSeq(@, 1, n)]
  <2>1. PICK n \in 0 .. Len(w) : server' = [server EXCEPT !.wire = SubSeq(@, 1, n)]
    BY <1>5
  <2> DEFINE t == SubSeq(w, 1, n)
  <2>2. t \in Seq(Cmd) /\ \A i \in DOMAIN t : i + 0 \in DOMAIN w /\ t[i] = w[i + 0]
    <3> HIDE DEF w
    <3> QED  BY <1>2
  <2>3. server' = [server EXCEPT !.wire = t]
    BY <2>1, SettingsGiven DEF ServerType
  <2> HIDE DEF t
  <2>4. server' \in ServerType /\ server'.wire = t /\ server'.set = server.set
    BY <2>2, <2>3, SettingsGiven DEF ServerType
  <2>5. RadioTypes' /\ RadioSound' /\ Queued'
    BY <1>1, <1>3, <2>4, SettingsGiven, SettingsTyped
  <2>6. /\ Within(t) /\ Rising(t) /\ Before(t, cmds.held) /\ Before(t, cmds.queue)
    <3> HIDE DEF w
    <3> QED  BY <1>2, <1>4, <2>2, PartKeeps, SettingsGiven
  <2>7. Within(server.wire)' /\ Within(cmds.held)' /\ Within(cmds.queue)'
    BY <1>1, <1>4, <2>4, <2>6 DEF Within
  <2>8. OnTheWay'
    BY <1>1, <1>4, <2>4, <2>6, <2>7 DEF OnTheWay
  <2> QED  BY <2>4, <2>5, <2>8 DEF RadioInv
<1>6. CASE server' = [wire |-> <<>>, set |-> [k \in Settings |-> 0]]
  <2>1. /\ server' \in ServerType /\ server'.wire = <<>>
        /\ \A k \in Settings : server'.set[k] = 0
    <3>1. <<>> \in Seq(Cmd)
      OBVIOUS
    <3> QED  BY <1>6, <3>1 DEF ServerType
  <2>2. RadioTypes' /\ RadioSound' /\ Queued'
    BY <1>1, <1>3, <2>1, SettingsGiven, SettingsTyped
  <2>3. ASSUME NEW s \in Seq(Cmd), Within(s)
        PROVE  \A i \in DOMAIN s : server'.set[s[i].key] <= s[i].value
                                   /\ s[i].value <= wanted[s[i].key]
    <3> TAKE i \in DOMAIN s
    <3>1. s[i].key \in Settings /\ s[i].value \in Nat
      BY CmdFields
    <3> QED  BY <2>1, <2>3, <3>1 DEF Within
  <2>4. Within(cmds.held)' /\ Within(cmds.queue)'
    BY <1>1, <1>4, <2>3, SettingsGiven DEF Within
  <2>5. Within(server.wire)'
    BY <2>1, NothingOnTheWay DEF Within
  <2>6. \A k \in Settings : server'.set[k] <= wanted'[k]
    BY <1>1, <2>1, SettingsGiven
  <2>7. OnTheWay'
    BY <1>1, <1>4, <2>1, <2>4, <2>5, <2>6, NothingOnTheWay DEF OnTheWay
  <2> QED  BY <2>1, <2>2, <2>7 DEF RadioInv
<1> QED  BY <1>5, <1>6 DEF CtrlBreak

LEMMA RadioStutters ==
    ASSUME RadioInv, UNCHANGED radioVars
    PROVE  RadioInv'
<1> USE DEF radioVars
<1>1. RadioTypes'
  BY DEF RadioInv, RadioTypes
<1>2. RadioSound'
  BY DEF RadioInv, RadioSound, RadioTypeOK, FramesBounded, TagsTrue
<1>3. Queued'
  BY DEF RadioInv, Queued
<1>4. OnTheWay'
  BY SettingsRest
<1> QED  BY <1>1, <1>2, <1>3, <1>4 DEF RadioInv

LEMMA RadioNextKeeps ==
    ASSUME RadioInv, [RadioNext]_radioVars
    PROVE  RadioInv'
BY ReaderMoves, PacketKeeps, StartKeeps, TakeKeepsRadio, RestKeepsRadio, StopKeeps, SetKeeps,
   ConnectKeeps, SendKeeps, LostKeeps, PollKeepsRadio, ServerKeeps, BreakKeeps, RadioStutters
   DEF RadioNext, Reader, Scheduler, Control

\* The inductive invariant of the GNU Radio block: its types, the frames that
\* exist, what is queued, and the order of the commands on their way.
THEOREM RadioInvariant == RadioSpec => []RadioInv
BY RadioStarts, RadioNextKeeps, PTL DEF RadioSpec

\* The frames of the block are accounted for and bounded, and what it puts out
\* is under its tag, for any caps and metadata and any sequence of packets,
\* starts, stops and breaks (acquire_frame, push_frame, work).
THEOREM RadioCorrect == RadioSpec => []RadioSound
<1>1. RadioInv => RadioSound
  BY DEF RadioInv
<1> QED  BY <1>1, RadioInvariant, PTL

\* What comes out is in order.
LEMMA FramesGoForward ==
    ASSUME RadioInv, [RadioNext]_radioVars, work'.last # work.last
    PROVE  work.last < work'.last /\ work'.frame.run = block.runs
<1>1. work' # work
  OBVIOUS
<1>2. Start \/ WorkTake \/ WorkRest
  BY <1>1 DEF radioVars, RadioNext, Reader, ReaderConnect, ReaderRegister, ReaderPacket, ReaderQuit,
              ReaderBreak, Scheduler, Stop, Joined, Control, CtrlConnect, CtrlSend, CtrlLost,
              CtrlPoll, CtrlQuit, CtrlBreak, ServerApply, Set
<1>3. ~Start
  BY DEF Start, RadioInv, RadioTypes
<1> QED  BY <1>2, <1>3, TakeKeepsRadio, RestKeepsRadio

\* ... and what the server is set to.
LEMMA ServerGoesForward ==
    ASSUME RadioInv, [RadioNext]_radioVars, NEW k \in Settings
    PROVE  server'.set[k] >= server.set[k] \/ server'.set[k] = 0
<1>1. server.set[k] >= server.set[k]
  BY SettingsGiven
<1>2. CASE server'.set = server.set
  BY <1>1, <1>2
<1>3. CASE server'.set # server.set
  <2>1. ServerApply \/ CtrlBreak \/ CtrlSend
    BY <1>3 DEF radioVars, RadioNext, Reader, ReaderConnect, ReaderRegister, ReaderPacket, ReaderQuit,
                ReaderBreak, Scheduler, Start, WorkTake, WorkRest, Stop, Joined, Control,
                CtrlConnect, CtrlLost, CtrlPoll, CtrlQuit, Set
  <2>2. ~CtrlSend
    BY <1>3, SettingsGiven DEF CtrlSend, ServerType
  <2> QED  BY <1>3, <2>1, <2>2, ServerKeeps, BreakKeeps
<1> QED  BY <1>2, <1>3

\* Frames come out in the order they were received, in the run they were received
\* in, and the server never goes back to a setting that was replaced (work, start,
\* control_loop).
THEOREM RadioForward == RadioSpec => FramesInOrder /\ NeverBack
<1>1. RadioInv /\ [RadioNext]_radioVars =>
         (work'.last # work.last => work.last < work'.last /\ work'.frame.run = block.runs)
  BY FramesGoForward
<1>2. RadioInv /\ [RadioNext]_radioVars =>
         (\A k \in Settings : server'.set[k] >= server.set[k] \/ server'.set[k] = 0)
  BY ServerGoesForward
<1> QED  BY <1>1, <1>2, RadioInvariant, PTL DEF RadioSpec, FramesInOrder, NeverBack

-----------------------------------------------------------------------------
(* The rtl_tcp server. *)

LEMMA LinkGiven ==
    /\ Lengths \subseteq Nat \ {0, 1} /\ SocketRoom \in Nat \ {0} /\ RtlMax \in Nat \ {0}
    /\ MaxPackets \in Nat /\ MaxBreaks \in Nat /\ MaxRtl \in Nat
BY LinkAssumption

Greeting == <<"RTL0">>
Words3 == Nat \X {1, 2} \X Nat
ConvType == [pc : {"data", "check", "add"}, next : 1 .. MaxPackets + 1, for : 0 .. MaxRtl]
RtlType == [pc : {"accept", "greet", "work", "close", "clear"}, conn : 0 .. MaxRtl,
            socket : BOOLEAN, up : BOOLEAN, got : {<<>>, <<"RTL0">>} \cup Words3]
QueueType == [list : Seq(Item), count : Nat, sending : {<<>>} \cup (Item \X {1, 2})]

LEMMA RtlTyped ==
    RtlTypes <=> /\ conv \in ConvType /\ rtl \in RtlType /\ queue \in QueueType
                 /\ conv.pc # "data" => conv.next <= MaxPackets
BY DEF RtlTypes, ConvType, RtlType, QueueType, Words3

\* What the client was sent last is nothing, the greeting, or a part of a block.
LEMMA GotIs ==
    ASSUME NEW g \in {<<>>, <<"RTL0">>} \cup Words3
    PROVE  \/ g = <<>> /\ Len(g) # 3
           \/ g = <<"RTL0">> /\ Len(g) # 3
           \/ Len(g) = 3 /\ g[1] \in Nat /\ g[2] \in {1, 2} /\ g[3] \in Nat /\ g # <<>>
<1>1. CASE g \in Words3
  BY <1>1 DEF Words3
<1>2. CASE g = <<>>
  BY <1>2
<1>3. CASE g = <<"RTL0">>
  BY <1>3
<1> QED  BY <1>1, <1>2, <1>3

LEMMA SendingIs ==
    ASSUME NEW s \in {<<>>} \cup (Item \X {1, 2}), s # <<>>
    PROVE  s[1] \in Item /\ s[2] \in {1, 2} /\ s[1].b \in Nat /\ s[1].for \in Nat
           /\ s = <<s[1], s[2]>>
BY DEF Item

LEMMA ListIs ==
    ASSUME NEW s \in Seq(Item), NEW i \in DOMAIN s
    PROVE  s[i] \in Item /\ s[i].b \in Nat /\ s[i].for \in Nat /\ i \in Nat
           /\ DOMAIN s = 1 .. Len(s)
<1>1. s[i] \in Item
  OBVIOUS
<1> QED  BY <1>1 DEF Item

LEMMA RtlStarts == LinkInit => RtlInv
<1> SUFFICES ASSUME LinkInit PROVE RtlInv
  OBVIOUS
<1>1. /\ conv = [pc |-> "data", next |-> 1, for |-> 0]
      /\ rtl = [pc |-> "accept", conn |-> 0, socket |-> FALSE, up |-> FALSE, got |-> <<>>]
      /\ queue = [list |-> <<>>, count |-> 0, sending |-> <<>>]
  BY DEF LinkInit
<1>2. RtlTypes
  BY <1>1, LinkGiven DEF RtlTypes
<1>3. Len(queue.list) <= RtlMax /\ RtlCounted
  BY <1>1, LinkGiven DEF RtlCounted
<1>4. ListOrdered /\ InBlock
  BY <1>1 DEF ListOrdered, InBlock
<1>5. OneStale
  BY <1>1 DEF OneStale
<1> QED  BY <1>2, <1>3, <1>4, <1>5 DEF RtlInv

\* Steps that leave the list and the worker alone.
LEMMA ConversionRests ==
    ASSUME RtlInv, UNCHANGED <<rtl, queue>>, conv' \in ConvType,
           conv'.pc # "data" => conv'.next <= MaxPackets,
           conv'.next >= conv.next, conv.pc # "add",
           conv'.for = conv.for \/ (conv'.for = rtl.conn /\ rtl.socket),
           conv'.pc = "add" => conv'.for = rtl.conn /\ rtl.socket
    PROVE  RtlInv'
<1>1. conv \in ConvType /\ rtl \in RtlType /\ queue \in QueueType
  BY RtlTyped DEF RtlInv
<1>2. RtlTypes'
  BY <1>1 DEF RtlTypes, ConvType, RtlType, QueueType, Words3
<1>3. ListOrdered'
  <2>1. conv.next \in Nat /\ conv'.next \in Nat
    BY <1>1 DEF ConvType
  <2>2. \A i \in DOMAIN queue.list : queue.list[i].b \in Nat
    BY <1>1, ListIs DEF QueueType
  <2>3. queue.sending # <<>> => queue.sending[1].b \in Nat
    BY <1>1, SendingIs DEF QueueType
  <2>4. Len(rtl.got) = 3 => rtl.got[1] \in Nat
    BY <1>1, GotIs DEF RtlType
  <2> QED  BY <2>1, <2>2, <2>3, <2>4 DEF RtlInv, ListOrdered
<1>4. InBlock' /\ RtlCounted' /\ (Len(queue.list) <= RtlMax)'
  BY DEF RtlInv, InBlock, RtlCounted
<1>5. OneStale'
  <2>1. conv.for \in Nat /\ conv'.for \in Nat /\ rtl.conn \in Nat
    BY <1>1, LinkGiven DEF ConvType, RtlType
  <2>2. Stale' = Stale /\ (SendsStale' <=> SendsStale)
    BY DEF Stale, SendsStale
  <2>3. ~AddsStale'
    BY <2>1 DEF AddsStale
  <2>4. conv'.for <= rtl.conn
    BY <2>1 DEF RtlInv, OneStale
  <2>5. rtl.pc = "accept" => ~rtl.socket /\ conv'.pc # "add" /\ Len(queue.list) <= 1
    BY DEF RtlInv, OneStale
  <2> QED  BY <2>2, <2>3, <2>4, <2>5 DEF RtlInv, OneStale
<1> QED  BY <1>2, <1>3, <1>4, <1>5 DEF RtlInv

LEMMA CheckKeeps ==
    ASSUME RtlInv, BroadcastData \/ RtlCheck
    PROVE  RtlInv'
<1>1. conv \in ConvType /\ rtl \in RtlType
  BY RtlTyped DEF RtlInv
<1>2. conv.next \in Nat /\ conv.for \in 0 .. MaxRtl /\ rtl.conn \in 0 .. MaxRtl
  BY <1>1 DEF ConvType, RtlType
<1>3. CASE BroadcastData
  BY <1>1, <1>3, <1>2, ConversionRests DEF BroadcastData, ConvType
<1>4. CASE RtlCheck /\ rtl.socket
  <2>1. conv' \in ConvType /\ conv'.next = conv.next /\ conv'.for = rtl.conn
        /\ conv.next <= MaxPackets
    BY <1>1, <1>4, RtlTyped DEF RtlInv, RtlCheck, ConvType, RtlType
  <2> QED  BY <1>2, <1>4, <2>1, ConversionRests DEF RtlCheck
<1>5. CASE RtlCheck /\ ~rtl.socket
  <2> DEFINE n == conv.next + 1
  <2>1. conv' = [conv EXCEPT !.pc = "data", !.next = n] /\ conv.pc = "check"
    BY <1>5 DEF RtlCheck
  <2>2. n \in Nat /\ n > conv.next /\ n \in 1 .. MaxPackets + 1
    BY <1>1, <1>2, <2>1, RtlTyped, LinkGiven DEF RtlInv, ConvType
  <2> HIDE DEF n
  <2>3. conv' \in ConvType /\ conv'.next = n /\ conv'.for = conv.for /\ conv'.pc = "data"
    BY <1>1, <2>1, <2>2 DEF ConvType
  <2> QED  BY <1>2, <1>5, <2>1, <2>3, ConversionRests DEF RtlCheck, n
<1> QED  BY <1>3, <1>4, <1>5

\* Steps of the server and the worker that leave the list alone.
LEMMA AcceptKeeps ==
    ASSUME RtlInv, RtlAccept
    PROVE  RtlInv'
<1>1. conv \in ConvType /\ rtl \in RtlType /\ queue \in QueueType
  BY RtlTyped DEF RtlInv
<1> DEFINE n == rtl.conn + 1
<1>2. n \in 0 .. MaxRtl /\ rtl.conn \in Nat /\ n > rtl.conn
  BY <1>1, LinkGiven DEF RtlAccept, RtlType
<1>3. rtl' = [rtl EXCEPT !.pc = "greet", !.conn = n, !.socket = TRUE, !.up = TRUE, !.got = <<>>]
  BY DEF RtlAccept
<1> HIDE DEF n
<1>4. /\ rtl' \in RtlType /\ rtl'.pc = "greet" /\ rtl'.conn = n /\ rtl'.socket = TRUE
      /\ rtl'.got = <<>>
  BY <1>1, <1>2, <1>3 DEF RtlType
<1>5. conv' = conv /\ queue' = queue /\ rtl.pc = "accept"
  BY DEF RtlAccept
<1>6. RtlTypes'
  BY <1>1, <1>4, <1>5, RtlTyped DEF RtlTypes, ConvType, RtlType, QueueType, Words3, RtlInv
<1>7. queue.sending = <<>>
  BY <1>5 DEF RtlInv, ListOrdered
<1>8. ListOrdered' /\ InBlock' /\ RtlCounted' /\ (Len(queue.list) <= RtlMax)'
  <2>1. Len(rtl'.got) # 3
    BY <1>4
  <2> QED  BY <1>4, <1>5, <1>7, <2>1 DEF RtlInv, InBlock, RtlCounted, ListOrdered
<1>9. OneStale'
  <2>1. conv.for \in Nat /\ conv.for <= rtl.conn
    BY <1>1 DEF ConvType, RtlInv, OneStale
  <2>2. conv.pc = "add" => Len(queue.list) <= 0
    BY <1>5 DEF RtlInv, OneStale
  <2>3. Len(queue.list) <= 1 /\ queue.list \in Seq(Item) /\ Len(queue.list) \in Nat
    BY <1>1, <1>5, <2>2 DEF RtlInv, OneStale, QueueType
  <2>4. \A i, j \in DOMAIN queue.list : i = j
    BY <2>3
  <2>5. conv.pc = "add" => DOMAIN queue.list = {}
    BY <2>2, <2>3
  <2>6. \A i, j \in Stale' : i = j
    BY <1>5, <2>4 DEF Stale
  <2>7. AddsStale' => Stale' = {} /\ ~SendsStale'
    BY <1>5, <1>7, <2>5 DEF Stale, AddsStale, SendsStale
  <2>8. ~SendsStale'
    BY <1>5, <1>7 DEF SendsStale
  <2>9. conv'.for <= rtl'.conn
    BY <1>2, <1>4, <1>5, <2>1
  <2> QED  BY <1>4, <2>6, <2>7, <2>8, <2>9 DEF OneStale
<1> QED  BY <1>6, <1>8, <1>9 DEF RtlInv

LEMMA ServerRests ==
    ASSUME RtlInv, UNCHANGED <<conv, queue>>, rtl' \in RtlType, rtl'.conn = rtl.conn,
           queue.sending # <<>> => rtl'.pc = "work",
           rtl'.got = rtl.got \/ rtl'.got = <<"RTL0">>,
           rtl'.pc = "greet" => rtl'.got = <<>>,
           rtl'.pc = "work" => \/ rtl.pc = "work" /\ rtl'.got = rtl.got
                               \/ queue.sending = <<>> /\ Len(rtl'.got) # 3,
           rtl'.pc \in {"greet", "work"} => rtl.pc \in {"greet", "work"},
           rtl'.socket <=> rtl'.pc \in {"greet", "work", "close"},
           rtl'.pc = "accept" => rtl.pc = "accept"
    PROVE  RtlInv'
<1>1. conv \in ConvType /\ rtl \in RtlType /\ queue \in QueueType
  BY RtlTyped DEF RtlInv
<1>2. RtlTypes'
  BY <1>1, RtlTyped DEF RtlTypes, ConvType, RtlType, QueueType, Words3, RtlInv
<1>3. Len(<<"RTL0">>) # 3
  OBVIOUS
<1>4. ListOrdered' /\ RtlCounted' /\ (Len(queue.list) <= RtlMax)'
  BY <1>3 DEF RtlInv, RtlCounted, ListOrdered
<1>5. InBlock'
  BY <1>3, <1>4 DEF RtlInv, InBlock, ListOrdered
<1>6. OneStale'
  BY DEF Stale, SendsStale, AddsStale, RtlInv, OneStale
<1> QED  BY <1>2, <1>4, <1>5, <1>6 DEF RtlInv

LEMMA GreetKeeps ==
    ASSUME RtlInv, RtlGreet \/ RtlClose \/ RtlLeave
    PROVE  RtlInv'
<1>1. conv \in ConvType /\ rtl \in RtlType /\ queue \in QueueType
  BY RtlTyped DEF RtlInv
<1>2. UNCHANGED <<conv, queue>>
  BY DEF RtlGreet, RtlClose, RtlLeave
<1>3. queue.sending # <<>> => rtl.pc = "work"
  BY DEF RtlInv, ListOrdered
<1>4. rtl.socket <=> rtl.pc \in {"greet", "work", "close"}
  BY DEF RtlInv, OneStale
<1>5. Len(<<"RTL0">>) # 3 /\ Len(<<>>) # 3
  OBVIOUS
<1>6. CASE RtlGreet
  BY <1>1, <1>6, <1>2, <1>3, <1>4, <1>5, ServerRests DEF RtlGreet, RtlType, RtlInv, InBlock
<1>7. CASE RtlClose
  BY <1>1, <1>7, <1>2, <1>3, <1>4, ServerRests DEF RtlClose, RtlType
<1>8. CASE RtlLeave
  BY <1>1, <1>8, <1>2, <1>3, <1>4, ServerRests DEF RtlLeave, RtlType, RtlInv, InBlock
<1> QED  BY <1>6, <1>7, <1>8

\* The worker takes the oldest block of the list.
LEMMA OldestIs ==
    ASSUME NEW s \in Seq(Item), s # <<>>
    PROVE  /\ Tail(s) \in Seq(Item) /\ Head(s) = s[1] /\ s[1] \in Item /\ 1 \in DOMAIN s
           /\ Len(s) \in Nat \ {0} /\ Len(Tail(s)) = Len(s) - 1
           /\ \A i \in DOMAIN Tail(s) : i + 1 \in DOMAIN s /\ Tail(s)[i] = s[i + 1] /\ 1 < i + 1
OBVIOUS

LEMMA TakeKeepsRtl ==
    ASSUME RtlInv, RtlTake
    PROVE  RtlInv'
<1> DEFINE list == queue.list  rest == Tail(list)  count == queue.count - 1
           sending == <<Head(list), 1>>
<1>1. conv \in ConvType /\ rtl \in RtlType /\ queue \in QueueType
  BY RtlTyped DEF RtlInv
<1>2. /\ rtl.pc = "work" /\ queue.sending = <<>> /\ list # <<>> /\ UNCHANGED <<conv, rtl>>
      /\ queue' = [list |-> rest, count |-> count, sending |-> sending]
  BY DEF RtlTake
<1>3. list \in Seq(Item) /\ queue.count = Len(list)
  BY <1>1 DEF QueueType, RtlInv, RtlCounted
<1> HIDE DEF list
<1>4. /\ rest \in Seq(Item) /\ Head(list) = list[1] /\ list[1] \in Item /\ 1 \in DOMAIN list
      /\ Len(list) \in Nat \ {0} /\ Len(rest) = Len(list) - 1
      /\ \A i \in DOMAIN rest : i + 1 \in DOMAIN list /\ rest[i] = list[i + 1] /\ 1 < i + 1
  BY <1>2, <1>3, OldestIs
<1>5. count \in Nat /\ count = Len(rest)
  BY <1>3, <1>4
<1>6. sending = <<list[1], 1>> /\ sending[1] = list[1] /\ sending[2] = 1 /\ sending # <<>>
      /\ sending \in Item \X {1, 2}
  BY <1>4
<1>7. \A i \in DOMAIN list : list[i].b \in Nat /\ list[i].for \in Nat /\ i \in Nat
  BY <1>3, ListIs
<1> HIDE DEF rest, count, sending
<1>8. queue' \in QueueType /\ queue'.list = rest /\ queue'.count = count /\ queue'.sending = sending
  BY <1>2, <1>4, <1>5, <1>6 DEF QueueType
<1>9. RtlTypes'
  BY <1>1, <1>2, <1>8, RtlTyped DEF RtlTypes, ConvType, RtlType, QueueType, Words3, RtlInv
<1>10. RtlCounted' /\ (Len(queue.list) <= RtlMax)'
  BY <1>4, <1>5, <1>8, LinkGiven DEF RtlInv, RtlCounted, list
<1>11. /\ \A i \in DOMAIN list :
            list[i].b < conv.next /\ \A j \in DOMAIN list : i < j => list[i].b < list[j].b
       /\ Len(rtl.got) = 3 => rtl.got[1] < conv.next
       /\ Len(rtl.got) = 3 =>
             rtl.got[2] = 2 /\ \A i \in DOMAIN list : rtl.got[1] < list[i].b
  BY <1>2 DEF RtlInv, ListOrdered, InBlock, list
<1>12. \A i \in DOMAIN rest :
          rest[i].b < conv.next /\ \A j \in DOMAIN rest : i < j => rest[i].b < rest[j].b
  <2> TAKE i \in DOMAIN rest
  <2>1. i + 1 \in DOMAIN list /\ rest[i] = list[i + 1] /\ i \in Nat
    BY <1>4, ListIs
  <2>2. ASSUME NEW j \in DOMAIN rest, i < j PROVE rest[i].b < rest[j].b
    BY <1>4, ListIs, <2>1, <2>2, <1>11
  <2> QED  BY <1>11, <2>1, <2>2
<1>13. ListOrdered'
  BY <1>2, <1>4, <1>6, <1>8, <1>11, <1>12 DEF ListOrdered
<1>14. InBlock'
  <2>1. Len(rtl.got) = 3 => rtl.got[2] = 2 /\ rtl.got[1] < list[1].b
    BY <1>4, <1>11
  <2>2. rtl'.got = rtl.got /\ rtl'.pc = "work" /\ queue'.sending = sending
    BY <1>2, <1>8
  <2> QED  BY <1>6, <2>1, <2>2 DEF InBlock
<1>15. OneStale'
  <2>1. /\ \A i, j \in Stale : i = j
        /\ AddsStale => Stale = {} /\ ~SendsStale
        /\ Stale = {i \in DOMAIN list : list[i].for < rtl.conn}
    BY <1>2 DEF RtlInv, OneStale, Stale, list
  <2>2. Stale' = {i \in DOMAIN rest : rest[i].for < rtl.conn}
    BY <1>2, <1>8 DEF Stale
  <2>3. \A i \in Stale' : i + 1 \in Stale /\ i \in Nat /\ i + 1 # 1
    BY <1>4, <1>7, <2>1, <2>2
  <2>4. SendsStale' <=> 1 \in Stale
    BY <1>2, <1>4, <1>6, <1>8, <2>1 DEF SendsStale
  <2>5. AddsStale' <=> AddsStale
    BY <1>2 DEF AddsStale
  <2>6. \A i, j \in Stale' : i = j
    <3> TAKE i, j \in Stale'
    <3>1. i + 1 = j + 1 /\ i \in Nat /\ j \in Nat
      BY <2>1, <2>3
    <3> QED  BY <3>1
  <2>7. AddsStale' => Stale' = {} /\ ~SendsStale'
    BY <2>1, <2>3, <2>4, <2>5
  <2>8. SendsStale' => Stale' = {}
    BY <2>1, <2>3, <2>4
  <2> QED  BY <1>2, <2>6, <2>7, <2>8 DEF RtlInv, OneStale
<1> QED  BY <1>9, <1>10, <1>13, <1>14, <1>15 DEF RtlInv

\* ... and sends it, part by part.
LEMMA SendKeepsRtl ==
    ASSUME RtlInv, RtlSend
    PROVE  /\ RtlInv'
           /\ \/ rtl'.got[2] = 1 /\ (Len(rtl.got) = 3 => rtl.got[2] = 2 /\ rtl.got[1] < rtl'.got[1])
              \/ rtl'.got[2] = 2 /\ rtl'.got[1] = rtl.got[1] /\ rtl.got[2] = 1
           /\ Len(rtl'.got) = 3
<1> DEFINE s == queue.sending  got == <<s[1].b, s[2], s[1].for>>
           after == IF s[2] = 2 THEN <<>> ELSE <<s[1], s[2] + 1>>
<1>1. conv \in ConvType /\ rtl \in RtlType /\ queue \in QueueType
  BY RtlTyped DEF RtlInv
<1>2. /\ rtl.pc = "work" /\ s # <<>> /\ UNCHANGED conv
      /\ rtl' = [rtl EXCEPT !.got = got] /\ queue' = [queue EXCEPT !.sending = after]
  BY DEF RtlSend
<1>3. s \in {<<>>} \cup (Item \X {1, 2})
  BY <1>1 DEF QueueType
<1>4. s[1] \in Item /\ s[2] \in {1, 2} /\ s[1].b \in Nat /\ s[1].for \in Nat
  BY <1>2, <1>3, SendingIs
<1>5. /\ got \in Words3 /\ Len(got) = 3 /\ got[1] = s[1].b /\ got[2] = s[2]
  BY <1>4 DEF Words3
<1>6. /\ s[2] = 2 => after = <<>>
      /\ s[2] = 1 => after = <<s[1], 2>> /\ after[1] = s[1] /\ after[2] = 2 /\ after # <<>>
                     /\ after \in Item \X {1, 2}
  BY <1>4
<1> HIDE DEF got, after
<1>7. /\ rtl' \in RtlType /\ rtl'.got = got /\ rtl'.pc = "work" /\ rtl'.conn = rtl.conn
      /\ rtl'.socket = rtl.socket
  BY <1>1, <1>2, <1>5 DEF RtlType
<1>8. after \in {<<>>} \cup (Item \X {1, 2})
  BY <1>4, <1>6
<1>9. /\ queue' \in QueueType /\ queue'.list = queue.list /\ queue'.count = queue.count
      /\ queue'.sending = after
  BY <1>1, <1>2, <1>8 DEF QueueType
<1>10. RtlTypes'
  BY <1>1, <1>2, <1>7, <1>9, RtlTyped DEF RtlTypes, ConvType, RtlType, QueueType, Words3, RtlInv
<1>11. RtlCounted' /\ (Len(queue.list) <= RtlMax)'
  BY <1>9 DEF RtlInv, RtlCounted
<1>12. /\ \A i \in DOMAIN queue.list :
            /\ queue.list[i].b < conv.next
            /\ \A j \in DOMAIN queue.list : i < j => queue.list[i].b < queue.list[j].b
       /\ s[1].b < conv.next
       /\ \A i \in DOMAIN queue.list : s[1].b < queue.list[i].b
  BY <1>2 DEF RtlInv, ListOrdered
<1>13. ListOrdered'
  BY <1>2, <1>4, <1>5, <1>6, <1>7, <1>9, <1>12 DEF ListOrdered
<1>14. InBlock'
  <2>1. CASE s[2] = 1
    BY <1>5, <1>6, <1>7, <1>9, <2>1 DEF InBlock
  <2>2. CASE s[2] = 2
    BY <1>5, <1>6, <1>7, <1>9, <1>12, <2>2 DEF InBlock
  <2> QED  BY <1>4, <2>1, <2>2
<1>15. OneStale'
  BY <1>2, <1>4, <1>6, <1>7, <1>9 DEF Stale, SendsStale, AddsStale, RtlInv, OneStale
<1>16. \/ s[2] = 1 /\ (Len(rtl.got) = 3 => rtl.got[2] = 2 /\ rtl.got[1] < s[1].b)
       \/ s[2] = 2 /\ s[1].b = rtl.got[1] /\ rtl.got[2] = 1
  BY <1>2, <1>4 DEF RtlInv, InBlock
<1> QED  BY <1>5, <1>7, <1>10, <1>11, <1>13, <1>14, <1>15, <1>16 DEF RtlInv

\* The worker ends, or the list is cleared.
LEMMA ClearKeeps ==
    ASSUME RtlInv, RtlFail \/ RtlClear
    PROVE  RtlInv'
<1>1. conv \in ConvType /\ rtl \in RtlType /\ queue \in QueueType
  BY RtlTyped DEF RtlInv
<1>2. queue.sending # <<>> => rtl.pc = "work"
  BY DEF RtlInv, ListOrdered
<1>3. \/ queue'.list = queue.list /\ queue'.count = queue.count /\ rtl'.pc = "close"
         /\ rtl.pc = "work"
      \/ queue'.list = <<>> /\ queue'.count = 0 /\ rtl'.pc = "accept" /\ rtl.pc = "clear"
  BY <1>1 DEF RtlFail, RtlClear, QueueType, RtlType
<1>4. queue' \in QueueType /\ queue'.sending = <<>>
  <2>1. CASE RtlFail
    BY <1>1, <2>1 DEF RtlFail, QueueType
  <2>2. CASE RtlClear
    <3>1. <<>> \in Seq(Item) /\ queue.sending = <<>>
      BY <1>2, <2>2 DEF RtlClear
    <3> QED  BY <1>1, <2>2, <3>1 DEF RtlClear, QueueType
  <2> QED  BY <2>1, <2>2
<1>5. /\ rtl' \in RtlType /\ rtl'.got = rtl.got /\ rtl'.conn = rtl.conn
      /\ rtl'.socket = rtl.socket /\ conv' = conv
  BY <1>1 DEF RtlFail, RtlClear, RtlType
<1>6. RtlTypes'
  BY <1>1, <1>4, <1>5, RtlTyped DEF RtlTypes, ConvType, RtlType, QueueType, Words3, RtlInv
<1>7. RtlCounted' /\ (Len(queue.list) <= RtlMax)'
  BY <1>3, LinkGiven DEF RtlInv, RtlCounted
<1>8. ListOrdered'
  BY <1>3, <1>4, <1>5 DEF RtlInv, ListOrdered
<1>9. InBlock'
  BY <1>3 DEF InBlock
<1>10. OneStale'
  BY <1>3, <1>5 DEF RtlInv, OneStale
<1> QED  BY <1>6, <1>7, <1>8, <1>9, <1>10 DEF RtlInv

\* A block is added to the list, which makes room for it.
LEMMA AddKeeps ==
    ASSUME RtlInv, RtlAdd
    PROVE  RtlInv'
<1> DEFINE list == queue.list  room == MakeRoom(list)
           block0 == [b |-> conv.next, for |-> conv.for]  q == Append(room, block0)
           count == IF Len(list) >= RtlMax THEN queue.count ELSE queue.count + 1
           n == conv.next + 1
<1>1. conv \in ConvType /\ rtl \in RtlType /\ queue \in QueueType
  BY RtlTyped DEF RtlInv
<1>2. /\ conv.pc = "add" /\ UNCHANGED rtl
      /\ conv' = [conv EXCEPT !.pc = "data", !.next = n]
      /\ queue' = [queue EXCEPT !.list = q, !.count = count]
  BY DEF RtlAdd
<1>3. list \in Seq(Item) /\ queue.count = Len(list) /\ Len(list) <= RtlMax /\ Len(list) \in Nat
  BY <1>1 DEF QueueType, RtlInv, RtlCounted
<1>4. conv.next \in Nat /\ conv.for \in Nat /\ rtl.conn \in Nat
  BY <1>1 DEF ConvType, RtlType
<1>5. n \in 1 .. MaxPackets + 1 /\ n \in Nat /\ conv.next < n
  BY <1>2, <1>4, RtlTyped, LinkGiven DEF RtlInv
<1>6. block0 \in Item /\ block0.b = conv.next /\ block0.for = conv.for
  BY <1>4 DEF Item
<1> HIDE DEF list, block0, n
<1>7. /\ room \in Seq(Item) /\ Len(room) + 1 = count /\ count <= RtlMax /\ count \in Nat
      /\ Len(list) = 0 => Len(room) = 0
      /\ \E d \in {0, 1} : \A i \in DOMAIN room : i + d \in DOMAIN list /\ room[i] = list[i + d]
  <2>1. CASE Len(list) >= RtlMax
    <3>1. room = Tail(list) /\ list # <<>> /\ count = Len(list)
      BY <1>3, <2>1, LinkGiven DEF MakeRoom
    <3>2. /\ room \in Seq(Item) /\ Len(room) = Len(list) - 1 /\ Len(list) # 0
          /\ \A i \in DOMAIN room : i + 1 \in DOMAIN list /\ room[i] = list[i + 1]
      BY <1>3, <3>1, OldestIs
    <3> HIDE DEF room, count
    <3> QED  BY <1>3, <2>1, <3>1, <3>2
  <2>2. CASE ~(Len(list) >= RtlMax)
    <3>1. room = list /\ count = Len(list) + 1
      BY <1>3, <2>2 DEF MakeRoom
    <3>2. \A i \in DOMAIN room : i + 0 \in DOMAIN list /\ room[i] = list[i + 0]
      BY <1>3, <3>1
    <3> HIDE DEF room, count
    <3> QED  BY <1>3, <2>2, <3>1, <3>2, LinkGiven
  <2> QED  BY <2>1, <2>2
<1> HIDE DEF room, count
<1>8. PICK d \in {0, 1} :
          \A i \in DOMAIN room : i + d \in DOMAIN list /\ room[i] = list[i + d]
  BY <1>7
<1>9. /\ q \in Seq(Item) /\ Len(q) = Len(room) + 1
      /\ \A i \in DOMAIN q : \/ i \in DOMAIN room /\ q[i] = room[i] /\ i < Len(room) + 1
                             \/ i = Len(room) + 1 /\ q[i] = block0
  BY <1>6, <1>7, AppendIs
<1> HIDE DEF q
<1>10. /\ queue' \in QueueType /\ queue'.list = q /\ queue'.count = count
       /\ queue'.sending = queue.sending
  BY <1>1, <1>2, <1>7, <1>9 DEF QueueType
<1>11. conv' \in ConvType /\ conv'.pc = "data" /\ conv'.next = n /\ conv'.for = conv.for
  BY <1>1, <1>2, <1>5 DEF ConvType
<1>12. RtlTypes'
  BY <1>1, <1>2, <1>10, <1>11, RtlTyped DEF RtlTypes, ConvType, RtlType, QueueType, Words3, RtlInv
<1>13. RtlCounted' /\ (Len(queue.list) <= RtlMax)'
  BY <1>7, <1>9, <1>10 DEF RtlCounted
<1>14. /\ \A i \in DOMAIN list : list[i].b < conv.next
                                /\ \A j \in DOMAIN list : i < j => list[i].b < list[j].b
       /\ queue.sending # <<>> =>
             /\ rtl.pc = "work" /\ queue.sending[1].b < conv.next
             /\ \A i \in DOMAIN list : queue.sending[1].b < list[i].b
       /\ Len(rtl.got) = 3 => rtl.got[1] < conv.next
  BY DEF RtlInv, ListOrdered, list
<1>15. \A i \in DOMAIN q : i \in Nat /\ q[i].b \in Nat
  BY <1>9, ListIs
<1>16. \A i \in DOMAIN room : i \in Nat /\ room[i].b \in Nat
  BY <1>7, ListIs
<1>17. \A i \in DOMAIN q : q[i].b < n
                          /\ \A j \in DOMAIN q : i < j => q[i].b < q[j].b
  <2> TAKE i \in DOMAIN q
  <2>1. q[i].b <= conv.next
    BY <1>4, <1>6, <1>8, <1>9, <1>14, <1>15
  <2>2. ASSUME NEW j \in DOMAIN q, i < j PROVE q[i].b < q[j].b
    <3>1. i \in DOMAIN room /\ q[i] = room[i] /\ i \in Nat /\ j \in Nat
      BY <1>7, <1>9, <1>15, <2>2
    <3>2. i + d \in DOMAIN list /\ room[i] = list[i + d]
      BY <1>8, <3>1
    <3>3. CASE q[j] = block0
      BY <1>6, <1>14, <3>1, <3>2, <3>3
    <3>4. CASE j \in DOMAIN room /\ q[j] = room[j]
      BY <1>8, <3>4, <2>2, <3>1, <1>14, <3>2
    <3> QED  BY <1>9, <3>3, <3>4
  <2>3. q[i].b < n
    BY <1>4, <1>5, <1>15, <2>1
  <2> QED  BY <2>2, <2>3
<1>18. ASSUME NEW x \in Nat, x < conv.next, \A i \in DOMAIN list : x < list[i].b
       PROVE  \A i \in DOMAIN q : x < q[i].b
  BY <1>6, <1>8, <1>9, <1>18
<1>19. /\ queue.sending # <<>> => queue.sending[1].b \in Nat
       /\ Len(rtl.got) = 3 => rtl.got[1] \in Nat
  BY <1>1, SendingIs, GotIs DEF QueueType, RtlType
<1>20. ListOrdered'
  BY <1>4, <1>5, <1>14, <1>18, <1>19, <1>2, <1>10, <1>11, <1>17 DEF ListOrdered
<1>21. InBlock'
  BY <1>14, <1>18, <1>19, <1>2, <1>10 DEF RtlInv, InBlock, list
<1>22. OneStale'
  <2>1. /\ conv.for <= rtl.conn /\ (rtl.socket <=> rtl.pc \in {"greet", "work", "close"})
        /\ rtl.pc = "accept" => Len(list) <= 0
        /\ rtl.pc \in {"greet", "work"} =>
             /\ \A i, j \in Stale : i = j
             /\ AddsStale => Stale = {} /\ ~SendsStale
             /\ SendsStale => Stale = {}
    BY <1>2 DEF RtlInv, OneStale, list
  <2>2. Stale = {i \in DOMAIN list : list[i].for < rtl.conn}
    BY DEF Stale, list
  <2>3. Stale' = {i \in DOMAIN q : q[i].for < rtl.conn}
    BY <1>2, <1>10 DEF Stale
  <2>4. \A i \in Stale' : \/ i + d \in Stale /\ i \in Nat
                          \/ i = Len(room) + 1 /\ AddsStale
    BY <1>2, <1>6, <1>8, <1>9, <1>15, <2>2, <2>3 DEF AddsStale
  <2>5. ~AddsStale' /\ (SendsStale' <=> SendsStale)
    BY <1>2, <1>10, <1>11 DEF AddsStale, SendsStale
  <2>6. rtl.pc \in {"greet", "work"} => \A i, j \in Stale' : i = j
    <3> SUFFICES ASSUME rtl.pc \in {"greet", "work"}, NEW i \in Stale', NEW j \in Stale'
                 PROVE  i = j
      OBVIOUS
    <3>1. CASE AddsStale
      BY <2>1, <2>4, <3>1
    <3>2. CASE ~AddsStale
      BY <2>1, <2>4, <3>2
    <3> QED  BY <3>1, <3>2
  <2>7. rtl.pc \in {"greet", "work"} /\ SendsStale => Stale' = {}
    BY <2>1, <2>4
  <2>8. rtl.pc = "accept" => Len(q) <= 1
    BY <1>3, <1>7, <1>9, <2>1
  <2> QED  BY <1>2, <1>10, <1>11, <2>1, <2>5, <2>6, <2>7, <2>8 DEF OneStale
<1> QED  BY <1>12, <1>13, <1>20, <1>21, <1>22 DEF RtlInv

LEMMA RtlRests ==
    ASSUME RtlInv, UNCHANGED <<conv, rtl, queue>>
    PROVE  RtlInv'
<1>1. RtlTypes' /\ RtlCounted' /\ (Len(queue.list) <= RtlMax)'
  BY DEF RtlInv, RtlTypes, RtlCounted
<1>2. ListOrdered' /\ InBlock'
  BY DEF RtlInv, ListOrdered, InBlock
<1>3. OneStale'
  BY DEF RtlInv, OneStale, Stale, AddsStale, SendsStale
<1> QED  BY <1>1, <1>2, <1>3 DEF RtlInv

LEMMA ReadersAreElsewhere ==
    ASSUME NEW r \in Readers, Accept(r) \/ Read(r) \/ Break(r)
    PROVE  UNCHANGED <<conv, rtl, queue>>
BY DEF Accept, Read, Break, Connect, Receive, Disconnect, Take, Wait

LEMMA RtlNextKeeps ==
    ASSUME RtlInv, [LinkNext]_linkVars
    PROVE  RtlInv'
<1>1. CASE \E r \in Readers : Accept(r) \/ Read(r) \/ Break(r)
  BY <1>1, ReadersAreElsewhere, RtlRests
<1>2. CASE UNCHANGED linkVars
  BY <1>2, RtlRests DEF linkVars
<1> QED  BY <1>1, <1>2, CheckKeeps, AddKeeps, AcceptKeeps, GreetKeeps, ClearKeeps, TakeKeepsRtl,
            SendKeepsRtl DEF LinkNext, Conversion, Serve, Worker

\* The inductive invariant of the rtl_tcp server: its list is counted and in order,
\* the client stands somewhere in it, and one block at most is of an earlier
\* connection.
THEOREM RtlInvariant == LinkSpec => []RtlInv
BY RtlStarts, RtlNextKeeps, PTL DEF LinkSpec

LEMMA OneAtMost ==
    ASSUME NEW S, \A i, j \in S : i = j
    PROVE  Cardinality(S) \in {0, 1} /\ (S = {} => Cardinality(S) = 0)
<1>1. CASE S = {}
  BY <1>1, FS_EmptySet
<1>2. CASE S # {}
  <2>1. PICK i \in S : S = {i}
    BY <1>2
  <2> QED  BY <2>1, FS_Singleton
<1> QED  BY <1>1, <1>2

LEMMA RtlIsFresh == RtlInv => RtlFresh
<1> SUFFICES ASSUME RtlInv, rtl.pc \in {"greet", "work"}
             PROVE  Cardinality(Stale)
                    + (IF conv.pc = "add" /\ conv.for < rtl.conn THEN 1 ELSE 0)
                    + (IF queue.sending # <<>> /\ queue.sending[1].for < rtl.conn
                       THEN 1 ELSE 0) <= 1
  BY DEF RtlFresh
<1>1. /\ \A i, j \in Stale : i = j
      /\ AddsStale => Stale = {} /\ ~SendsStale
      /\ SendsStale => Stale = {}
  BY DEF RtlInv, OneStale
<1>2. Cardinality(Stale) \in {0, 1} /\ (Stale = {} => Cardinality(Stale) = 0)
  BY <1>1, OneAtMost
<1> DEFINE n == Cardinality(Stale)
<1>3. n \in {0, 1} /\ (AddsStale => n = 0 /\ ~SendsStale) /\ (SendsStale => n = 0)
  BY <1>1, <1>2
<1> HIDE DEF n
<1>4. n + (IF AddsStale THEN 1 ELSE 0) + (IF SendsStale THEN 1 ELSE 0) <= 1
  BY <1>3
<1> QED  BY <1>4 DEF n, AddsStale, SendsStale

\* The client is sent something.
LEMMA SentInOrder ==
    ASSUME RtlInv, [LinkNext]_linkVars, rtl'.got # rtl.got, rtl'.got # <<>>
    PROVE  \/ rtl.got = <<>> /\ rtl'.got = <<"RTL0">>
           \/ Len(rtl'.got) = 3 /\
              \/ rtl'.got[2] = 1 /\ (Len(rtl.got) = 3 => rtl.got[2] = 2 /\ rtl.got[1] < rtl'.got[1])
              \/ rtl'.got[2] = 2 /\ rtl'.got[1] = rtl.got[1] /\ rtl.got[2] = 1
<1>1. rtl \in RtlType
  BY RtlTyped DEF RtlInv
<1>2. rtl' # rtl
  OBVIOUS
<1>3. ~(\E r \in Readers : Accept(r) \/ Read(r) \/ Break(r))
  BY <1>2, ReadersAreElsewhere
<1>4. RtlAccept \/ RtlGreet \/ RtlSend
  BY <1>1, <1>2, <1>3 DEF linkVars, LinkNext, Conversion, BroadcastData, RtlCheck, RtlAdd, Serve,
     RtlClose, RtlClear, Worker, RtlTake, RtlFail, RtlLeave, RtlType
<1>5. CASE RtlAccept
  BY <1>1, <1>5 DEF RtlAccept, RtlType
<1>6. CASE RtlGreet
  BY <1>6, <1>1 DEF RtlGreet, RtlInv, InBlock, RtlType
<1>7. CASE RtlSend
  BY <1>7, SendKeepsRtl
<1> QED  BY <1>4, <1>5, <1>6, <1>7

\* The rtl_tcp client is greeted first and gets the blocks in order, each from its
\* first part to its last, over every overflow of the list (worker_loop, add_data).
THEOREM BlocksInOrder == LinkSpec => RtlInOrder
<1>1. RtlInv /\ [LinkNext]_linkVars =>
        (rtl'.got # rtl.got /\ rtl'.got # <<>> =>
          \/ rtl.got = <<>> /\ rtl'.got = <<"RTL0">>
          \/ Len(rtl'.got) = 3 /\
             \/ rtl'.got[2] = 1 /\ (Len(rtl.got) = 3 => rtl.got[2] = 2 /\ rtl.got[1] < rtl'.got[1])
             \/ rtl'.got[2] = 2 /\ rtl'.got[1] = rtl.got[1] /\ rtl.got[2] = 1)
  BY SentInOrder
<1> QED  BY <1>1, RtlInvariant, PTL DEF LinkSpec, RtlInOrder

-----------------------------------------------------------------------------
(* The data server: lines of packets. *)

LEMMA WordIs ==
    ASSUME NEW s \in Seq(Words), NEW i \in DOMAIN s
    PROVE  /\ s[i].p \in 1 .. MaxPackets /\ s[i].i \in Nat /\ s[i].claim \in Nat
           /\ i \in 1 .. Len(s) /\ i \in Nat /\ Len(s) \in Nat
<1>1. s[i] \in Words /\ i \in 1 .. Len(s) /\ Len(s) \in Nat
  OBVIOUS
<1>2. s[i].p \in 1 .. MaxPackets /\ s[i].i \in Nat /\ s[i].claim \in {0} \cup Lengths
  BY <1>1 DEF Words
<1>3. \A c \in {0} \cup Lengths : c \in Nat
  BY LinkGiven
<1>4. s[i].claim \in Nat
  BY <1>2, <1>3
<1>5. i \in Nat
  BY <1>1
<1> QED  BY <1>1, <1>2, <1>4, <1>5

LEMMA PacketIs ==
    ASSUME NEW p \in 1 .. MaxPackets, NEW n \in Lengths
    PROVE  /\ n \in Nat /\ n >= 2 /\ Packet(p, n) \in Seq(Words) /\ Len(Packet(p, n)) = n
           /\ \A i \in 1 .. n : /\ Packet(p, n)[i].p = p /\ Packet(p, n)[i].i = i
                                /\ Packet(p, n)[i].claim = IF i \in {1, n} THEN n ELSE 0
<1>1. n \in Nat /\ n >= 2
  BY LinkGiven
<1>2. \A i \in 1 .. n : Word(p, i, IF i \in {1, n} THEN n ELSE 0) \in Words
  BY <1>1 DEF Word, Words
<1>3. Packet(p, n) \in [1 .. n -> Words]
  BY <1>2 DEF Packet
<1>4. \A i \in 1 .. n : Packet(p, n)[i] = Word(p, i, IF i \in {1, n} THEN n ELSE 0)
  BY DEF Packet
<1> HIDE DEF Packet
<1>5. Packet(p, n) \in Seq(Words) /\ Len(Packet(p, n)) = n
  BY <1>1, <1>3, SeqDef, LenProperties
<1> QED  BY <1>1, <1>4, <1>5 DEF Word

LEMMA PacketOfIs ==
    ASSUME NEW p \in 1 .. MaxPackets, NEW n \in Lengths
    PROVE  PacketOf(Packet(p, n)) = p
<1>1. Packet(p, n)[1].p = p
  BY PacketIs
<1> QED  BY <1>1 DEF PacketOf

LEMMA NothingIsNoPacket == PacketOf(<<>>) = 0
<1>1. ASSUME NEW p \in 1 .. MaxPackets, NEW n \in Lengths, <<>> = Packet(p, n) PROVE FALSE
  <2>1. Len(<<>>) = n /\ n >= 2
    BY <1>1, PacketIs
  <2> QED  BY <2>1
<1> QED  BY <1>1 DEF PacketOf

\* What a packet, or the part of it that was sent, does to a line.
LEMMA LineGrows ==
    ASSUME NEW line \in Seq(Words), NEW out \in 1 .. MaxPackets, NEW n \in Lengths,
           NEW k \in 0 .. n, NEW last \in Nat, NEW same \in BOOLEAN,
           Linked(line, out), Follows(line, last, same), Open(line, last, same, out), last < out
    PROVE  LET longer == line \o SubSeq(Packet(out, n), 1, k) IN
           /\ longer \in Seq(Words) /\ Linked(longer, out + 1) /\ Follows(longer, last, same)
           /\ k = n => Open(longer, last, same, out + 1)
<1> DEFINE w == SubSeq(Packet(out, n), 1, k)  longer == line \o w  m == Len(line)
<1>1. /\ n \in Nat /\ n >= 2 /\ k \in Nat /\ k <= n /\ m \in Nat /\ out \in Nat
      /\ Packet(out, n) \in Seq(Words) /\ Len(Packet(out, n)) = n
  BY PacketIs
<1>2. /\ w \in Seq(Words) /\ Len(w) = k
      /\ \A i \in 1 .. k : /\ w[i] = Packet(out, n)[i] /\ w[i].p = out /\ w[i].i = i
                           /\ w[i].claim = IF i \in {1, n} THEN n ELSE 0
                           /\ w[i] = Word(out, i, IF i \in {1, n} THEN n ELSE 0)
  <2>1. w \in Seq(Words) /\ Len(w) = k /\ \A i \in 1 .. k : w[i] = Packet(out, n)[i]
    <3> DEFINE q == Packet(out, n)
    <3> HIDE DEF q
    <3> QED  BY <1>1, SubSeqProperties DEF q
  <2>2. \A i \in 1 .. k : i \in 1 .. n
    BY <1>1
  <2>3. \A i \in 1 .. n : Packet(out, n)[i] = Word(out, i, IF i \in {1, n} THEN n ELSE 0)
    BY DEF Packet
  <2> HIDE DEF w
  <2>4. ASSUME NEW i \in 1 .. k
        PROVE  /\ w[i] = Packet(out, n)[i] /\ w[i].p = out /\ w[i].i = i
               /\ w[i].claim = IF i \in {1, n} THEN n ELSE 0
               /\ w[i] = Word(out, i, IF i \in {1, n} THEN n ELSE 0)
    <3>1. w[i] = Word(out, i, IF i \in {1, n} THEN n ELSE 0) /\ w[i] = Packet(out, n)[i]
      BY <2>1, <2>2, <2>3
    <3> QED  BY <3>1 DEF Word
  <2> QED  BY <2>1, <2>4
<1> HIDE DEF w
<1>3. /\ longer \in Seq(Words) /\ Len(longer) = m + k
      /\ \A i \in 1 .. m + k : longer[i] = IF i <= m THEN line[i] ELSE w[i - m]
  <2>1. /\ line \o w \in Seq(Words) /\ Len(line \o w) = Len(line) + Len(w)
        /\ \A i \in 1 .. Len(line) + Len(w) :
              (line \o w)[i] = IF i <= Len(line) THEN line[i] ELSE w[i - Len(line)]
    <3>1. line \in Seq(Words) /\ w \in Seq(Words)
      BY <1>2
    <3> QED  BY <3>1, ConcatProperties
  <2> QED  BY <1>2, <2>1
<1> HIDE DEF longer
<1>4. DOMAIN longer = 1 .. m + k /\ DOMAIN line = 1 .. m
  BY <1>1, <1>3
<1>5. \A i \in 1 .. m : /\ longer[i] = line[i] /\ i \in DOMAIN longer /\ i \in DOMAIN line
                        /\ line[i].claim \in Nat /\ line[i].i \in Nat /\ line[i].p \in Nat
  BY <1>1, <1>3, <1>4, WordIs
<1>6. \A i \in 1 .. k : /\ longer[m + i] = w[i] /\ longer[m + i].p = out /\ longer[m + i].i = i
                        /\ longer[m + i].claim = IF i \in {1, n} THEN n ELSE 0
                        /\ longer[m + i] = Word(out, i, IF i \in {1, n} THEN n ELSE 0)
  <2> TAKE i \in 1 .. k
  <2>1. longer[m + i] = w[i]
    <3>1. m + i \in 1 .. m + k /\ ~(m + i <= m) /\ (m + i) - m = i
      BY <1>1
    <3> QED  BY <1>3, <3>1
  <2> QED  BY <1>2, <2>1
<1>7. \A i \in 1 .. m + k : i \in 1 .. m \/ (i - m \in 1 .. k /\ i = m + (i - m))
  BY <1>1
<1>8. longer # <<>> => longer[1].i = 1
  <2>1. CASE m = 0
    BY <1>1, <1>3, <1>6, <2>1
  <2>2. CASE m # 0
    BY <1>1, <1>5, <2>2 DEF Linked
  <2> QED  BY <2>1, <2>2
<1>9. ASSUME NEW i \in 1 .. m, line[i].i = 1
      PROVE  /\ line[i].claim \in Lengths /\ line[i].p < out + 1
             /\ i + line[i].claim <= m + 1
             /\ \A j \in DOMAIN longer : i <= j /\ j < i + line[i].claim =>
                    j \in 1 .. m /\ Part(line, i, j)
             /\ i + line[i].claim \in DOMAIN longer =>
                    /\ longer[i + line[i].claim].i = 1
                    /\ longer[i + line[i].claim].p = line[i].p + 1
  <2> DEFINE next == i + line[i].claim
  <2>1. /\ line[i].claim \in Lengths /\ line[i].p < out /\ line[i].p \in Nat
        /\ line[i].claim \in Nat /\ next \in Nat
        /\ \A j \in DOMAIN line : i <= j /\ j < next => Part(line, i, j)
        /\ next \in DOMAIN line => line[next].i = 1 /\ line[next].p = line[i].p + 1
    BY <1>5, <1>9 DEF Linked
  <2>2. next <= m + 1 /\ (next = m + 1 => line[i].p + 1 = out)
    BY <1>5, <1>9 DEF Open
  <2> HIDE DEF next
  <2>3. line[i].p < out + 1
    BY <1>1, <2>1
  <2>4. \A j \in DOMAIN longer : i <= j /\ j < next => j \in 1 .. m /\ Part(line, i, j)
    BY <1>1, <1>4, <2>1, <2>2
  <2>5. next \in DOMAIN longer => longer[next].i = 1 /\ longer[next].p = line[i].p + 1
    <3>1. CASE next <= m
      BY <1>1, <1>4, <2>1, <3>1, <1>5
    <3>2. CASE next = m + 1
      BY <1>1, <1>4, <3>2, <1>6, <2>2
    <3>3. next <= m \/ next = m + 1
      BY <1>1, <2>1, <2>2
    <3> QED  BY <3>1, <3>2, <3>3
  <2> QED  BY <2>1, <2>2, <2>3, <2>4, <2>5 DEF next
<1>10. ASSUME NEW i \in DOMAIN longer, longer[i].i = 1
       PROVE  LET next == i + longer[i].claim IN
              /\ longer[i].claim \in Lengths /\ longer[i].p < out + 1
              /\ \A j \in DOMAIN longer : i <= j /\ j < next => Part(longer, i, j)
              /\ next \in DOMAIN longer =>
                    longer[next].i = 1 /\ longer[next].p = longer[i].p + 1
              /\ k = n => /\ next <= m + k + 1
                          /\ next = m + k + 1 => longer[i].p + 1 = out + 1
  <2>1. CASE i \in 1 .. m
    <3>1. longer[i] = line[i]
      BY <1>5, <2>1
    <3>2. \A j \in 1 .. m : Part(line, i, j) => Part(longer, i, j)
      BY <1>5, <3>1 DEF Part
    <3>3. i + line[i].claim <= m + 1 /\ i + line[i].claim \in Nat
      BY <1>5, <1>9, <1>10, <2>1, <3>1
    <3>4. k = n => i + line[i].claim < m + k + 1
      BY <1>1, <3>3
    <3> QED  BY <1>1, <1>9, <1>10, <2>1, <3>1, <3>2, <3>3, <3>4
  <2>2. CASE i - m \in 1 .. k /\ i = m + (i - m)
    <3>1. i = m + 1 /\ 1 \in 1 .. k
      BY <1>6, <1>10, <2>2
    <3>2. longer[i].p = out /\ longer[i].claim = n
      BY <1>6, <3>1
    <3>3. ASSUME NEW j \in DOMAIN longer, i <= j PROVE Part(longer, i, j)
      BY <1>1, <1>4, <3>1, <3>3, <1>6, <3>2 DEF Part
    <3>4. i + n > m + k /\ (k = n => i + n = m + k + 1)
      BY <1>1, <3>1
    <3>5. i + n \notin DOMAIN longer
      BY <1>1, <1>4, <3>4
    <3>6. out < out + 1
      BY <1>1
    <3> QED  BY <3>2, <3>3, <3>4, <3>5, <3>6
  <2> QED  BY <1>4, <1>7, <2>1, <2>2
<1>11. Linked(longer, out + 1)
  BY <1>8, <1>10 DEF Linked
<1>12. Follows(longer, last, same)
  <2>1. CASE m = 0
    BY <2>1, <1>1, <1>3, <1>6 DEF Open, Follows
  <2>2. CASE m # 0
    BY <1>1, <2>2, <1>5 DEF Follows
  <2> QED  BY <2>1, <2>2
<1>13. ASSUME k = n PROVE Open(longer, last, same, out + 1)
  <2>1. longer # <<>>
    BY <1>1, <1>3, <1>13
  <2> QED  BY <1>3, <1>10, <1>13, <2>1 DEF Open
<1> QED  BY <1>3, <1>11, <1>12, <1>13 DEF longer, w

\* The first packet of a line, and the line after it.
LEMMA LineShrinks ==
    ASSUME NEW line \in Seq(Words), NEW out \in Nat, Linked(line, out), line # <<>>,
           line[1].claim <= Len(line)
    PROVE  LET n == line[1].claim
               rest == SubSeq(line, n + 1, Len(line))
           IN  /\ n \in Lengths /\ line[1].p \in 1 .. MaxPackets /\ line[1].p < out
               /\ SubSeq(line, 1, n) = Packet(line[1].p, n)
               /\ rest \in Seq(Words) /\ Linked(rest, out) /\ Follows(rest, line[1].p, TRUE)
               /\ \A last, same : Open(line, last, same, out) => Open(rest, line[1].p, TRUE, out)
<1> DEFINE n == line[1].claim  m == Len(line)  rest == SubSeq(line, n + 1, m)
           first == SubSeq(line, 1, n)
<1>1. /\ 1 \in DOMAIN line /\ m \in Nat /\ line[1].i = 1 /\ DOMAIN line = 1 .. m
      /\ line[1].p \in 1 .. MaxPackets /\ n \in Nat
  BY WordIs DEF Linked
<1>2. /\ n \in Lengths /\ line[1].p < out
      /\ \A j \in DOMAIN line : 1 <= j /\ j < 1 + n => Part(line, 1, j)
      /\ 1 + n \in DOMAIN line => line[1 + n].i = 1 /\ line[1 + n].p = line[1].p + 1
  BY <1>1 DEF Linked
<1>3. n >= 2 /\ n <= m
  <2>1. \A l \in Lengths : l >= 2
    BY LinkGiven
  <2> QED  BY <1>2, <2>1
<1> HIDE DEF n, m
<1>4. \A i \in 1 .. m : line[i] \in Words
  BY <1>1
<1>5. first \in Seq(Words) /\ Len(first) = n /\ \A i \in 1 .. n : first[i] = line[i]
  BY <1>1, <1>3, <1>4, SubSeqProperties
<1>6. first = Packet(line[1].p, n)
  <2>1. \A i \in 1 .. n : line[i] = Word(line[1].p, i, IF i \in {1, n} THEN n ELSE 0)
    <3> TAKE i \in 1 .. n
    <3>1. i \in DOMAIN line /\ 1 <= i /\ i < 1 + n /\ i - 1 + 1 = i
      BY <1>1, <1>3
    <3>2. Part(line, 1, i)
      BY <1>2, <3>1
    <3> QED  BY <3>1, <3>2 DEF Part, n
  <2>2. \A i \in 1 .. n : first[i] = Packet(line[1].p, n)[i]
    BY <1>5, <2>1 DEF Packet
  <2>3. Packet(line[1].p, n) \in Seq(Words) /\ Len(Packet(line[1].p, n)) = n
    BY <1>1, <1>2, PacketIs
  <2> HIDE DEF first
  <2> QED  BY <1>5, <2>2, <2>3, SeqEqual
<1>7. /\ rest \in Seq(Words) /\ Len(rest) = m - n
      /\ \A i \in 1 .. m - n : rest[i] = line[n + i] /\ n + i \in 1 .. m /\ i \in Nat
  <2>1. \A i \in n + 1 .. m : line[i] \in Words
    BY <1>1, <1>3, <1>4
  <2>2. /\ rest \in Seq(Words)
        /\ Len(rest) = IF n + 1 <= m THEN m - (n + 1) + 1 ELSE 0
        /\ \A i \in 1 .. m - (n + 1) + 1 : rest[i] = line[n + 1 + i - 1]
    BY <1>1, <1>3, <2>1, SubSeqProperties
  <2>3. m - (n + 1) + 1 = m - n /\ (n + 1 <= m \/ m - n = 0)
    BY <1>1, <1>3
  <2>4. \A i \in 1 .. m - n : n + 1 + i - 1 = n + i /\ n + i \in 1 .. m /\ i \in Nat
    BY <1>1, <1>3
  <2> HIDE DEF rest
  <2> QED  BY <1>1, <1>3, <2>2, <2>3, <2>4
<1> HIDE DEF rest, first
<1>8. DOMAIN rest = 1 .. m - n /\ m - n \in Nat
  BY <1>1, <1>3, <1>7
<1>9. rest # <<>> => rest[1].i = 1 /\ rest[1].p = line[1].p + 1
  BY <1>1, <1>3, <1>7, <1>8, <1>2
<1>10. ASSUME NEW i \in 1 .. m - n, rest[i].i = 1
       PROVE  LET next == i + rest[i].claim IN
              /\ n + i \in DOMAIN line /\ line[n + i].i = 1 /\ line[n + i].claim = rest[i].claim
              /\ line[n + i].p = rest[i].p
              /\ next \in Nat /\ next + n = n + i + line[n + i].claim
              /\ rest[i].claim \in Lengths /\ rest[i].p < out
              /\ \A j \in DOMAIN rest : i <= j /\ j < next => Part(rest, i, j)
              /\ next \in DOMAIN rest => rest[next].i = 1 /\ rest[next].p = rest[i].p + 1
  <2> DEFINE claim == rest[i].claim  next == i + claim  u == n + i
  <2>1. rest[i] = line[u] /\ u \in 1 .. m /\ i \in Nat /\ u \in Nat
    BY <1>1, <1>7
  <2>2. line[u].i = 1 /\ line[u].claim = claim /\ line[u].p = rest[i].p /\ claim \in Nat
    BY <1>1, <1>10, <2>1, WordIs
  <2>3. /\ claim \in Lengths /\ rest[i].p < out
        /\ \A j \in DOMAIN line : u <= j /\ j < u + claim => Part(line, u, j)
        /\ u + claim \in DOMAIN line => line[u + claim].i = 1 /\ line[u + claim].p = rest[i].p + 1
    BY <1>1, <2>1, <2>2 DEF Linked
  <2> HIDE DEF claim
  <2>4. next \in Nat /\ next + n = u + claim
    BY <1>1, <2>1, <2>2
  <2>5. ASSUME NEW j \in DOMAIN rest, i <= j, j < next PROVE Part(rest, i, j)
    <3>1. rest[j] = line[n + j] /\ n + j \in DOMAIN line /\ j \in Nat
      BY <1>1, <1>7, <1>8
    <3>2. u <= n + j /\ n + j < u + claim /\ (n + j) - u + 1 = j - i + 1
      BY <1>1, <2>1, <2>2, <2>5, <3>1
    <3>3. Part(line, u, n + j)
      BY <2>3, <3>1, <3>2
    <3> HIDE DEF u
    <3> QED  BY <2>1, <3>1, <3>2, <3>3 DEF Part
  <2>6. next \in DOMAIN rest => rest[next].i = 1 /\ rest[next].p = rest[i].p + 1
    <3>1. next \in DOMAIN rest => rest[next] = line[n + next] /\ n + next \in DOMAIN line
      BY <1>1, <1>7, <1>8
    <3>2. n + next = u + claim
      BY <1>1, <2>1, <2>2
    <3> HIDE DEF u, next
    <3> QED  BY <2>3, <3>1, <3>2
  <2> QED  BY <1>1, <2>1, <2>2, <2>3, <2>4, <2>5, <2>6 DEF claim
<1>11. Linked(rest, out)
  BY <1>8, <1>9, <1>10 DEF Linked
<1>12. Follows(rest, line[1].p, TRUE)
  BY <1>9 DEF Follows
<1>13. ASSUME NEW last, NEW same, Open(line, last, same, out)
       PROVE  Open(rest, line[1].p, TRUE, out)
  <2>1. \A i \in DOMAIN line : line[i].i = 1 =>
           /\ i + line[i].claim <= m + 1
           /\ i + line[i].claim = m + 1 => line[i].p + 1 = out
    BY <1>13 DEF Open, m
  <2>2. rest = <<>> => line[1].p + 1 = out
    BY <1>1, <1>3, <1>7, <2>1 DEF n
  <2>3. ASSUME NEW i \in DOMAIN rest, rest[i].i = 1
        PROVE  LET next == i + rest[i].claim IN
               next <= Len(rest) + 1 /\ (next = Len(rest) + 1 => rest[i].p + 1 = out)
    <3> DEFINE next == i + rest[i].claim  there == n + i + line[n + i].claim
    <3>1. /\ n + i \in DOMAIN line /\ line[n + i].i = 1 /\ line[n + i].p = rest[i].p
          /\ next \in Nat /\ next + n = there
      BY <1>8, <1>10, <2>3
    <3>2. there <= m + 1 /\ (there = m + 1 => rest[i].p + 1 = out)
      BY <2>1, <3>1
    <3> HIDE DEF next, there
    <3>3. next <= (m - n) + 1 /\ (next = (m - n) + 1 => there = m + 1)
      BY <1>1, <1>3, <3>1, <3>2
    <3> QED  BY <1>7, <3>2, <3>3 DEF next
  <2> QED  BY <2>2, <2>3 DEF Open
<1> QED  BY <1>1, <1>2, <1>6, <1>7, <1>11, <1>12, <1>13 DEF n, m, rest, first

\* A buffer that begins with a header is taken as it is.
LEMMA HeaderFirst ==
    ASSUME NEW b \in Seq(Words), b # <<>> => b[1].claim > 0
    PROVE  FromHeader(b) = b
<1> DEFINE starts == {i \in DOMAIN b : b[i].claim > 0}
<1>1. CASE b = <<>>
  <2>1. starts = {}
    BY <1>1
  <2> QED  BY <1>1, <2>1 DEF FromHeader
<1>2. CASE b # <<>>
  <2>1. 1 \in starts /\ \A i \in starts : i \in Nat /\ 1 <= i
    BY <1>2
  <2> HIDE DEF starts
  <2>2. (CHOOSE i \in starts : \A j \in starts : i <= j) = 1
    BY <2>1
  <2>3. FromHeader(b) = SubSeq(b, 1, Len(b))
    BY <2>1, <2>2 DEF FromHeader, starts
  <2> QED  BY <2>3, SubSeqFull
<1> QED  BY <1>1, <1>2

\* A longer time does not disturb a line.
LEMMA LinkedLater ==
    ASSUME NEW line \in Seq(Words), NEW out \in Nat, Linked(line, out)
    PROVE  Linked(line, out + 1)
<1>1. \A i \in DOMAIN line : line[i].p \in Nat
  BY WordIs
<1>2. \A p \in Nat : p < out => p < out + 1
  OBVIOUS
<1> QED  BY <1>1, <1>2 DEF Linked

-----------------------------------------------------------------------------
(* The data server: what a reader gets. *)

\* The packet of a reader's last words.
LEMMA LastIs ==
    ASSUME NEW w \in Seq(Words)
    PROVE  PacketOf(w) \in Nat
<1>1. CASE \E p \in 1 .. MaxPackets, n \in Lengths : w = Packet(p, n)
  BY <1>1, PacketOfIs, LinkGiven
<1>2. CASE ~\E p \in 1 .. MaxPackets, n \in Lengths : w = Packet(p, n)
  BY <1>2 DEF PacketOf
<1> QED  BY <1>1, <1>2

LEMMA LineIs ==
    ASSUME NEW c \in ConnType, NEW d \in ReaderType
    PROVE  /\ d.buffer \in Seq(Words) /\ c.wire \in Seq(Words) /\ d.last \in Seq(Words)
           /\ Line(c, d) \in Seq(Words) /\ d.same \in BOOLEAN /\ PacketOf(d.last) \in Nat
           /\ c.server \in {"none", "backlog", "active", "inactive", "closed"}
           /\ d.pc \in {"connect", "receive", "parse"}
<1>1. d.buffer \in Seq(Words) /\ c.wire \in Seq(Words) /\ d.last \in Seq(Words)
  BY DEF ConnType, ReaderType
<1>2. Line(c, d) \in Seq(Words)
  BY <1>1, ConcatProperties DEF Line
<1>3. /\ d.same \in BOOLEAN /\ d.pc \in {"connect", "receive", "parse"}
      /\ c.server \in {"none", "backlog", "active", "inactive", "closed"}
  BY DEF ConnType, ReaderType
<1> QED  BY <1>1, <1>2, <1>3, LastIs

LEMMA EmptyLine ==
    ASSUME NEW out, NEW last, NEW same
    PROVE  Linked(<<>>, out) /\ Follows(<<>>, last, same) /\ (~same => Open(<<>>, last, same, out))
BY DEF Linked, Follows, Open

\* A connection is not there, or new, or accepted.
LEMMA NotConnected ==
    ASSUME NEW c \in ConnType, NEW d \in ReaderType, NEW out \in Nat, NEW e \in ReaderType,
           Served(c, d, out), e.pc = "connect", e.same = FALSE, e.last = d.last
    PROVE  Served(NoConnection, e, out) /\ NoConnection \in ConnType
<1>1. NoConnection \in ConnType /\ NoConnection.server = "none" /\ NoConnection.wire = <<>>
  BY DEF NoConnection, ConnType
<1> QED  BY <1>1, LinkGiven DEF Served

LEMMA NewConnection ==
    ASSUME NEW c \in ConnType, NEW d \in ReaderType, NEW out \in Nat, NEW e \in ReaderType,
           NEW f \in ConnType,
           Served(c, d, out), d.pc = "connect", e.pc = "receive", e.buffer = <<>>,
           e.last = d.last, e.same = d.same, f.server = "backlog", f.wire = <<>>
    PROVE  Served(f, e, out)
<1>1. Line(f, e) = <<>>
  BY DEF Line
<1>2. ~e.same
  BY DEF Served
<1>3. Linked(Line(f, e), out) /\ Follows(Line(f, e), PacketOf(e.last), e.same)
  BY <1>1, EmptyLine
<1> QED  BY <1>1, <1>2, <1>3, LinkGiven DEF Served

LEMMA Accepted ==
    ASSUME NEW c \in ConnType, NEW d \in ReaderType, NEW out \in Nat, NEW f \in ConnType,
           Served(c, d, out), c.server = "backlog", f.server = "active", f.wire = c.wire
    PROVE  Served(f, d, out)
<1>1. Line(f, d) = Line(c, d)
  BY DEF Line
<1>2. Line(c, d) = <<>> /\ ~d.same
  BY DEF Served
<1>3. Open(Line(f, d), PacketOf(d.last), d.same, out)
  BY <1>1, <1>2, EmptyLine
<1> QED  BY <1>1, <1>3 DEF Served

\* Words are received, or what is left is kept: the line is the same.
LEMMA SameLine ==
    ASSUME NEW c \in ConnType, NEW d \in ReaderType, NEW out \in Nat,
           NEW e \in ReaderType, NEW f \in ConnType,
           Served(c, d, out), d.pc # "connect", e.pc # "connect",
           e.last = d.last, e.same = d.same, f.server = c.server, Len(f.wire) <= SocketRoom,
           Line(f, e) = Line(c, d)
    PROVE  Served(f, e, out)
BY DEF Served

LEMMA ReceivedLine ==
    ASSUME NEW b \in Seq(Words), NEW w \in Seq(Words), NEW k \in 1 .. Len(w)
    PROVE  /\ SubSeq(w, 1, k) \in Seq(Words) /\ SubSeq(w, k + 1, Len(w)) \in Seq(Words)
           /\ b \o SubSeq(w, 1, k) \in Seq(Words)
           /\ Len(SubSeq(w, k + 1, Len(w))) <= Len(w)
           /\ (b \o SubSeq(w, 1, k)) \o SubSeq(w, k + 1, Len(w)) = b \o w
<1> DEFINE s == SubSeq(w, 1, k)  t == SubSeq(w, k + 1, Len(w))
<1>1. s \in Seq(Words) /\ t \in Seq(Words) /\ Len(t) <= Len(w)
  OBVIOUS
<1>2. s \o t = w
  BY ConcatAdjacentSubSeq, SubSeqFull
<1> HIDE DEF s, t
<1>3. b \o s \in Seq(Words)
  BY <1>1, ConcatProperties
<1>4. (b \o s) \o t = b \o (s \o t)
  BY <1>1, ConcatAssociative, SMTT(40)
<1> QED  BY <1>1, <1>2, <1>3, <1>4 DEF s, t

\* The buffer of a line that is linked begins with a header.
LEMMA BufferIsWhole ==
    ASSUME NEW c \in ConnType, NEW d \in ReaderType, NEW out \in Nat,
           Served(c, d, out), d.pc # "connect"
    PROVE  /\ FromHeader(d.buffer) = d.buffer
           /\ d.buffer # <<>> => Line(c, d) # <<>> /\ d.buffer[1] = Line(c, d)[1]
           /\ Len(d.buffer) <= Len(Line(c, d))
<1> DEFINE b == d.buffer  w == c.wire  line == b \o w
<1>1. b \in Seq(Words) /\ w \in Seq(Words)
  BY LineIs
<1>2. Linked(line, out)
  BY DEF Served, Line
<1> HIDE DEF b, w
<1>3. /\ line \in Seq(Words) /\ Len(line) = Len(b) + Len(w)
      /\ \A i \in 1 .. Len(b) : line[i] = b[i]
  BY <1>1, ConcatProperties
<1> HIDE DEF line
<1>4. Len(b) <= Len(line)
  BY <1>1, <1>3
<1>5. b # <<>> => line # <<>> /\ b[1] = line[1]
  BY <1>1, <1>3
<1>6. b # <<>> => b[1].claim > 0
  BY <1>2, <1>3, WordIs, LinkGiven, <1>5 DEF Linked
<1>7. FromHeader(b) = b
  BY <1>1, <1>6, HeaderFirst
<1> QED  BY <1>4, <1>5, <1>7 DEF b, line, w, Line

\* A packet is taken: it is the next one of the line.
LEMMA TakenPacket ==
    ASSUME NEW c \in ConnType, NEW d \in ReaderType, NEW out \in Nat, NEW e \in ReaderType,
           Served(c, d, out), d.pc = "parse", Complete(FromHeader(d.buffer)),
           LET b == FromHeader(d.buffer)
               n == Head(b).claim
           IN  /\ e.buffer = SubSeq(b, n + 1, Len(b))
               /\ e.last = SubSeq(b, 1, n),
           e.same = TRUE, e.pc = "parse"
    PROVE  /\ Served(c, e, out) /\ PacketOf(e.last) \in 1 .. MaxPackets
           /\ IF d.same THEN PacketOf(e.last) = PacketOf(d.last) + 1
              ELSE PacketOf(e.last) > PacketOf(d.last)
<1> DEFINE b == d.buffer  w == c.wire  line == b \o w  n == b[1].claim  p == line[1].p
           rest == SubSeq(line, n + 1, Len(line))
<1>1. b \in Seq(Words) /\ w \in Seq(Words) /\ line \in Seq(Words) /\ PacketOf(d.last) \in Nat
      /\ line = Line(c, d)
  BY LineIs DEF Line
<1>2. b # <<>> /\ Head(b) = b[1] /\ n \in 1 .. Len(b) /\ FromHeader(b) = b /\ Len(b) \in Nat
  <2>1. FromHeader(b) = b
    BY BufferIsWhole
  <2>2. b # <<>> /\ Head(b).claim \in 1 .. Len(b)
    BY <2>1 DEF Complete
  <2>3. Head(b) = b[1]
    BY <1>1, <2>2
  <2>4. Len(b) \in Nat
    BY <1>1
  <2> QED  BY <2>1, <2>2, <2>3, <2>4
<1>3. line # <<>> /\ b[1] = line[1] /\ Len(b) <= Len(line)
  BY <1>2, BufferIsWhole DEF Line
<1>4. e.buffer = SubSeq(b, n + 1, Len(b)) /\ e.last = SubSeq(b, 1, n)
  BY <1>2
<1>5. Linked(line, out) /\ Follows(line, PacketOf(d.last), d.same)
  BY DEF Served, Line
<1>6. c.server = "active" => Open(line, PacketOf(d.last), d.same, out)
  BY DEF Served, Line
<1> HIDE DEF b, w
<1>7. SubSeq(line, 1, n) = SubSeq(b, 1, n)
  <2>1. 1 \in 1 .. Len(b)
    BY <1>2
  <2> QED  BY <1>1, <1>2, <2>1, SubSeqOfConcat1
<1>8. rest = SubSeq(b, n + 1, Len(b)) \o w
  <2> DEFINE s == SubSeq(b, n + 1, Len(b))
  <2>0. Len(w) \in Nat
    BY <1>1
  <2>1. s \in Seq(Words) /\ Len(s) = Len(b) - n /\ \A i \in 1 .. Len(b) - n : s[i] = b[n + i]
    <3>1. \A i \in n + 1 .. Len(b) : b[i] \in Words
      BY <1>1, <1>2
    <3>2. /\ s \in Seq(Words) /\ Len(s) = IF n + 1 <= Len(b) THEN Len(b) - (n + 1) + 1 ELSE 0
          /\ \A i \in 1 .. Len(b) - (n + 1) + 1 : s[i] = b[n + 1 + i - 1]
      BY <1>2, <3>1, SubSeqProperties, SMTT(40)
    <3>3. /\ Len(b) - (n + 1) + 1 = Len(b) - n /\ (n + 1 <= Len(b) \/ Len(b) - n = 0)
          /\ \A i \in 1 .. Len(b) - n : n + 1 + i - 1 = n + i
      BY <1>2
    <3> HIDE DEF s
    <3> QED  BY <1>2, <3>2, <3>3
  <2>2. /\ line \in Seq(Words) /\ Len(line) = Len(b) + Len(w)
        /\ \A i \in 1 .. Len(b) + Len(w) : line[i] = IF i <= Len(b) THEN b[i] ELSE w[i - Len(b)]
    BY <1>1, ConcatProperties
  <2> HIDE DEF s, line
  <2>3. /\ s \o w \in Seq(Words) /\ Len(s \o w) = Len(s) + Len(w)
        /\ \A i \in 1 .. Len(s) + Len(w) : (s \o w)[i] = IF i <= Len(s) THEN s[i] ELSE w[i - Len(s)]
    BY <1>1, <2>1, ConcatProperties
  <2> DEFINE l == Len(b)  k == Len(w)  m == Len(line)
  <2>4. l \in Nat /\ k \in Nat /\ m = l + k /\ n \in 1 .. l /\ Len(s) = l - n
    BY <1>2, <2>0, <2>1, <2>2
  <2>5. /\ rest \in Seq(Words) /\ Len(rest) = m - n
        /\ \A i \in 1 .. m - n : rest[i] = line[n + i]
    <3>1. \A i \in 1 .. m : line[i] \in Words
      BY <2>2, <2>4
    <3>2. rest = SubSeq(line, n + 1, m)
      OBVIOUS
    <3>3. m \in Nat /\ n \in Nat /\ 1 <= n /\ n <= m
      BY <2>4
    <3> HIDE DEF rest, l, k, m, n
    <3>4. \A i \in n + 1 .. m : line[i] \in Words
      BY <3>1, <3>3
    <3>5. /\ rest \in Seq(Words) /\ Len(rest) = IF n + 1 <= m THEN m - (n + 1) + 1 ELSE 0
          /\ \A i \in 1 .. m - (n + 1) + 1 : rest[i] = line[n + 1 + i - 1]
      BY <3>2, <3>3, <3>4, SubSeqProperties
    <3>6. /\ m - (n + 1) + 1 = m - n /\ (n + 1 <= m \/ m - n = 0)
          /\ \A i \in 1 .. m - n : n + 1 + i - 1 = n + i
      BY <3>3
    <3> QED  BY <3>3, <3>5, <3>6
  <2> HIDE DEF rest, n
  <2>6. ASSUME NEW i \in 1 .. m - n PROVE rest[i] = (s \o w)[i]
    <3>1. i \in Nat /\ n + i \in 1 .. l + k /\ i \in 1 .. (l - n) + k
      BY <2>4
    <3>2. rest[i] = IF n + i <= l THEN b[n + i] ELSE w[(n + i) - l]
      <4>1. rest[i] = line[n + i]
        BY <2>5
      <4> DEFINE u == n + i
      <4>2. u \in 1 .. l + k
        BY <3>1
      <4> HIDE DEF u
      <4>3. line[u] = IF u <= l THEN b[u] ELSE w[u - l]
        BY <2>2, <4>2
      <4> QED  BY <4>1, <4>3 DEF u
    <3>3. (s \o w)[i] = IF i <= l - n THEN s[i] ELSE w[i - (l - n)]
      BY <2>3, <2>4, <3>1
    <3>4. (n + i <= l <=> i <= l - n) /\ (n + i) - l = i - (l - n)
      BY <2>4, <3>1
    <3>5. i <= l - n => s[i] = b[n + i]
      BY <2>1, <2>4, <3>1
    <3> HIDE DEF l
    <3> QED  BY <3>2, <3>3, <3>4, <3>5
  <2>7. Len(rest) = Len(s \o w)
    BY <2>3, <2>4, <2>5
  <2> HIDE DEF m, l, k
  <2>8. \A i \in 1 .. Len(rest) : rest[i] = (s \o w)[i]
    BY <2>5, <2>6
  <2>9. rest = s \o w
    BY <2>3, <2>5, <2>7, <2>8, SeqEqual
  <2> QED  BY <2>9 DEF s
<1>9. line[1].claim = n /\ n <= Len(line)
  <2>1. Len(line) \in Nat
    BY <1>1
  <2> QED  BY <1>2, <1>3, <2>1
<1>10. /\ n \in Lengths /\ p \in 1 .. MaxPackets /\ p < out /\ SubSeq(line, 1, n) = Packet(p, n)
       /\ Linked(rest, out) /\ Follows(rest, p, TRUE)
       /\ \A last, same : Open(line, last, same, out) => Open(rest, p, TRUE, out)
  <2> HIDE DEF line
  <2> QED  BY <1>1, <1>3, <1>5, <1>9, LineShrinks
<1>11. PacketOf(e.last) = p
  <2>1. e.last = Packet(p, n)
    BY <1>4, <1>7, <1>10
  <2> HIDE DEF p, n
  <2> QED  BY <1>10, <2>1, PacketOfIs
<1>12. Line(c, e) = rest
  BY <1>4, <1>8 DEF Line, w
<1>13. IF d.same THEN p = PacketOf(d.last) + 1 ELSE p > PacketOf(d.last)
  BY <1>3, <1>5, <1>1, <1>10 DEF Follows
<1>14. Served(c, e, out)
  <2>1. Len(c.wire) <= SocketRoom /\ c.server # "none" /\ c.server # "backlog"
    BY <1>3 DEF Served, Line, b, w
  <2>2. c.server = "active" => Open(rest, p, TRUE, out)
    BY <1>6, <1>10
  <2> HIDE DEF rest, p
  <2> QED  BY <1>10, <1>11, <1>12, <2>1, <2>2 DEF Served
<1> QED  BY <1>10, <1>11, <1>13, <1>14

\* A packet is broadcast: to a reader's connection, whatever becomes of it.
LEMMA BroadcastServes ==
    ASSUME NEW c \in ConnType, NEW d \in ReaderType, NEW out \in 1 .. MaxPackets,
           NEW n \in Lengths, Served(c, d, out)
    PROVE  /\ BroadcastTo(c, Packet(out, n)) \in ConnType
           /\ Served(BroadcastTo(c, Packet(out, n)), d, out + 1)
<1> DEFINE w == Packet(out, n)  f == BroadcastTo(c, w)
<1>1. /\ Line(c, d) \in Seq(Words) /\ d.same \in BOOLEAN /\ PacketOf(d.last) \in Nat
      /\ c.wire \in Seq(Words) /\ d.buffer \in Seq(Words) /\ out \in Nat
      /\ w \in Seq(Words) /\ Len(w) = n /\ n \in Nat /\ n >= 2
      /\ PacketOf(d.last) < out /\ PacketOf(d.last) < out + 1
      /\ Len(c.wire) \in Nat /\ Len(c.wire) <= SocketRoom
  <2>1. out \in Nat /\ PacketOf(d.last) < out
    BY LinkGiven DEF Served
  <2>2. PacketOf(d.last) \in Nat
    BY LineIs
  <2>3. PacketOf(d.last) < out + 1
    BY <2>1, <2>2
  <2>4. Len(c.wire) \in Nat /\ c.wire \in Seq(Words)
    BY LineIs
  <2> QED  BY <2>1, <2>2, <2>3, <2>4, LineIs, PacketIs DEF Served
<1> HIDE DEF w
<1>2. CASE c.server \notin {"active", "inactive"}
  BY <1>2, <1>1, LinkedLater DEF BroadcastTo, Served, w
<1>3. CASE c.server = "inactive"
  <2>1. f = [c EXCEPT !.server = "closed"]
    BY <1>3 DEF BroadcastTo
  <2> HIDE DEF f
  <2>2. f \in ConnType /\ f.server = "closed" /\ f.wire = c.wire
    BY <2>1 DEF ConnType
  <2>3. Line(f, d) = Line(c, d)
    BY <2>2 DEF Line
  <2>4. d.pc # "connect" => Linked(Line(c, d), out + 1)
    BY <1>1, LinkedLater DEF Served
  <2>5. Served(f, d, out + 1)
    BY <1>1, <1>3, <2>2, <2>3, <2>4 DEF Served
  <2> QED  BY <2>2, <2>5 DEF f, w
<1>4. CASE c.server = "active"
  <2> DEFINE room == SocketRoom - Len(c.wire)  sent == Sent(w, room)
  <2>1. room \in Nat
    BY <1>1, LinkGiven
  <2>2. PICK k \in 0 .. n : sent = SubSeq(w, 1, k) /\ k <= room
    <3> HIDE DEF room
    <3>1. CASE n <= room
      BY <1>1, <3>1 DEF Sent
    <3>2. CASE ~(n <= room)
      <4>1. room \in 0 .. n /\ sent = SubSeq(w, 1, room) /\ room <= room
        BY <1>1, <2>1, <3>2 DEF Sent
      <4> QED  BY <4>1
    <3> QED  BY <3>1, <3>2
  <2>3. sent \in Seq(Words) /\ Len(sent) = k
    <3> HIDE DEF sent
    <3>1. SubSeq(w, 1, k) \in Seq(Words) /\ Len(SubSeq(w, 1, k)) = k
      BY <1>1, SubSeqProperties
    <3> QED  BY <2>2, <3>1
  <2> HIDE DEF sent
  <2>4. f = [server |-> IF Len(sent) = Len(w) THEN "active" ELSE "inactive",
             wire |-> c.wire \o sent]
    BY <1>4 DEF BroadcastTo, AfterSend, sent
  <2>5. /\ c.wire \o sent \in Seq(Words) /\ Len(c.wire \o sent) = Len(c.wire) + k
        /\ Len(c.wire \o sent) <= SocketRoom
    <3>1. c.wire \o sent \in Seq(Words) /\ Len(c.wire \o sent) = Len(c.wire) + Len(sent)
      BY <1>1, <2>3, ConcatProperties
    <3>2. Len(c.wire) + k <= SocketRoom
      BY <1>1, <2>2, LinkGiven
    <3> QED  BY <2>3, <3>1, <3>2
  <2> HIDE DEF f, room
  <2>6. /\ f \in ConnType /\ f.wire = c.wire \o sent /\ f.server \in {"active", "inactive"}
        /\ f.server = "active" <=> k = n
    BY <1>1, <2>3, <2>4, <2>5 DEF ConnType
  <2>7. Line(f, d) = Line(c, d) \o sent
    <3>1. (d.buffer \o c.wire) \o sent = d.buffer \o (c.wire \o sent)
      <4> DEFINE b == d.buffer  v == c.wire
      <4>1. b \in Seq(Words) /\ v \in Seq(Words) /\ sent \in Seq(Words)
        BY <1>1, <2>3
      <4> HIDE DEF b, v
      <4>2. (b \o v) \o sent = b \o (v \o sent)
        BY <4>1, ConcatAssociative
      <4> QED  BY <4>2 DEF b, v
    <3> QED  BY <2>6, <3>1 DEF Line
  <2>8. /\ d.pc # "connect" /\ Linked(Line(c, d), out) /\ Follows(Line(c, d), PacketOf(d.last), d.same)
        /\ Open(Line(c, d), PacketOf(d.last), d.same, out)
    BY <1>4 DEF Served
  <2>9. /\ Linked(Line(f, d), out + 1) /\ Follows(Line(f, d), PacketOf(d.last), d.same)
        /\ k = n => Open(Line(f, d), PacketOf(d.last), d.same, out + 1)
    <3> DEFINE line == Line(c, d)  last == PacketOf(d.last)
    <3>1. /\ line \in Seq(Words) /\ last \in Nat /\ d.same \in BOOLEAN /\ last < out
          /\ Linked(line, out) /\ Follows(line, last, d.same) /\ Open(line, last, d.same, out)
          /\ Line(f, d) = line \o SubSeq(Packet(out, n), 1, k)
      BY <1>1, <2>2, <2>7, <2>8 DEF w
    <3> HIDE DEF line, last
    <3>2. LET longer == line \o SubSeq(Packet(out, n), 1, k) IN
          /\ Linked(longer, out + 1) /\ Follows(longer, last, d.same)
          /\ k = n => Open(longer, last, d.same, out + 1)
      BY <3>1, LineGrows
    <3> QED  BY <3>1, <3>2 DEF last
  <2>10. Served(f, d, out + 1)
    BY <2>5, <2>6, <1>1, <2>8, <2>9 DEF Served
  <2> QED  BY <2>6, <2>10 DEF f, w
<1> QED  BY <1>2, <1>3, <1>4 DEF w

\* The invariant of the readers and their connections, kept by a step of one.
LEMMA OneReaderSteps ==
    ASSUME DataInv, NEW r \in Readers,
           conn' \in [Readers -> ConnType], reader' \in [Readers -> ReaderType],
           breaks' \in 0 .. MaxBreaks, conv' = conv,
           \A q \in Readers \ {r} : conn'[q] = conn[q] /\ reader'[q] = reader[q],
           Served(conn'[r], reader'[r], NextOut)
    PROVE  DataInv'
<1>1. NextOut' = NextOut
  BY DEF NextOut
<1>2. \A q \in Readers : Served(conn'[q], reader'[q], NextOut)
  BY DEF DataInv
<1> QED  BY <1>1, <1>2 DEF DataInv

LEMMA DataGiven ==
    ASSUME RtlInv, DataInv
    PROVE  /\ conv \in ConvType /\ NextOut \in Nat /\ breaks \in 0 .. MaxBreaks
           /\ \A r \in Readers : /\ conn[r] \in ConnType /\ reader[r] \in ReaderType
                                 /\ Served(conn[r], reader[r], NextOut)
<1>1. conv \in ConvType
  BY RtlTyped DEF RtlInv
<1>2. NextOut \in Nat
  BY <1>1, LinkGiven DEF NextOut, ConvType
<1> QED  BY <1>1, <1>2 DEF DataInv

LEMMA DataStarts == LinkInit => DataInv
<1> SUFFICES ASSUME LinkInit PROVE DataInv
  OBVIOUS
<1>1. <<>> \in Seq(Words)
  OBVIOUS
<1>2. NoConnection \in ConnType /\ NothingRead \in ReaderType
  BY <1>1 DEF NoConnection, NothingRead, ConnType, ReaderType
<1>3. /\ conn = [r \in Readers |-> NoConnection] /\ reader = [r \in Readers |-> NothingRead]
      /\ breaks = 0 /\ NextOut = 1
  BY DEF LinkInit, NextOut
<1>4. Served(NoConnection, NothingRead, 1)
  BY NothingIsNoPacket, LinkGiven DEF Served, NoConnection, NothingRead
<1> QED  BY <1>2, <1>3, <1>4, LinkGiven DEF DataInv

LEMMA AcceptServes ==
    ASSUME RtlInv, DataInv, NEW r \in Readers, Accept(r)
    PROVE  DataInv'
<1> DEFINE f == [conn[r] EXCEPT !.server = "active"]
<1>1. /\ conn[r].server = "backlog" /\ conn' = [conn EXCEPT ![r] = f]
      /\ UNCHANGED <<conv, reader, breaks>>
  BY DEF Accept
<1>2. f \in ConnType /\ f.server = "active" /\ f.wire = conn[r].wire
  BY DataGiven DEF ConnType
<1> HIDE DEF f
<1>3. Served(f, reader[r], NextOut)
  BY <1>1, <1>2, DataGiven, Accepted
<1>4. conn' \in [Readers -> ConnType] /\ conn'[r] = f /\ \A q \in Readers \ {r} : conn'[q] = conn[q]
  BY <1>1, <1>2 DEF DataInv
<1> QED  BY <1>1, <1>3, <1>4, OneReaderSteps DEF DataInv

LEMMA ConnectServes ==
    ASSUME RtlInv, DataInv, NEW r \in Readers, Connect(r)
    PROVE  DataInv' /\ reader'[r].last = reader[r].last /\ reader'[r].same = reader[r].same
<1> DEFINE e == [reader[r] EXCEPT !.pc = "receive", !.buffer = <<>>]
           f == [NoConnection EXCEPT !.server = "backlog"]
<1>1. /\ reader[r].pc = "connect" /\ conn' = [conn EXCEPT ![r] = f]
      /\ reader' = [reader EXCEPT ![r] = e] /\ UNCHANGED <<conv, breaks>>
  BY DEF Connect
<1>2. <<>> \in Seq(Words)
  OBVIOUS
<1>3. /\ e \in ReaderType /\ e.pc = "receive" /\ e.buffer = <<>> /\ e.last = reader[r].last
      /\ e.same = reader[r].same
  BY <1>2, DataGiven DEF ReaderType
<1>4. f \in ConnType /\ f.server = "backlog" /\ f.wire = <<>>
  BY <1>2 DEF ConnType, NoConnection
<1> HIDE DEF e, f
<1>5. Served(f, e, NextOut)
  BY <1>1, <1>3, <1>4, DataGiven, NewConnection
<1>6. /\ conn' \in [Readers -> ConnType] /\ conn'[r] = f
      /\ reader' \in [Readers -> ReaderType] /\ reader'[r] = e
      /\ \A q \in Readers \ {r} : conn'[q] = conn[q] /\ reader'[q] = reader[q]
  BY <1>1, <1>3, <1>4 DEF DataInv
<1> QED  BY <1>1, <1>3, <1>5, <1>6, OneReaderSteps DEF DataInv

LEMMA ReceiveServes ==
    ASSUME RtlInv, DataInv, NEW r \in Readers, Receive(r)
    PROVE  DataInv' /\ reader'[r].last = reader[r].last /\ reader'[r].same = reader[r].same
<1> DEFINE b == reader[r].buffer  w == conn[r].wire
<1>1. PICK k \in 1 .. Len(w) :
         /\ reader' = [reader EXCEPT ![r].pc = "parse", ![r].buffer = b \o SubSeq(w, 1, k)]
         /\ conn' = [conn EXCEPT ![r].wire = SubSeq(w, k + 1, Len(w))]
  BY DEF Receive
<1> DEFINE t == SubSeq(w, k + 1, Len(w))  u == b \o SubSeq(w, 1, k)
           e == [reader[r] EXCEPT !.pc = "parse", !.buffer = u]
           f == [conn[r] EXCEPT !.wire = t]
<1>2. /\ reader[r].pc = "receive" /\ conn' = [conn EXCEPT ![r] = f]
      /\ reader' = [reader EXCEPT ![r] = e] /\ UNCHANGED <<conv, breaks>>
  BY <1>1 DEF Receive
<1>3. b \in Seq(Words) /\ w \in Seq(Words)
  BY DataGiven, LineIs
<1>4. t \in Seq(Words) /\ u \in Seq(Words) /\ Len(t) <= Len(w) /\ u \o t = b \o w
  <2> HIDE DEF b, w
  <2> QED  BY <1>3, ReceivedLine
<1>5. Len(t) <= SocketRoom
  BY <1>3, <1>4, DataGiven, LinkGiven DEF Served
<1> HIDE DEF t, u
<1>6. /\ e \in ReaderType /\ e.pc = "parse" /\ e.buffer = u /\ e.last = reader[r].last
      /\ e.same = reader[r].same
  BY <1>4, DataGiven DEF ReaderType
<1>7. f \in ConnType /\ f.server = conn[r].server /\ f.wire = t
  BY <1>4, DataGiven DEF ConnType
<1> HIDE DEF e, f
<1>8. Line(f, e) = Line(conn[r], reader[r])
  BY <1>4, <1>6, <1>7 DEF Line
<1>9. Served(f, e, NextOut)
  BY <1>2, <1>5, <1>6, <1>7, <1>8, DataGiven, SameLine
<1>10. /\ conn' \in [Readers -> ConnType] /\ conn'[r] = f
       /\ reader' \in [Readers -> ReaderType] /\ reader'[r] = e
       /\ \A q \in Readers \ {r} : conn'[q] = conn[q] /\ reader'[q] = reader[q]
  BY <1>2, <1>6, <1>7 DEF DataInv
<1> QED  BY <1>2, <1>6, <1>9, <1>10, OneReaderSteps DEF DataInv

LEMMA LeaveServes ==
    ASSUME RtlInv, DataInv, NEW r \in Readers, Disconnect(r) \/ Break(r)
    PROVE  DataInv' /\ reader'[r].last = reader[r].last /\ reader'[r].same = FALSE
<1> DEFINE e == [reader[r] EXCEPT !.pc = "connect", !.same = FALSE]
<1>1. /\ conn' = [conn EXCEPT ![r] = NoConnection]
      /\ reader' = [reader EXCEPT ![r] = e] /\ UNCHANGED conv
  BY DEF Disconnect, Break, Reconnect
<1>2. breaks' \in 0 .. MaxBreaks
  BY LinkGiven DEF Disconnect, Break, DataInv
<1>3. /\ e \in ReaderType /\ e.pc = "connect" /\ e.last = reader[r].last /\ e.same = FALSE
  BY DataGiven DEF ReaderType
<1> HIDE DEF e
<1>4. Served(NoConnection, e, NextOut) /\ NoConnection \in ConnType
  BY <1>3, DataGiven, NotConnected
<1>5. /\ conn' \in [Readers -> ConnType] /\ conn'[r] = NoConnection
      /\ reader' \in [Readers -> ReaderType] /\ reader'[r] = e
      /\ \A q \in Readers \ {r} : conn'[q] = conn[q] /\ reader'[q] = reader[q]
  BY <1>1, <1>3, <1>4 DEF DataInv
<1> QED  BY <1>1, <1>2, <1>3, <1>4, <1>5, OneReaderSteps

LEMMA WaitServes ==
    ASSUME RtlInv, DataInv, NEW r \in Readers, Wait(r)
    PROVE  DataInv' /\ reader'[r].last = reader[r].last /\ reader'[r].same = reader[r].same
<1> DEFINE e == [reader[r] EXCEPT !.pc = "receive", !.buffer = FromHeader(@)]
<1>1. reader[r].pc = "parse" /\ UNCHANGED <<conv, conn, breaks>>
      /\ reader' = [reader EXCEPT ![r] = e]
  BY DEF Wait
<1>2. FromHeader(reader[r].buffer) = reader[r].buffer
  BY <1>1, DataGiven, BufferIsWhole
<1>3. /\ e \in ReaderType /\ e.pc = "receive" /\ e.buffer = reader[r].buffer
      /\ e.last = reader[r].last /\ e.same = reader[r].same
  BY <1>2, DataGiven DEF ReaderType
<1> HIDE DEF e
<1>4. Line(conn[r], e) = Line(conn[r], reader[r])
  BY <1>3 DEF Line
<1>5. Served(conn[r], e, NextOut)
  BY DataGiven, <1>1, <1>3, <1>4, SameLine DEF Served
<1>6. /\ reader' \in [Readers -> ReaderType] /\ reader'[r] = e
      /\ \A q \in Readers \ {r} : reader'[q] = reader[q]
  BY <1>1, <1>3 DEF DataInv
<1> QED  BY <1>1, <1>3, <1>5, <1>6, OneReaderSteps DEF DataInv

LEMMA TakeServes ==
    ASSUME RtlInv, DataInv, NEW r \in Readers, Take(r)
    PROVE  /\ DataInv' /\ PacketOf(reader'[r].last) \in 1 .. MaxPackets /\ reader'[r].same = TRUE
           /\ IF reader[r].same THEN PacketOf(reader'[r].last) = PacketOf(reader[r].last) + 1
              ELSE PacketOf(reader'[r].last) > PacketOf(reader[r].last)
<1> DEFINE b == FromHeader(reader[r].buffer)  n == Head(b).claim
           rest == SubSeq(b, n + 1, Len(b))  taken == SubSeq(b, 1, n)
           e == [reader[r] EXCEPT !.buffer = rest, !.last = taken, !.same = TRUE]
<1>1. /\ reader[r].pc = "parse" /\ UNCHANGED <<conv, conn, breaks>> /\ Complete(b)
      /\ reader' = [reader EXCEPT ![r] = e]
  BY DEF Take
<1>2. b \in Seq(Words) /\ n \in 1 .. Len(b)
  BY <1>1, DataGiven, BufferIsWhole, LineIs DEF Complete
<1>3. rest \in Seq(Words) /\ taken \in Seq(Words)
  <2> HIDE DEF b, n
  <2> QED  BY <1>2
<1>4. /\ e \in ReaderType /\ e.pc = "parse" /\ e.buffer = rest /\ e.last = taken /\ e.same = TRUE
  <2> HIDE DEF rest, taken
  <2> QED  BY <1>1, <1>3, DataGiven DEF ReaderType
<1> HIDE DEF e
<1>5. /\ Served(conn[r], e, NextOut) /\ PacketOf(e.last) \in 1 .. MaxPackets
      /\ IF reader[r].same THEN PacketOf(e.last) = PacketOf(reader[r].last) + 1
         ELSE PacketOf(e.last) > PacketOf(reader[r].last)
  BY <1>1, <1>4, DataGiven, TakenPacket
<1>6. /\ reader' \in [Readers -> ReaderType] /\ reader'[r] = e
      /\ \A q \in Readers \ {r} : reader'[q] = reader[q]
  BY <1>1, <1>4 DEF DataInv
<1> QED  BY <1>1, <1>4, <1>5, <1>6, OneReaderSteps DEF DataInv

LEMMA BroadcastKeeps ==
    ASSUME RtlInv, DataInv, BroadcastData
    PROVE  DataInv'
<1>1. PICK n \in Lengths :
         conn' = [r \in Readers |-> BroadcastTo(conn[r], Packet(conv.next, n))]
  BY DEF BroadcastData
<1>2. /\ conv.pc = "data" /\ conv.next <= MaxPackets /\ UNCHANGED <<reader, breaks>>
      /\ conv'.pc = "check" /\ conv'.next = conv.next
  BY DataGiven DEF BroadcastData, ConvType
<1>3. NextOut = conv.next /\ NextOut' = conv.next + 1 /\ conv.next \in 1 .. MaxPackets
  BY <1>2, DataGiven, LinkGiven DEF NextOut, ConvType
<1>4. \A r \in Readers : /\ BroadcastTo(conn[r], Packet(conv.next, n)) \in ConnType
                         /\ Served(BroadcastTo(conn[r], Packet(conv.next, n)), reader[r],
                                   conv.next + 1)
  BY <1>3, DataGiven, BroadcastServes
<1> QED  BY <1>1, <1>2, <1>3, <1>4 DEF DataInv

\* The steps of the rtl_tcp server touch neither a reader nor what is out.
LEMMA ServerIsElsewhere ==
    ASSUME RtlInv, RtlCheck \/ RtlAdd \/ Serve \/ Worker \/ RtlLeave
    PROVE  UNCHANGED <<conn, reader, breaks>> /\ NextOut' = NextOut
<1>1. conv \in ConvType
  BY RtlTyped DEF RtlInv
<1>2. CASE RtlCheck \/ RtlAdd
  BY <1>1, <1>2 DEF RtlCheck, RtlAdd, NextOut, ConvType
<1>3. CASE Serve \/ Worker \/ RtlLeave
  BY <1>3 DEF Serve, Worker, RtlLeave, RtlAccept, RtlGreet, RtlClose, RtlClear, RtlTake, RtlSend,
              RtlFail, NextOut
<1> QED  BY <1>2, <1>3

LEMMA DataRests ==
    ASSUME DataInv, UNCHANGED <<conn, reader, breaks>>, NextOut' = NextOut
    PROVE  DataInv'
BY DEF DataInv

LEMMA DataNextKeeps ==
    ASSUME RtlInv, DataInv, [LinkNext]_linkVars
    PROVE  DataInv'
<1>1. CASE UNCHANGED linkVars
  BY <1>1, DataRests DEF linkVars, NextOut
<1>2. CASE RtlCheck \/ RtlAdd \/ Serve \/ Worker \/ RtlLeave
  BY <1>2, ServerIsElsewhere, DataRests
<1>3. CASE \E r \in Readers : Accept(r) \/ Read(r) \/ Break(r)
  BY <1>3, AcceptServes, ConnectServes, ReceiveServes, LeaveServes, WaitServes, TakeServes DEF Read
<1> QED  BY <1>1, <1>2, <1>3, BroadcastKeeps DEF LinkNext, Conversion

\* The inductive invariant of the data server: the line of each reader is made of
\* packets that follow each other and the one it got last.
THEOREM DataInvariant == LinkSpec => [](RtlInv /\ DataInv)
<1>1. RtlInv /\ DataInv /\ [LinkNext]_linkVars => DataInv'
  BY DataNextKeeps
<1> QED  BY <1>1, DataStarts, RtlInvariant, PTL DEF LinkSpec

LEMMA LinksAreSound == RtlInv /\ DataInv => LinkSound
<1> SUFFICES ASSUME RtlInv, DataInv PROVE LinkSound
  OBVIOUS
<1>1. conv \in ConvType /\ rtl \in RtlType
  BY RtlTyped DEF RtlInv
<1>2. LinkTypeOK
  BY <1>1 DEF LinkTypeOK, RtlInv, DataInv, Served, ConvType, RtlType, ConnType, ReaderType
<1>3. RtlCounted
  BY DEF RtlInv
<1> QED  BY <1>2, <1>3, RtlIsFresh DEF LinkSound

\* The servers' lists and connections are sound for any number of readers, any
\* lengths, room and caps (broadcast_data, add_data, worker_loop, server_loop).
THEOREM LinkCorrect == LinkSpec => []LinkSound
BY LinksAreSound, DataInvariant, PTL

\* A reader gets a PacketStream: whole packets, in order, with none missing on a
\* connection, whatever is short-sent, broken or read in pieces (broadcast_data,
\* data_receiver_thread, reader_loop).
THEOREM LinkRefinement == Readers # {} => (LinkSpec => ImplementsPacketStream)
<1> DEFINE got == PacketOf(reader[Observed].last)  same == reader[Observed].same
<1> SUFFICES ASSUME Readers # {} PROVE LinkSpec => ImplementsPacketStream
  OBVIOUS
<1>1. Observed \in Readers
  BY DEF Observed
<1>2. LinkInit => Stream!Init
  BY <1>1, NothingIsNoPacket DEF LinkInit, Stream!Init, NothingRead
<1>3. ASSUME RtlInv, DataInv, [LinkNext]_linkVars
      PROVE  [Stream!Next]_<<got, same>>
  <2>1. CASE UNCHANGED reader
    BY <2>1
  <2>2. CASE ~UNCHANGED reader
    <3>1. PICK r \in Readers : Read(r) \/ Break(r)
      BY <1>3, <2>2 DEF linkVars, LinkNext, Conversion, BroadcastData, RtlCheck, RtlAdd, Serve,
         RtlAccept, RtlGreet, RtlClose, RtlClear, Worker, RtlTake, RtlSend, RtlFail, RtlLeave, Accept
    <3>2. CASE r # Observed
      <4>1. reader'[Observed] = reader[Observed]
        <5>1. reader \in [Readers -> ReaderType]
          BY <1>3 DEF DataInv
        <5>2. CASE Connect(r) \/ Receive(r) \/ Wait(r)
          BY <1>1, <3>2, <5>1, <5>2 DEF Connect, Receive, Wait
        <5>3. CASE Disconnect(r) \/ Break(r)
          BY <1>1, <3>2, <5>1, <5>3 DEF Disconnect, Break, Reconnect
        <5>4. CASE Take(r)
          BY <1>1, <3>2, <5>1, <5>4 DEF Take
        <5> QED  BY <3>1, <5>2, <5>3, <5>4 DEF Read
      <4> QED  BY <4>1
    <3>3. CASE r = Observed
      <4>1. CASE Connect(r) \/ Receive(r) \/ Wait(r)
        BY <1>3, <4>1, ConnectServes, ReceiveServes, WaitServes, <3>3
      <4>2. CASE Disconnect(r) \/ Break(r)
        BY <1>3, <4>2, LeaveServes, <3>3 DEF Stream!Next, Stream!Break
      <4>3. CASE Take(r)
        BY <1>3, <3>3, <4>3, TakeServes DEF Stream!Next, Stream!Receive
      <4> QED  BY <3>1, <4>1, <4>2, <4>3 DEF Read
    <3> QED  BY <3>2, <3>3
  <2> QED  BY <2>1, <2>2
<1> QED  BY <1>2, <1>3, DataInvariant, PTL DEF LinkSpec, ImplementsPacketStream, Stream!Spec

-----------------------------------------------------------------------------
(* The recording.                                                            *)

Formats    == {"csv", "sqlite"}
Captures   == [dec : LogDecs, frame : Nat, stamp : Nat]
Entries    == [dec : LogDecs, frame : Nat, stamp : Nat, run : Nat]
Recordings == [kind : {"none", "csv", "sqlite"}, recs : Seq(Entries), kept : Nat]
Sessions   == [running : BOOLEAN, format : Formats, file : Files, entries : Nat, lost : Nat,
               run : Nat]
Stages     == [pc : {"none", "top", "bearing", "stamp", "write"}, got : Seq(Captures),
               next : SUBSET LogDecs]
Syncs      == [dirty : BOOLEAN, since : Nat, looped : BOOLEAN]

RecTypes ==
    /\ published \in [LogDecs -> Nat] /\ stamps \in [LogDecs -> Nat] /\ waits \subseteq LogDecs
    /\ conf \in [format : Formats, file : Files]
    /\ rec \in Sessions /\ stage \in Stages /\ sync \in Syncs /\ files \in [Files -> Recordings]
    /\ \A f \in Files : files[f].kept <= Len(files[f].recs)
    /\ late \in Nat /\ asking \in {"idle", "joining"} /\ torn \in BOOLEAN

\* The thread lives from the start to the end of the join of a stop, and when it
\* is gone all there is has reached the medium.
Settled ==
    /\ rec.running => asking = "idle" /\ stage.pc # "none" /\ files[rec.file].kind # "none"
    /\ ~rec.running /\ asking = "idle" =>
          stage.pc = "none" /\ late = 0 /\ files[rec.file].kept = Len(files[rec.file].recs)

\* A captured frame is not older than what is written of its decimator, and its
\* stamp, once read, not older than the frame.
Fresh(r, whole) ==
    /\ stamps[r.dec] <= r.frame /\ r.frame <= published[r.dec]
    /\ whole => r.frame <= r.stamp /\ r.stamp <= published[r.dec]

\* The capture goes through the decimators in their order.
HalfRead(i) == stage.pc = "stamp" /\ i = Len(stage.got)
Capturing ==
    /\ stage.pc \in {"bearing", "stamp"} => stage.next # {}
    /\ stage.pc = "stamp" => Len(stage.got) >= 1
    /\ \A i, j \in 1 .. Len(stage.got) : i < j => stage.got[i].dec < stage.got[j].dec
    /\ \A i \in 1 .. Len(stage.got) :
          IF HalfRead(i) THEN stage.got[i].dec = Lowest(stage.next)
                     ELSE \A d \in stage.next : stage.got[i].dec < d
    /\ stage.pc \in {"bearing", "stamp", "write"} =>
          \A i \in 1 .. Len(stage.got) : Fresh(stage.got[i], ~HalfRead(i))
    /\ stage.pc # "none" => \A d \in LogDecs : stamps[d] <= published[d]

\* A record of a file is of no session to come, and what this session has written
\* of a decimator is not younger than the stamp it remembers.
Backed(r) ==
    /\ r.run <= rec.run /\ r.frame <= r.stamp
    /\ ~torn /\ r.run = rec.run => r.stamp <= stamps[r.dec]
Journal == \A f \in Files : \A j \in 1 .. Len(files[f].recs) : Backed(files[f].recs[j])

\* Why the loss is bounded: what waits for the sync is marked, and a round of the
\* loop with the interval over syncs.
Timely ==
    /\ sync.since <= SyncTicks /\ late <= SyncTicks + 1
    /\ late > 0 => sync.dirty
    /\ sync.looped => late <= SyncTicks
    /\ sync.since < SyncTicks => late <= sync.since + 1

RecRest == Journal /\ RecordsAdvance /\ CountedIsThere
RecInv  == RecTypes /\ Settled /\ Capturing /\ RecRest /\ Timely

LEMMA RecGiven ==
    LogDecs \subseteq Nat /\ IsFiniteSet(LogDecs) /\ SyncTicks \in Nat /\ SyncTicks >= 1
BY RecorderAssumption

LEMMA LeastOf ==
    ASSUME NEW T \in SUBSET Nat, T # {}
    PROVE  Lowest(T) \in T /\ \A j \in T : Lowest(T) <= j
<1>1. PICK i \in T : \A j \in T : ~(<<j, i>> \in OpToRel(<, Nat))
  BY NatLessThanWellFounded, WFMin, Zenon
<1>2. \A j \in T : ~(j < i)
  BY <1>1 DEF OpToRel
<1>3. \E x \in T : \A y \in T : x <= y
  BY <1>2
<1> QED  BY <1>3 DEF Lowest

LEMMA LowestIsNext ==
    ASSUME RecTypes, Capturing, stage.pc \in {"bearing", "stamp"}
    PROVE  /\ Lowest(stage.next) \in stage.next /\ Lowest(stage.next) \in LogDecs
           /\ \A d \in stage.next : Lowest(stage.next) <= d
<1>1. stage.next \in SUBSET Nat /\ stage.next # {} /\ stage.next \subseteq LogDecs
  BY RecGiven DEF RecTypes, Stages, Capturing
<1> QED  BY <1>1, LeastOf

\* What an action leaves alone.
LEMMA RecKept ==
    ASSUME RecInv
    PROVE  /\ UNCHANGED <<rec, asking, stage, files, late>> => Settled'
           /\ UNCHANGED <<stage, stamps, published>> => Capturing'
           /\ UNCHANGED <<files, rec, torn, stamps>> => RecRest'
           /\ UNCHANGED <<sync, late>> => Timely'
<1>1. UNCHANGED <<rec, asking, stage, files, late>> => Settled'
  BY DEF RecInv, Settled
<1>2. UNCHANGED <<stage, stamps, published>> => Capturing'
  BY DEF RecInv, Capturing, Fresh, HalfRead
<1>3. UNCHANGED <<files, rec, torn, stamps>> => RecRest'
  BY DEF RecInv, RecRest, Journal, Backed, RecordsAdvance, CountedIsThere, OfThisSession
<1>4. UNCHANGED <<sync, late>> => Timely'
  BY DEF RecInv, Timely
<1> QED  BY <1>1, <1>2, <1>3, <1>4

\* A capture that goes on with other decimators publishing, or on the clock.
LEMMA Surroundings ==
    ASSUME RecInv, (\E d \in LogDecs : Publish(d)) \/ NoiseTurns \/ IntervalPasses
    PROVE  RecInv'
<1>1. CASE \E d \in LogDecs : Publish(d)
  <2>1. PICK d \in LogDecs : Publish(d)
    BY <1>1
  <2>2. /\ published' = [published EXCEPT ![d] = published[d] + 1]
        /\ UNCHANGED <<conf, rec, stage, stamps, waits, sync, files, late, asking, torn>>
    BY <2>1 DEF Publish
  <2>3. published \in [LogDecs -> Nat] /\ stamps \in [LogDecs -> Nat]
        /\ \A i \in 1 .. Len(stage.got) : stage.got[i] \in Captures
    BY DEF RecInv, RecTypes, Stages
  <2>4. published' \in [LogDecs -> Nat] /\ \A e \in LogDecs : published[e] <= published'[e]
    BY <2>2, <2>3
  <2>5. RecTypes'
    BY <2>2, <2>4 DEF RecInv, RecTypes
  <2>6. ASSUME NEW e \in LogDecs, stamps[e] <= published[e]
        PROVE  stamps'[e] <= published'[e]
    BY <2>2, <2>3, <2>4, <2>6
  <2>7. ASSUME NEW i \in 1 .. Len(stage.got), Fresh(stage.got[i], ~HalfRead(i))
        PROVE  Fresh(stage.got[i], ~HalfRead(i))'
    <3>1. PICK r : r = stage.got[i]
      OBVIOUS
    <3>2. r.dec \in LogDecs /\ r.frame \in Nat /\ r.stamp \in Nat
      BY <2>3, <3>1 DEF Captures
    <3>3. /\ published[r.dec] \in Nat /\ published'[r.dec] \in Nat
          /\ published[r.dec] <= published'[r.dec]
      BY <2>3, <2>4, <3>2
    <3>4. Fresh(r, ~HalfRead(i)) /\ HalfRead(i)' = HalfRead(i)
      BY <2>2, <2>7, <3>1 DEF HalfRead
    <3>5. /\ stamps'[r.dec] <= r.frame /\ r.frame <= published'[r.dec]
          /\ ~HalfRead(i)' => r.frame <= r.stamp /\ r.stamp <= published'[r.dec]
      BY <2>2, <3>2, <3>3, <3>4 DEF Fresh
    <3>6. stage'.got[i] = r
      BY <2>2, <3>1
    <3> QED  BY <3>5, <3>6 DEF Fresh
  <2>8. Capturing'
    BY <2>2, <2>6, <2>7 DEF RecInv, Capturing, HalfRead
  <2> QED  BY <2>2, <2>5, <2>8, RecKept DEF RecInv
<1>2. CASE NoiseTurns
  BY <1>2, RecKept DEF NoiseTurns, RecInv, RecTypes
<1>3. CASE IntervalPasses
  BY <1>3, RecKept DEF IntervalPasses, RecInv, RecTypes
<1> QED  BY <1>1, <1>2, <1>3

\* What has reached the medium is there once.
LEMMA SyncedFits ==
    ASSUME RecTypes, NEW f \in Files
    PROVE  /\ Synced(f) \in [Files -> Recordings]
           /\ \A g \in Files : Synced(f)[g].recs = files[g].recs /\ Synced(f)[g].kind = files[g].kind
           /\ \A g \in Files : Synced(f)[g].kept <= Len(Synced(f)[g].recs)
           /\ Synced(f)[f].kept = Len(Synced(f)[f].recs)
<1>1. files \in [Files -> Recordings] /\ \A g \in Files : files[g].kept <= Len(files[g].recs)
  BY DEF RecTypes
<1>2. Len(files[f].recs) \in Nat /\ files[f] \in Recordings
  BY <1>1, LenProperties DEF Recordings
<1>3. PICK n : n = Len(files[f].recs)
  OBVIOUS
<1>4. Synced(f) = [files EXCEPT ![f] = [files[f] EXCEPT !.kept = n]]
  BY <1>1, <1>3 DEF Synced
<1>5. [files[f] EXCEPT !.kept = n] \in Recordings
  BY <1>2, <1>3 DEF Recordings
<1>6. Synced(f) \in [Files -> Recordings]
  BY <1>1, <1>4, <1>5
<1>7. /\ Synced(f)[f].kept = n /\ Synced(f)[f].recs = files[f].recs /\ Synced(f)[f].kind = files[f].kind
      /\ \A g \in Files \ {f} : Synced(f)[g] = files[g]
  BY <1>1, <1>2, <1>4 DEF Recordings
<1>8. n <= n
  BY <1>2, <1>3
<1> QED  BY <1>1, <1>3, <1>6, <1>7, <1>8

\* The records stay while only the medium takes them.
LEMMA RecordsStay ==
    ASSUME RecInv, UNCHANGED <<stamps, torn>>,
           \A f \in Files : files'[f].recs = files[f].recs /\ files'[f].kind = files[f].kind,
           rec'.run = rec.run, rec'.entries = rec.entries, rec'.lost = rec.lost,
           rec'.file = rec.file,            rec'.running => rec.running
    PROVE  RecRest'
<1>1. rec.file \in Files
  BY DEF RecInv, RecTypes, Sessions
<1>2. Journal'
  BY DEF RecInv, RecRest, Journal, Backed
<1>3. RecordsAdvance'
  BY DEF RecInv, RecRest, RecordsAdvance
<1>4. CountedIsThere'
  BY <1>1 DEF RecInv, RecRest, CountedIsThere, OfThisSession
<1> QED  BY <1>2, <1>3, <1>4 DEF RecRest

\* The clock, and the rounds of the loop.
LEMMA ClockFits ==
    ASSUME RecInv, Tick
    PROVE  RecInv'
<1>1. /\ asking = "idle" /\ (stage.pc = "none" \/ (stage.pc = "top" /\ sync.looped))
      /\ sync' = [sync EXCEPT !.since = IF sync.since < SyncTicks THEN sync.since + 1 ELSE sync.since,
                              !.looped = FALSE]
      /\ late' = IF late = 0 THEN 0 ELSE late + 1
      /\ UNCHANGED <<published, conf, rec, stage, stamps, waits, files, asking, torn>>
  BY DEF Tick
<1>2. /\ sync \in Syncs /\ late \in Nat /\ sync.since \in Nat /\ sync.since <= SyncTicks
      /\ SyncTicks \in Nat
  BY RecGiven DEF RecInv, RecTypes, Timely, Syncs
<1>3. late = 0 \/ (sync.looped /\ late <= SyncTicks)
  BY <1>1 DEF RecInv, Settled, Timely
<1>4. PICK n : n = IF sync.since < SyncTicks THEN sync.since + 1 ELSE sync.since
  OBVIOUS
<1>5. /\ n \in Nat /\ n <= SyncTicks /\ (n < SyncTicks => n = sync.since + 1)
      /\ (sync.since < SyncTicks => n = sync.since + 1)
  BY <1>2, <1>4
<1>6. /\ sync' \in Syncs /\ sync'.since = n /\ sync'.looped = FALSE /\ sync'.dirty = sync.dirty
  BY <1>1, <1>2, <1>4, <1>5 DEF Syncs
<1>7. late' \in Nat /\ late' <= SyncTicks + 1 /\ (late' > 0 => late > 0 /\ late' = late + 1)
  BY <1>1, <1>2, <1>3
<1>8. RecTypes'
  BY <1>1, <1>6, <1>7 DEF RecInv, RecTypes
<1>9. Settled'
  BY <1>1 DEF RecInv, Settled
<1>10. Timely'
  <2>1. n < SyncTicks => late' <= n + 1
    <3>1. sync.since < SyncTicks => late <= sync.since + 1
      BY DEF RecInv, Timely
    <3>2. CASE late' = 0
      BY <1>5, <3>2
    <3>3. CASE late' # 0
      <4>1. late' = late + 1
        BY <1>7, <3>3
      <4> HIDE DEF RecInv
      <4> QED  BY <1>2, <1>5, <3>1, <4>1
    <3> QED  BY <3>2, <3>3
  <2>2. late > 0 => sync.dirty
    BY DEF RecInv, Timely
  <2> QED  BY <1>5, <1>6, <1>7, <2>1, <2>2 DEF Timely
<1> QED  BY <1>1, <1>8, <1>9, <1>10, RecKept DEF RecInv

LEMMA LoopTurns ==
    ASSUME RecInv, LoopTop
    PROVE  RecInv'
<1>1. /\ stage.pc = "top" /\ rec.running
      /\ \/ stage' = stage
         \/ AnyDue /\ stage' = [pc |-> "bearing", got |-> <<>>, next |-> {d \in LogDecs : published[d] # 0}]
      /\ UNCHANGED <<published, conf, rec, stamps, waits, asking, torn>>
  BY DEF LoopTop
<1>2. stage' \in Stages /\ stage'.pc \in {"top", "bearing"}
  <2>1. stage \in Stages /\ <<>> \in Seq(Captures)
    BY EmptySeq DEF RecInv, RecTypes
  <2>2. PICK S : S = {d \in LogDecs : published[d] # 0}
    OBVIOUS
  <2>3. S \in SUBSET LogDecs
    BY <2>2
  <2>4. [pc |-> "bearing", got |-> <<>>, next |-> S] \in Stages
    BY <2>1, <2>3 DEF Stages
  <2>5. stage' = stage \/ stage' = [pc |-> "bearing", got |-> <<>>, next |-> S]
    BY <1>1, <2>2
  <2>6. [pc |-> "bearing", got |-> <<>>, next |-> S].pc = "bearing"
    OBVIOUS
  <2> QED  BY <1>1, <2>1, <2>4, <2>5, <2>6
<1>3. Capturing'
  <2>1. CASE stage' = stage
    BY <1>1, <2>1, RecKept
  <2>2. CASE AnyDue /\ stage' = [pc |-> "bearing", got |-> <<>>, next |-> {d \in LogDecs : published[d] # 0}]
    BY <2>2, <1>1 DEF AnyDue, RecInv, Capturing
  <2> QED  BY <1>1, <2>1, <2>2
<1>4. rec.file \in Files /\ sync \in Syncs /\ late \in Nat /\ sync.since \in Nat /\ SyncTicks \in Nat
  BY RecGiven DEF RecInv, RecTypes, Sessions, Syncs
<1>5. asking = "idle" /\ stage.pc # "none" /\ files[rec.file].kind # "none"
  BY <1>1 DEF RecInv, Settled
<1>6. CASE MaySync
  <2>1. /\ sync' = [dirty |-> FALSE, since |-> 0, looped |-> TRUE]
        /\ files' = Synced(rec.file) /\ late' = 0
    BY <1>6 DEF LoopTop
  <2>2. /\ files' \in [Files -> Recordings]
        /\ \A g \in Files : files'[g].recs = files[g].recs /\ files'[g].kind = files[g].kind
        /\ \A g \in Files : files'[g].kept <= Len(files'[g].recs)
    BY <1>4, <2>1, SyncedFits DEF RecInv
  <2>3. RecTypes'
    BY <1>1, <1>2, <2>1, <2>2 DEF RecInv, RecTypes, Syncs
  <2>4. Settled'
    BY <1>1, <1>2, <1>4, <1>5, <2>2 DEF Settled
  <2>5. RecRest'
    BY <1>1, <2>2, RecordsStay
  <2>6. Timely'
    BY <1>4, <2>1, RecGiven DEF Timely
  <2> QED  BY <1>3, <2>3, <2>4, <2>5, <2>6 DEF RecInv
<1>7. CASE ~MaySync
  <2>1. sync' = [sync EXCEPT !.looped = TRUE] /\ UNCHANGED <<files, late>>
    BY <1>7 DEF LoopTop
  <2>2. /\ sync' \in Syncs /\ sync'.looped = TRUE /\ sync'.dirty = sync.dirty
        /\ sync'.since = sync.since
    BY <1>4, <2>1 DEF Syncs
  <2>3. RecTypes'
    BY <1>1, <1>2, <2>1, <2>2 DEF RecInv, RecTypes
  <2>4. Settled'
    BY <1>1, <1>2, <1>5, <2>1 DEF Settled
  <2>5. RecRest'
    BY <1>1, <2>1, RecKept
  <2>6. Timely'
    BY <1>4, <1>7, <2>1, <2>2 DEF RecInv, Timely, MaySync
  <2> QED  BY <1>3, <2>3, <2>4, <2>5, <2>6 DEF RecInv
<1> QED  BY <1>6, <1>7

LEMMA ThreadEnds ==
    ASSUME RecInv, LoopEnds
    PROVE  RecInv'
<1>1. /\ stage.pc = "top" /\ ~rec.running /\ stage' = Asleep
      /\ UNCHANGED <<published, conf, rec, stamps, waits, sync, files, late, asking, torn>>
  BY DEF LoopEnds
<1>2. stage' \in Stages /\ stage'.pc = "none" /\ Len(stage'.got) = 0
  BY <1>1, EmptySeq DEF Asleep, Stages
<1>3. RecTypes'
  BY <1>1, <1>2 DEF RecInv, RecTypes
<1>4. Settled'
  BY <1>1 DEF RecInv, Settled
<1>5. Capturing'
  BY <1>2 DEF Capturing
<1> QED  BY <1>1, <1>3, <1>4, <1>5, RecKept DEF RecInv

\* The bearing of a decimator, and then its stamp.
LEMMA BearingCaptured ==
    ASSUME RecInv, CaptureBearing
    PROVE  RecInv'
<1> DEFINE d == Lowest(stage.next)
           r == [dec |-> d, frame |-> published[d], stamp |-> 0]
           n == Len(stage.got)
<1>1. /\ stage.pc = "bearing" /\ stage' = [stage EXCEPT !.pc = "stamp", !.got = Append(stage.got, r)]
      /\ UNCHANGED <<published, conf, rec, stamps, waits, sync, files, late, asking, torn>>
  BY DEF CaptureBearing
<1>2. d \in LogDecs /\ d \in stage.next
  BY <1>1, LowestIsNext DEF RecInv
<1>3. /\ stage \in Stages /\ stage.got \in Seq(Captures) /\ n \in Nat
      /\ published \in [LogDecs -> Nat] /\ stamps \in [LogDecs -> Nat]
  BY LenProperties DEF RecInv, RecTypes, Stages
<1>4. r \in Captures /\ r.dec = d /\ r.frame = published[d]
  BY <1>2, <1>3 DEF Captures
<1>5. /\ \A i, j \in 1 .. n : i < j => stage.got[i].dec < stage.got[j].dec
      /\ \A i \in 1 .. n : stage.got[i].dec < d
      /\ \A i \in 1 .. n : Fresh(stage.got[i], TRUE)
      /\ stamps[d] <= published[d]
  BY <1>1, <1>2 DEF RecInv, Capturing, HalfRead
<1> HIDE DEF d, r
<1>6. /\ stage' \in Stages /\ stage'.pc = "stamp" /\ stage'.next = stage.next
      /\ stage'.got = Append(stage.got, r)
  <2>1. Append(stage.got, r) \in Seq(Captures)
    BY <1>3, <1>4
  <2> QED  BY <1>1, <1>3, <2>1 DEF Stages
<1>7. /\ Len(stage'.got) = n + 1 /\ stage'.got[n + 1] = r
      /\ \A i \in 1 .. n : stage'.got[i] = stage.got[i]
  BY <1>3, <1>4, <1>6
<1> HIDE DEF n
<1>8. \A i \in 1 .. n + 1 : i \in 1 .. n \/ i = n + 1
  BY <1>3
<1>9. n + 1 \notin 1 .. n /\ n + 1 >= 1
  BY <1>3
<1>10. ASSUME NEW i \in 1 .. n + 1
       PROVE  IF i = n + 1 THEN stage'.got[i].dec = Lowest(stage'.next) /\ Fresh(stage'.got[i], FALSE)
                           ELSE Fresh(stage'.got[i], TRUE)
  <2>1. CASE i = n + 1
    BY <1>7, <2>1, <1>2, <1>3, <1>4, <1>5, <1>6 DEF Fresh, d
  <2>2. CASE i \in 1 .. n
    BY <1>1, <1>5, <1>7, <1>9, <2>2 DEF Fresh
  <2> QED  BY <1>8, <2>1, <2>2
<1>11. ASSUME NEW i \in 1 .. n + 1, NEW j \in 1 .. n + 1, i < j
       PROVE  stage'.got[i].dec < stage'.got[j].dec
  <2>1. i \in 1 .. n
    BY <1>3, <1>11
  <2>2. CASE j \in 1 .. n
    BY <1>5, <1>7, <1>11, <2>1, <2>2
  <2>3. CASE j = n + 1
    BY <1>4, <1>5, <1>7, <2>1, <2>3
  <2> QED  BY <1>8, <2>2, <2>3
<1>12. Capturing'
  <2>1. \A i \in 1 .. Len(stage'.got) : HalfRead(i)' <=> i = n + 1
    BY <1>6, <1>7 DEF HalfRead
  <2>2. \A e \in LogDecs : stamps'[e] <= published'[e]
    BY <1>1 DEF RecInv, Capturing
  <2>3. stage'.next # {} /\ Len(stage'.got) >= 1
    BY <1>2, <1>6, <1>7, <1>9
  <2>4. \A i \in 1 .. Len(stage'.got) :
          IF HalfRead(i)' THEN stage'.got[i].dec = Lowest(stage'.next)
                      ELSE \A e \in stage'.next : stage'.got[i].dec < e
    <3>1. ASSUME NEW i \in 1 .. n, NEW e \in stage.next
          PROVE  stage'.got[i].dec < e
      <4>1. stage.got[i].dec < e
        BY <1>1, <3>1 DEF RecInv, Capturing, HalfRead, n
      <4> QED  BY <1>7, <4>1
    <3> QED  BY <1>6, <1>7, <1>8, <1>10, <2>1, <3>1
  <2>5. \A i \in 1 .. Len(stage'.got) : Fresh(stage'.got[i], ~(HalfRead(i)'))
    BY <1>7, <1>10, <2>1 DEF Fresh
  <2>6. \A i, j \in 1 .. Len(stage'.got) : i < j => stage'.got[i].dec < stage'.got[j].dec
    BY <1>7, <1>11
  <2> QED  BY <1>1, <2>2, <2>3, <2>4, <2>5, <2>6 DEF Capturing, Fresh
<1>13. RecTypes'
  BY <1>1, <1>6 DEF RecInv, RecTypes
<1>14. Settled'
  BY <1>1, <1>6 DEF RecInv, Settled
<1> QED  BY <1>1, <1>12, <1>13, <1>14, RecKept DEF RecInv

LEMMA StampCaptured ==
    ASSUME RecInv, CaptureStamp
    PROVE  RecInv'
<1> DEFINE d == Lowest(stage.next)
           n == Len(stage.got)
           s == published[d]
           pc == IF stage.next = {d} THEN "write" ELSE "bearing"
<1>1. /\ stage.pc = "stamp"
      /\ stage' = [pc |-> pc, got |-> [stage.got EXCEPT ![n].stamp = s], next |-> stage.next \ {d}]
      /\ UNCHANGED <<published, conf, rec, stamps, waits, sync, files, late, asking, torn>>
  BY DEF CaptureStamp
<1>2. d \in LogDecs /\ d \in stage.next /\ \A e \in stage.next : d <= e
  BY <1>1, LowestIsNext DEF RecInv
<1>3. /\ stage \in Stages /\ stage.got \in Seq(Captures) /\ n \in Nat /\ n >= 1
      /\ published \in [LogDecs -> Nat] /\ stamps \in [LogDecs -> Nat]
  BY <1>1, LenProperties DEF RecInv, RecTypes, Stages, Capturing
<1>4. n \in 1 .. n /\ s \in Nat /\ stage.got[n] \in Captures /\ stage.next \subseteq LogDecs
  BY <1>2, <1>3 DEF Stages
<1>5. /\ \A i, j \in 1 .. n : i < j => stage.got[i].dec < stage.got[j].dec
      /\ stage.got[n].dec = d
      /\ \A i \in 1 .. n : i # n => Fresh(stage.got[i], TRUE)
      /\ Fresh(stage.got[n], FALSE)
      /\ \A i \in 1 .. n : i # n => \A e \in stage.next : stage.got[i].dec < e
  BY <1>1, <1>4 DEF RecInv, Capturing, HalfRead
<1> DEFINE r == [stage.got[n] EXCEPT !.stamp = s]
<1>6. r \in Captures /\ r.dec = d /\ r.frame = stage.got[n].frame /\ r.stamp = s
  BY <1>4, <1>5 DEF Captures
<1>7. [stage.got EXCEPT ![n].stamp = s] = [stage.got EXCEPT ![n] = r]
  BY <1>3, <1>4
<1> HIDE DEF d, s, r
<1>8. /\ [stage.got EXCEPT ![n] = r] \in Seq(Captures) /\ Len([stage.got EXCEPT ![n] = r]) = n
      /\ \A j \in 1 .. n : [stage.got EXCEPT ![n] = r][j] = IF j = n THEN r ELSE stage.got[j]
  BY <1>3, <1>4, <1>6, ExceptSeq
<1>9. /\ stage' \in Stages /\ stage'.pc = pc /\ stage'.next = stage.next \ {d}
      /\ stage'.got = [stage.got EXCEPT ![n] = r]
  BY <1>1, <1>7, <1>4, <1>8 DEF Stages
<1>10. Len(stage'.got) = n /\ \A j \in 1 .. n : stage'.got[j] = IF j = n THEN r ELSE stage.got[j]
  BY <1>8, <1>9
<1>11. pc \in {"write", "bearing"} /\ (pc = "bearing" => stage.next \ {d} # {})
  BY <1>2
<1> HIDE DEF n, pc
<1>12. \A i \in 1 .. n : stage'.got[i].dec = stage.got[i].dec
  BY <1>5, <1>6, <1>10
<1>13. \A i \in 1 .. n : Fresh(stage'.got[i], TRUE)
  <2>1. /\ stamps[d] <= stage.got[n].frame /\ stage.got[n].frame <= published[d]
    BY <1>5 DEF Fresh
  <2>2. published[d] \in Nat /\ stage.got[n].frame \in Nat
    BY <1>2, <1>3, <1>4 DEF Captures
  <2>3. s = published[d]
    BY DEF s
  <2>4. /\ stamps'[r.dec] <= r.frame /\ r.frame <= published'[r.dec]
        /\ r.frame <= r.stamp /\ r.stamp <= published'[r.dec]
    BY <1>1, <1>6, <2>1, <2>2, <2>3
  <2> QED  BY <1>1, <1>5, <1>10, <2>4 DEF Fresh
<1>14. ASSUME NEW i \in 1 .. n, NEW e \in stage'.next
       PROVE  stage'.got[i].dec < e
  <2>1. e \in stage.next /\ e # d /\ d <= e /\ e \in Nat /\ d \in Nat
    BY <1>2, <1>4, <1>9, RecGiven
  <2>2. CASE i = n
    BY <1>6, <1>10, <2>1, <2>2
  <2>3. CASE i # n
    BY <1>5, <1>10, <2>1, <2>3
  <2> QED  BY <2>2, <2>3
<1>15. Capturing'
  <2>1. \A i : ~HalfRead(i)'
    BY <1>9, <1>11 DEF HalfRead
  <2>2. \A e \in LogDecs : stamps'[e] <= published'[e]
    BY <1>1 DEF RecInv, Capturing
  <2>3. \A i \in 1 .. n : Fresh(stage'.got[i], ~(HalfRead(i)'))
    BY <1>13, <2>1 DEF Fresh
  <2>4. \A i, j \in 1 .. n : i < j => stage'.got[i].dec < stage'.got[j].dec
    BY <1>5, <1>12
  <2> QED  BY <1>1, <1>9, <1>10, <1>11, <1>14, <2>1, <2>2, <2>3, <2>4 DEF Capturing, Fresh
<1>16. RecTypes'
  BY <1>1, <1>9 DEF RecInv, RecTypes
<1>17. Settled'
  BY <1>1, <1>9, <1>11 DEF RecInv, Settled
<1> QED  BY <1>1, <1>15, <1>16, <1>17, RecKept DEF RecInv

\* The web thread: names, a stop, and what is deleted.
LEMMA WebCommands ==
    ASSUME RecInv,
           \/ \E c \in [format : Formats, file : Files] : Configure(c)
           \/ StopLogging \/ CloseSink
    PROVE  RecInv'
<1>0. rec \in Sessions /\ rec.file \in Files
  BY DEF RecInv, RecTypes, Sessions
<1>1. CASE \E c \in [format : Formats, file : Files] : Configure(c)
  BY <1>1, RecKept DEF Configure, RecInv, RecTypes
<1>2. CASE StopLogging
  <2>1. /\ asking = "idle" /\ rec.running /\ asking' = "joining" /\ rec' = [rec EXCEPT !.running = FALSE]
        /\ UNCHANGED <<published, conf, stage, stamps, waits, sync, files, late, torn>>
    BY <1>2 DEF StopLogging
  <2>2. /\ rec' \in Sessions /\ rec'.running = FALSE /\ rec'.run = rec.run
        /\ rec'.entries = rec.entries /\ rec'.file = rec.file
    BY <1>0, <2>1 DEF Sessions
  <2>3. RecTypes'
    BY <2>1, <2>2 DEF RecInv, RecTypes
  <2>4. Settled'
    BY <2>1, <2>2 DEF Settled
  <2>5. RecRest'
    BY <2>1, <2>2, RecordsStay
  <2> QED  BY <2>1, <2>3, <2>4, <2>5, RecKept DEF RecInv
<1>3. CASE CloseSink
  <2>1. /\ asking = "joining" /\ stage.pc = "none" /\ asking' = "idle"
        /\ files' = Synced(rec.file) /\ late' = 0
        /\ UNCHANGED <<published, conf, rec, stage, stamps, waits, sync, torn>>
    BY <1>3 DEF CloseSink, MayClose
  <2>2. /\ files' \in [Files -> Recordings]
        /\ \A g \in Files : files'[g].recs = files[g].recs /\ files'[g].kind = files[g].kind
        /\ \A g \in Files : files'[g].kept <= Len(files'[g].recs)
        /\ files'[rec.file].kept = Len(files'[rec.file].recs)
    BY <1>0, <2>1, SyncedFits DEF RecInv
  <2>3. RecTypes'
    BY <2>1, <2>2 DEF RecInv, RecTypes
  <2>4. Settled'
    BY <2>1, <2>2 DEF RecInv, Settled
  <2>5. RecRest'
    BY <2>1, <2>2, RecordsStay
  <2>6. Timely'
    BY RecGiven, <2>1 DEF RecInv, RecTypes, Syncs, Timely
  <2> QED  BY <2>1, <2>3, <2>4, <2>5, <2>6, RecKept DEF RecInv
<1> QED  BY <1>1, <1>2, <1>3

\* A file whose records are cut to a prefix holds them as it did.
LEMMA PrefixFits ==
    ASSUME RecInv, NEW f \in Files, NEW n \in 0 .. Len(files[f].recs), NEW k \in Recordings,
           k.recs = SubSeq(files[f].recs, 1, n), files' = [files EXCEPT ![f] = k],
           UNCHANGED <<stamps, torn>>, rec'.run = rec.run
    PROVE  /\ files' \in [Files -> Recordings] /\ files'[f] = k /\ Len(k.recs) = n
           /\ \A g \in Files \ {f} : files'[g] = files[g]
           /\ Journal' /\ RecordsAdvance'
<1>1. /\ files \in [Files -> Recordings] /\ files[f].recs \in Seq(Entries) /\ Len(files[f].recs) \in Nat
      /\ \A j \in 1 .. Len(files[f].recs) : files[f].recs[j] \in Entries
  BY LenProperties, ElementOfSeq DEF RecInv, RecTypes, Recordings
<1>2. PICK s : s = files[f].recs
  OBVIOUS
<1>3. n \in Nat /\ \A j \in 1 .. n : j \in 1 .. Len(s)
  BY <1>1, <1>2
<1>4. \A j \in 1 .. n : s[j] \in Entries
  BY <1>1, <1>2, <1>3
<1>5. Len(SubSeq(s, 1, n)) = n /\ \A i \in 1 .. n : SubSeq(s, 1, n)[i] = s[i]
  BY <1>3, <1>4, SubSeqProperties
<1>6. /\ files' \in [Files -> Recordings] /\ files'[f] = k
      /\ \A g \in Files \ {f} : files'[g] = files[g]
  BY <1>1
<1>7. Len(k.recs) = n /\ \A i \in 1 .. n : k.recs[i] = files[f].recs[i]
  BY <1>2, <1>5
<1>8. Journal'
  <2>1. ASSUME NEW g \in Files, NEW j \in 1 .. Len(files'[g].recs)
        PROVE  Backed(files'[g].recs[j])
    BY <1>2, <1>3, <1>6, <1>7 DEF RecInv, RecRest, Journal
  <2> QED  BY <2>1 DEF Journal, Backed
<1>9. RecordsAdvance'
  <2>0. \A g \in Files : DOMAIN files[g].recs = 1 .. Len(files[g].recs)
                         /\ DOMAIN files'[g].recs = 1 .. Len(files'[g].recs)
    <3>1. ASSUME NEW h \in Recordings PROVE DOMAIN h.recs = 1 .. Len(h.recs)
      BY LenProperties DEF Recordings
    <3> QED  BY <1>1, <1>6, <3>1
  <2>1. ASSUME NEW g \in Files, NEW j \in DOMAIN files'[g].recs
        PROVE  LET r == files'[g].recs[j] IN
               /\ r.frame <= r.stamp
               /\ ~torn' /\ r.run = rec'.run =>
                     \A i \in 1 .. j - 1 :
                         LET q == files'[g].recs[i] IN
                         q.run = r.run /\ q.dec = r.dec => q.stamp < r.stamp /\ q.stamp <= r.frame
    <3>1. j \in DOMAIN files[g].recs /\ files'[g].recs[j] = files[g].recs[j]
      BY <1>2, <1>3, <1>6, <1>7, <2>0, <2>1
    <3>2. j \in 1 .. Len(files'[g].recs)
      BY <2>0, <2>1
    <3>3. Len(files'[g].recs) \in Nat
      BY <1>3, <1>6, <1>7, <1>1, LenProperties DEF Recordings
    <3>4. \A i \in 1 .. j - 1 : i \in 1 .. Len(files'[g].recs)
      BY <3>2, <3>3
    <3>5. \A i \in 1 .. j - 1 : files'[g].recs[i] = files[g].recs[i]
      BY <1>6, <1>7, <3>4
    <3> QED  BY <3>1, <3>5 DEF RecInv, RecRest, RecordsAdvance
  <2> QED  BY <2>1 DEF RecordsAdvance
<1> QED  BY <1>6, <1>7, <1>8, <1>9

LEMMA RecordingDeleted ==
    ASSUME RecInv, NEW f \in Files, DeleteRecording(f)
    PROVE  RecInv'
<1>1. /\ asking = "idle" /\ ~(rec.running /\ f = rec.file) /\ files' = [files EXCEPT ![f] = Nothing]
      /\ UNCHANGED <<published, conf, rec, stage, stamps, waits, sync, late, asking, torn>>
  BY DEF DeleteRecording, MayDelete, Erased
<1>2. Nothing \in Recordings /\ Nothing.recs = <<>> /\ Nothing.kept = 0
  BY EmptySeq DEF Nothing, Recordings
<1>3. files[f].recs \in Seq(Entries) /\ rec.file \in Files
  BY DEF RecInv, RecTypes, Recordings, Sessions
<1>4. 0 \in 0 .. Len(files[f].recs) /\ Nothing.recs = SubSeq(files[f].recs, 1, 0)
  BY <1>2, <1>3, SubSeqEmpty, LenProperties
<1>5. /\ files' \in [Files -> Recordings] /\ files'[f] = Nothing /\ Len(Nothing.recs) = 0
      /\ \A g \in Files \ {f} : files'[g] = files[g]
      /\ Journal' /\ RecordsAdvance'
  BY <1>1, <1>2, <1>4, PrefixFits
<1>6. RecTypes'
  <2>1. \A g \in Files : files'[g].kept <= Len(files'[g].recs)
    <3>1. ASSUME NEW g \in Files PROVE files'[g].kept <= Len(files'[g].recs)
      <4>1. CASE g = f
        BY <1>2, <1>5, <4>1
      <4>2. CASE g # f
        BY <1>5, <4>2 DEF RecInv, RecTypes
      <4> QED  BY <4>1, <4>2
    <3> QED  BY <3>1
  <2> QED  BY <1>1, <1>5, <2>1 DEF RecInv, RecTypes
<1>7. Settled'
  <2>1. rec.running => files'[rec.file] = files[rec.file]
    BY <1>1, <1>3, <1>5
  <2>2. ~rec.running => /\ stage.pc = "none" /\ late = 0
                        /\ files'[rec.file].kept = Len(files'[rec.file].recs)
    <3>1. CASE f = rec.file
      BY <1>1, <1>2, <1>5, <3>1 DEF RecInv, Settled
    <3>2. CASE f # rec.file
      BY <1>1, <1>3, <1>5, <3>2 DEF RecInv, Settled
    <3> QED  BY <3>1, <3>2
  <2> QED  BY <1>1, <2>1, <2>2 DEF RecInv, Settled
<1>8. CountedIsThere'
  BY <1>1, <1>3, <1>5 DEF RecInv, RecRest, CountedIsThere, OfThisSession
<1>9. RecRest'
  BY <1>5, <1>8 DEF RecRest
<1> QED  BY <1>1, <1>6, <1>7, <1>9, RecKept DEF RecInv

LEMMA PowerGone ==
    ASSUME RecInv, PowerCut
    PROVE  RecInv'
<1> DEFINE f == rec.file
<1>1. f \in Files /\ rec \in Sessions /\ files \in [Files -> Recordings]
  BY DEF RecInv, RecTypes, Sessions
<1>2. files[f] \in Recordings /\ files[f].recs \in Seq(Entries) /\ files[f].kept \in Nat
  <2>1. files[f] \in Recordings
    BY <1>1
  <2> QED  BY <2>1 DEF Recordings
<1>3. PICK n \in files[f].kept .. Len(files[f].recs) :
          files' = [files EXCEPT ![f].recs = SubSeq(files[f].recs, 1, n), ![f].kept = n]
  BY DEF PowerCut
<1>4. n \in Nat /\ n \in 0 .. Len(files[f].recs)
  BY <1>2, LenProperties
<1> DEFINE k == [files[f] EXCEPT !.recs = SubSeq(files[f].recs, 1, n), !.kept = n]
<1>5. SubSeq(files[f].recs, 1, n) \in Seq(Entries)
  BY <1>2, <1>4, ElementOfSeq, LenProperties, SubSeqProperties
<1>6. k \in Recordings /\ k.recs = SubSeq(files[f].recs, 1, n) /\ k.kept = n
  BY <1>2, <1>4, <1>5 DEF Recordings
<1>7. files' = [files EXCEPT ![f] = k]
  BY <1>1, <1>3
<1>8. /\ rec' = [rec EXCEPT !.running = FALSE, !.entries = 0, !.lost = 0]
      /\ stage' = Asleep /\ asking' = "idle" /\ late' = 0
      /\ published' = [d \in LogDecs |-> 0]
      /\ sync' = [dirty |-> FALSE, since |-> 0, looped |-> FALSE]
      /\ UNCHANGED <<conf, stamps, waits, torn>>
  BY DEF PowerCut
<1>9. /\ rec' \in Sessions /\ rec'.running = FALSE /\ rec'.run = rec.run /\ rec'.file = f
  BY <1>1, <1>8 DEF Sessions
<1> HIDE DEF f, k
<1>10. /\ files' \in [Files -> Recordings] /\ files'[f] = k /\ Len(k.recs) = n
       /\ \A g \in Files \ {f} : files'[g] = files[g]
       /\ Journal' /\ RecordsAdvance'
  <2>1. UNCHANGED <<stamps, torn>> /\ rec'.run = rec.run
    BY <1>8, <1>9
  <2>2. f \in Files /\ k \in Recordings
    BY <1>1, <1>6
  <2>3. k.recs = SubSeq(files[f].recs, 1, n)
    BY <1>6
  <2> QED  BY <1>4, <1>7, <2>1, <2>2, <2>3, PrefixFits
<1>11. stage' \in Stages /\ stage'.pc = "none" /\ Len(stage'.got) = 0
  BY <1>8, EmptySeq DEF Asleep, Stages
<1>12. RecTypes'
  <2>1. files'[f].kept <= Len(files'[f].recs)
    BY <1>4, <1>6, <1>10
  <2>2. \A g \in Files : files'[g].kept <= Len(files'[g].recs)
    BY <1>10, <2>1 DEF RecInv, RecTypes
  <2>3. sync' \in Syncs /\ published' \in [LogDecs -> Nat]
    BY <1>8 DEF Syncs
  <2> QED  BY <1>8, <1>9, <1>10, <1>11, <2>2, <2>3 DEF RecInv, RecTypes
<1>13. Settled'
  BY <1>6, <1>8, <1>9, <1>10, <1>11 DEF Settled
<1>14. Capturing'
  BY <1>11 DEF Capturing
<1>15. RecRest'
  BY <1>9, <1>10 DEF RecRest, CountedIsThere
<1>16. Timely'
  BY <1>8, RecGiven DEF Timely
<1> QED  BY <1>12, <1>13, <1>14, <1>15, <1>16 DEF RecInv

\* A new session has nothing yet, and nothing of it is in any file.
LEMMA SessionStarts ==
    ASSUME RecInv, StartLogging
    PROVE  RecInv'
<1>1. /\ asking = "idle" /\ ~rec.running
      /\ rec' = [running |-> TRUE, format |-> conf.format, file |-> conf.file, entries |-> 0,
                 lost |-> 0, run |-> rec.run + 1]
      /\ stage' = [Asleep EXCEPT !.pc = "top"]
      /\ stamps' = [d \in LogDecs |-> 0] /\ waits' = {}
      /\ sync' = [dirty |-> FALSE, since |-> 0, looped |-> FALSE]
      /\ files' = [files EXCEPT ![conf.file].kind = conf.format]
      /\ torn' = FALSE
      /\ UNCHANGED <<published, conf, late, asking>>
  BY DEF StartLogging
<1>2. /\ conf.file \in Files /\ conf.format \in Formats /\ rec.run \in Nat
      /\ files \in [Files -> Recordings] /\ published \in [LogDecs -> Nat]
  BY DEF RecInv, RecTypes, Sessions
<1>3. late = 0
  BY <1>1 DEF RecInv, Settled
<1>4. rec' \in Sessions /\ rec'.run = rec.run + 1 /\ rec'.entries = 0 /\ rec'.lost = 0 /\ rec'.file = conf.file
      /\ rec'.running
  BY <1>2, <1>1 DEF Sessions
<1>5. /\ files' \in [Files -> Recordings] /\ files'[conf.file].kind = conf.format
      /\ \A g \in Files : files'[g].recs = files[g].recs /\ files'[g].kept = files[g].kept
  BY <1>1, <1>2 DEF Recordings, Formats
<1>6. stage' \in Stages /\ stage'.pc = "top" /\ Len(stage'.got) = 0
  BY <1>1, EmptySeq DEF Asleep, Stages
<1>7. RecTypes'
  BY <1>1, <1>4, <1>5, <1>6 DEF Syncs, RecInv, RecTypes
<1>8. Settled'
  BY <1>1, <1>2, <1>4, <1>5, <1>6 DEF Settled, Formats
<1>9. Capturing'
  BY <1>1, <1>2, <1>6 DEF Capturing
<1>10. \A g \in Files : \A j \in 1 .. Len(files[g].recs) :
          files[g].recs[j].run # rec.run + 1 /\ files[g].recs[j].run <= rec.run + 1
                /\ files[g].recs[j].frame <= files[g].recs[j].stamp
  <2>1. ASSUME NEW g \in Files, NEW j \in 1 .. Len(files[g].recs)
        PROVE  files[g].recs[j].run # rec.run + 1 /\ files[g].recs[j].run <= rec.run + 1
                /\ files[g].recs[j].frame <= files[g].recs[j].stamp
    <3>1. files[g].recs[j] \in Entries
      BY <1>2, ElementOfSeq DEF Recordings
    <3>2. files[g].recs[j].run \in Nat
      BY <3>1 DEF Entries
    <3>3. Backed(files[g].recs[j])
      BY DEF RecInv, RecRest, Journal
    <3>4. PICK x : x = files[g].recs[j].run
      OBVIOUS
    <3>5. x \in Nat /\ x <= rec.run /\ rec.run \in Nat
      BY <1>2, <3>2, <3>3, <3>4 DEF Backed
    <3>6. x # rec.run + 1 /\ x <= rec.run + 1
      BY <3>5
    <3> QED  BY <3>3, <3>4, <3>6 DEF Backed
  <2> QED  BY <2>1
<1>11. \A g \in Files : DOMAIN files[g].recs = 1 .. Len(files[g].recs)
  <2>1. ASSUME NEW h \in Recordings PROVE DOMAIN h.recs = 1 .. Len(h.recs)
    BY LenProperties DEF Recordings
  <2> QED  BY <1>2, <2>1
<1>12. RecRest'
  <2>1. Journal'
    BY <1>4, <1>5, <1>10 DEF Journal, Backed
  <2>2. RecordsAdvance'
    BY <1>4, <1>5, <1>10, <1>11 DEF RecordsAdvance
  <2>3. OfThisSession' = {}
    BY <1>2, <1>4, <1>5, <1>10, <1>11 DEF OfThisSession
  <2>4. CountedIsThere'
    BY <1>2, <1>4, <1>5, <2>3, FS_EmptySet DEF CountedIsThere, Formats
  <2> QED  BY <2>1, <2>2, <2>4 DEF RecRest
<1>13. Timely'
  BY <1>1, <1>3, RecGiven DEF Timely
<1> QED  BY <1>7, <1>8, <1>9, <1>12, <1>13 DEF RecInv

\* What is due: one capture of a decimator at most, and newer than what is written.
LEMMA DueIsNew ==
    ASSUME RecInv, stage.pc = "write"
    PROVE  /\ \A r \in ToWrite :
                /\ r \in Captures /\ r.frame <= r.stamp /\ stamps[r.dec] < r.stamp
                /\ stamps[r.dec] <= r.frame /\ r.stamp <= published[r.dec]
           /\ \A q, r \in ToWrite : q.dec = r.dec => q = r
           /\ IsFiniteSet(ToWrite) /\ Cardinality(ToWrite) \in Nat
<1>1. /\ stage.got \in Seq(Captures) /\ DOMAIN stage.got = 1 .. Len(stage.got) /\ Len(stage.got) \in Nat
      /\ \A i \in 1 .. Len(stage.got) : stage.got[i] \in Captures
      /\ stamps \in [LogDecs -> Nat]
  BY LenProperties, ElementOfSeq DEF RecInv, RecTypes, Stages
<1>2. /\ \A i \in 1 .. Len(stage.got) : Fresh(stage.got[i], TRUE)
      /\ \A i, j \in 1 .. Len(stage.got) : i < j => stage.got[i].dec < stage.got[j].dec
  BY DEF RecInv, Capturing, HalfRead
<1>3. ASSUME NEW r \in ToWrite
      PROVE  /\ r \in Captures /\ r.frame <= r.stamp /\ stamps[r.dec] < r.stamp
             /\ stamps[r.dec] <= r.frame /\ r.stamp <= published[r.dec]
  <2>1. PICK i \in 1 .. Len(stage.got) : r = stage.got[i]
    BY <1>1, <1>3 DEF ToWrite, ToSet
  <2>2. r \in Captures /\ Fresh(r, TRUE)
    BY <1>1, <1>2, <2>1
  <2>3. stamps[r.dec] # r.stamp
    BY <1>3 DEF ToWrite, Due
  <2>4. stamps[r.dec] \in Nat /\ r.frame \in Nat /\ r.stamp \in Nat
    BY <1>1, <2>2 DEF Captures
  <2>5. PICK x : x = stamps[r.dec]
    OBVIOUS
  <2>6. PICK y : y = r.frame
    OBVIOUS
  <2>7. PICK z : z = r.stamp
    OBVIOUS
  <2>8. x \in Nat /\ y \in Nat /\ z \in Nat /\ x # z /\ x <= y /\ y <= z
    BY <2>2, <2>3, <2>4, <2>5, <2>6, <2>7 DEF Fresh
  <2>9. x < z
    BY <2>8
  <2> QED  BY <2>2, <2>5, <2>7, <2>9 DEF Fresh
<1>4. ASSUME NEW q \in ToWrite, NEW r \in ToWrite, q.dec = r.dec
      PROVE  q = r
  <2>1. PICK i \in 1 .. Len(stage.got) : q = stage.got[i]
    BY <1>1, <1>4 DEF ToWrite, ToSet
  <2>2. PICK j \in 1 .. Len(stage.got) : r = stage.got[j]
    BY <1>1, <1>4 DEF ToWrite, ToSet
  <2>3. q.dec \in Nat
    BY <1>1, <2>1, RecGiven DEF Captures
  <2>4. ~(q.dec < r.dec) /\ ~(r.dec < q.dec)
    BY <1>4, <2>3
  <2>5. ~(i < j) /\ ~(j < i)
    BY <1>2, <2>1, <2>2, <2>4
  <2>6. i = j
    BY <1>1, <2>5
  <2> QED  BY <2>1, <2>2, <2>6
<1>5. IsFiniteSet(ToWrite)
  <2> DEFINE g == [r \in ToWrite |-> r.dec]
  <2>1. g \in [ToWrite -> LogDecs]
    BY <1>3 DEF Captures
  <2>2. g \in Injection(ToWrite, LogDecs)
    BY <1>4, <2>1 DEF Injection, IsInjective
  <2> QED  BY <2>2, FS_Injection, RecGiven
<1> QED  BY <1>3, <1>4, <1>5, FS_CardinalityType

\* What stands in a file after a list of captures went to its end.
LEMMA AppendFits ==
    ASSUME RecTypes, NEW t \in Seq(Captures), files' = Appended(t)
    PROVE  /\ files' \in [Files -> Recordings] /\ rec.file \in Files
           /\ \A g \in Files : /\ files'[g].kind = files[g].kind /\ files'[g].kept = files[g].kept
                               /\ g # rec.file => files'[g] = files[g]
           /\ Len(files'[rec.file].recs) = Len(files[rec.file].recs) + Len(t)
           /\ Len(t) \in Nat /\ Len(files[rec.file].recs) \in Nat
           /\ \A j \in 1 .. Len(files[rec.file].recs) : files'[rec.file].recs[j] = files[rec.file].recs[j]
           /\ \A i \in 1 .. Len(t) : files'[rec.file].recs[Len(files[rec.file].recs) + i] = Entry(t[i])
<1> DEFINE f == rec.file
           s == files[f].recs
           e == [i \in DOMAIN t |-> Entry(t[i])]
<1>1. f \in Files /\ files \in [Files -> Recordings] /\ rec.run \in Nat
  BY DEF RecTypes, Sessions
<1>2. files[f] \in Recordings
  BY <1>1
<1>3. s \in Seq(Entries) /\ Len(s) \in Nat
  BY <1>2, LenProperties DEF Recordings
<1>4. Len(t) \in Nat /\ DOMAIN t = 1 .. Len(t)
  BY LenProperties
<1>5. ASSUME NEW i \in 1 .. Len(t) PROVE Entry(t[i]) \in Entries
  <2>1. t[i] \in Captures
    BY ElementOfSeq
  <2> QED  BY <1>1, <2>1 DEF Captures, Entries, Entry
<1>6. e \in Seq(Entries) /\ Len(e) = Len(t) /\ \A i \in 1 .. Len(t) : e[i] = Entry(t[i])
  <2>1. e \in [1 .. Len(t) -> Entries] /\ \A i \in 1 .. Len(t) : e[i] = Entry(t[i])
    BY <1>4, <1>5
  <2> HIDE DEF e
  <2>2. e \in Seq(Entries)
    BY <1>4, <2>1, SeqDef
  <2>3. Len(e) = Len(t)
    BY <1>4, <2>1, <2>2, LenProperties
  <2> QED  BY <2>1, <2>2, <2>3
<1>7. files' = [files EXCEPT ![f].recs = s \o e]
  BY DEF Appended
<1> HIDE DEF f, s, e
<1>8. /\ s \o e \in Seq(Entries) /\ Len(s \o e) = Len(s) + Len(t)
      /\ \A j \in 1 .. Len(s) + Len(t) : (s \o e)[j] = IF j <= Len(s) THEN s[j] ELSE e[j - Len(s)]
  <2>1. s \in Seq(Entries) /\ e \in Seq(Entries)
    BY <1>3, <1>6
  <2>2. /\ s \o e \in Seq(Entries) /\ Len(s \o e) = Len(s) + Len(e)
        /\ \A j \in 1 .. Len(s) + Len(e) : (s \o e)[j] = IF j <= Len(s) THEN s[j] ELSE e[j - Len(s)]
    BY <2>1, ConcatProperties
  <2>3. PICK m : m = Len(t)
    OBVIOUS
  <2>4. Len(e) = m
    BY <1>6, <2>3
  <2>5. /\ s \o e \in Seq(Entries) /\ Len(s \o e) = Len(s) + m
        /\ \A j \in 1 .. Len(s) + m : (s \o e)[j] = IF j <= Len(s) THEN s[j] ELSE e[j - Len(s)]
    BY <2>2, <2>4
  <2> QED  BY <2>3, <2>5
<1>9. PICK c : c = s \o e
  OBVIOUS
<1>10. [files[f] EXCEPT !.recs = c] \in Recordings
  BY <1>2, <1>8, <1>9 DEF Recordings
<1>11. files' = [files EXCEPT ![f] = [files[f] EXCEPT !.recs = c]]
  BY <1>1, <1>7, <1>9
<1>12. files' \in [Files -> Recordings]
  BY <1>1, <1>10, <1>11
<1>13. files'[f] = [files[f] EXCEPT !.recs = c] /\ \A g \in Files \ {f} : files'[g] = files[g]
  BY <1>1, <1>11
<1>14. files'[f].recs = c /\ files'[f].kind = files[f].kind /\ files'[f].kept = files[f].kept
  BY <1>2, <1>13 DEF Recordings
<1>15. \A j \in 1 .. Len(s) : c[j] = s[j]
  BY <1>3, <1>4, <1>8, <1>9
<1>16. ASSUME NEW i \in 1 .. Len(t) PROVE c[Len(s) + i] = Entry(t[i])
  <2>1. PICK j : j = Len(s) + i
    OBVIOUS
  <2>2. j \in 1 .. Len(s) + Len(t) /\ ~(j <= Len(s)) /\ j - Len(s) = i
    BY <1>3, <1>4, <2>1
  <2>3. c[j] = e[i]
    BY <1>8, <1>9, <2>2
  <2> QED  BY <1>6, <2>1, <2>3
<1>17. \A g \in Files : files'[g].kind = files[g].kind /\ files'[g].kept = files[g].kept
  BY <1>13, <1>14
<1> QED  BY <1>1, <1>3, <1>4, <1>8, <1>9, <1>12, <1>13, <1>14, <1>15, <1>16, <1>17 DEF f, s

\* The list of what is due.
LEMMA DueIsListed ==
    ASSUME RecInv, stage.pc = "write", NEW rs \in Listed(ToWrite)
    PROVE  /\ rs \in Seq(ToWrite) /\ rs \in Seq(Captures) /\ Len(rs) = Cardinality(ToWrite)
           /\ \A i \in 1 .. Len(rs) : rs[i] \in ToWrite
           /\ \A i, j \in 1 .. Len(rs) : i < j => rs[i].dec < rs[j].dec
<1> DEFINE n == Cardinality(ToWrite)
<1>1. n \in Nat /\ ToWrite \subseteq Captures
  BY DueIsNew
<1>2. /\ rs \in [1 .. n -> ToWrite] /\ DOMAIN rs = 1 .. n
      /\ \A i, j \in 1 .. n : i < j => rs[i].dec < rs[j].dec
  BY DEF Listed
<1> HIDE DEF n
<1>3. rs \in Seq(ToWrite)
  BY <1>1, <1>2, SeqDef
<1>4. rs \in Seq(Captures)
  BY <1>1, <1>3, SeqMonotonic
<1>5. Len(rs) = n
  BY <1>3, LenProperties, <1>1, <1>2
<1> QED  BY <1>2, <1>3, <1>4, <1>5 DEF n

\* Where in a file that was appended to a record stands.
LEMMA OldOrNew ==
    ASSUME NEW m \in Nat, NEW n \in Nat, NEW j \in 1 .. m + n
    PROVE  j \in 1 .. m \/ (\E i \in 1 .. n : j = m + i)
<1>1. CASE j <= m
  BY <1>1
<1>2. CASE ~(j <= m)
  BY <1>2
<1> QED  BY <1>1, <1>2

\* A write taken for a success: every record is newer than all there are of its
\* decimator.
LEMMA WriteAdvances ==
    ASSUME RecInv, stage.pc = "write", NEW rs \in Seq(Captures), files' = Appended(rs),
           \A i \in 1 .. Len(rs) : rs[i] \in ToWrite,
           \A i, j \in 1 .. Len(rs) : i < j => rs[i].dec < rs[j].dec,
           rec'.run = rec.run, rec'.file = rec.file, torn' = torn,
           \A d \in LogDecs : stamps[d] <= stamps'[d],
           stamps' \in [LogDecs -> Nat],
           \A r \in ToWrite : stamps'[r.dec] = r.stamp
    PROVE  Journal' /\ RecordsAdvance'
<1> DEFINE f == rec.file
           m == Len(files[f].recs)
           n == Len(rs)
<1>1. /\ rs \in Seq(Captures) /\ \A i \in 1 .. n : rs[i] \in ToWrite
      /\ \A i, j \in 1 .. n : i < j => rs[i].dec < rs[j].dec
  OBVIOUS
<1>2. /\ files' \in [Files -> Recordings] /\ f \in Files
      /\ \A g \in Files : g # f => files'[g] = files[g]
      /\ Len(files'[f].recs) = m + n /\ n \in Nat /\ m \in Nat
      /\ \A j \in 1 .. m : files'[f].recs[j] = files[f].recs[j]
      /\ \A i \in 1 .. n : files'[f].recs[m + i] = Entry(rs[i])
  BY <1>1, AppendFits DEF RecInv
<1>3. ASSUME NEW i \in 1 .. n
      PROVE  /\ rs[i].dec \in LogDecs /\ rs[i].frame \in Nat /\ rs[i].stamp \in Nat
             /\ rs[i].frame <= rs[i].stamp /\ stamps[rs[i].dec] < rs[i].stamp
             /\ stamps[rs[i].dec] <= rs[i].frame /\ stamps'[rs[i].dec] = rs[i].stamp
  BY <1>1, DueIsNew DEF Captures
<1>4. /\ stamps \in [LogDecs -> Nat] /\ files \in [Files -> Recordings] /\ rec.run \in Nat
  BY DEF RecInv, RecTypes, Sessions
<1>5. \A g \in Files : \A j \in 1 .. Len(files[g].recs) : files[g].recs[j] \in Entries
  <2>1. ASSUME NEW h \in Recordings, NEW j \in 1 .. Len(h.recs) PROVE h.recs[j] \in Entries
    <3>1. h.recs \in Seq(Entries)
      BY DEF Recordings
    <3> QED  BY <3>1, ElementOfSeq
  <2> QED  BY <1>4, <2>1
<1>6. \A g \in Files : DOMAIN files[g].recs = 1 .. Len(files[g].recs)
                       /\ DOMAIN files'[g].recs = 1 .. Len(files'[g].recs)
                       /\ Len(files'[g].recs) \in Nat
  <2>1. ASSUME NEW h \in Recordings PROVE DOMAIN h.recs = 1 .. Len(h.recs) /\ Len(h.recs) \in Nat
    BY LenProperties DEF Recordings
  <2> QED  BY <1>2, <1>4, <2>1
<1> HIDE DEF f, m, n
<1>7. ASSUME NEW i \in 1 .. n
      PROVE  /\ files'[f].recs[m + i].dec = rs[i].dec /\ files'[f].recs[m + i].frame = rs[i].frame
             /\ files'[f].recs[m + i].stamp = rs[i].stamp /\ files'[f].recs[m + i].run = rec.run
  <2>1. files'[f].recs[m + i] = Entry(rs[i])
    BY <1>2
  <2>2. PICK r : r = rs[i]
    OBVIOUS
  <2>3. /\ Entry(r).dec = r.dec /\ Entry(r).frame = r.frame
        /\ Entry(r).stamp = r.stamp /\ Entry(r).run = rec.run
    BY DEF Entry
  <2> QED  BY <2>1, <2>2, <2>3
<1>8. ASSUME NEW r \in Entries, Backed(r)
      PROVE  /\ r.run <= rec.run /\ r.frame <= r.stamp
             /\ ~torn /\ r.run = rec.run => r.stamp <= stamps[r.dec] /\ r.stamp <= stamps'[r.dec]
  <2>1. r.dec \in LogDecs /\ r.stamp \in Nat
    BY DEF Entries
  <2>2. PICK x : x = stamps[r.dec]
    OBVIOUS
  <2>3. PICK y : y = stamps'[r.dec]
    OBVIOUS
  <2>4. PICK z : z = r.stamp
    OBVIOUS
  <2>5. x \in Nat /\ y \in Nat /\ z \in Nat /\ x <= y
    BY <1>4, <2>1, <2>2, <2>3, <2>4
  <2>6. z <= x => z <= y
    BY <2>5
  <2>7. ~torn /\ r.run = rec.run => z <= x
    BY <1>8, <2>2, <2>4 DEF Backed
  <2> QED  BY <1>8, <2>2, <2>3, <2>4, <2>6, <2>7 DEF Backed
<1>9. \A g \in Files : \A j \in 1 .. Len(files[g].recs) :
         files[g].recs[j] \in Entries /\ Backed(files[g].recs[j])
  BY <1>5 DEF RecInv, RecRest, Journal
<1>10. Journal'
  <2>1. ASSUME NEW g \in Files, NEW j \in 1 .. Len(files'[g].recs)
        PROVE  \/ j \in 1 .. Len(files[g].recs) /\ files'[g].recs[j] = files[g].recs[j]
               \/ g = f /\ \E i \in 1 .. n : j = m + i
    <3>1. CASE g # f
      BY <1>2, <2>1, <3>1
    <3>2. CASE g = f
      BY <1>2, <2>1, <3>2, OldOrNew DEF m
    <3> QED  BY <3>1, <3>2
  <2>2. ASSUME NEW g \in Files, NEW j \in 1 .. Len(files'[g].recs), NEW r, r = files'[g].recs[j]
        PROVE  /\ r.run <= rec.run /\ r.frame <= r.stamp
               /\ ~torn /\ r.run = rec.run => r.stamp <= stamps'[r.dec]
    <3>1. CASE j \in 1 .. Len(files[g].recs) /\ r = files[g].recs[j]
      BY <1>8, <1>9, <3>1
    <3>2. CASE g = f /\ \E i \in 1 .. n : j = m + i
      <4>1. PICK i \in 1 .. n : j = m + i
        BY <3>2
      <4>2. /\ r.dec = rs[i].dec /\ r.frame = rs[i].frame /\ r.stamp = rs[i].stamp /\ r.run = rec.run
        BY <1>7, <2>2, <3>2, <4>1
      <4>3. stamps'[r.dec] = r.stamp /\ r.stamp \in Nat /\ r.frame <= r.stamp
        BY <1>3, <4>2
      <4>4. r.stamp <= stamps'[r.dec] /\ r.run <= rec.run
        BY <1>4, <4>2, <4>3
      <4> QED  BY <4>3, <4>4
    <3> QED  BY <2>1, <2>2, <3>1, <3>2
  <2> QED  BY <2>2 DEF Journal, Backed
<1>11. RecordsAdvance'
  <2> DEFINE Later(q, r) == q.run = r.run /\ q.dec = r.dec => q.stamp < r.stamp /\ q.stamp <= r.frame
  <2>1. ASSUME NEW g \in Files, NEW j \in 1 .. Len(files'[g].recs), NEW i \in 1 .. j - 1,
               ~torn, files'[g].recs[j].run = rec.run
        PROVE  Later(files'[g].recs[i], files'[g].recs[j])
    <3>0. i \in 1 .. Len(files'[g].recs) /\ i < j /\ j \in Nat
      BY <1>6, <2>1
    <3>1. CASE g # f
      BY <1>2, <1>6, <2>1, <3>1 DEF RecInv, RecRest, RecordsAdvance
    <3>2. CASE g = f /\ j \in 1 .. m
      <4>1. i \in 1 .. m
        BY <1>2, <3>0, <3>2
      <4>2. files'[g].recs[i] = files[g].recs[i] /\ files'[g].recs[j] = files[g].recs[j]
        BY <1>2, <3>2, <4>1
      <4>3. j \in DOMAIN files[g].recs
        BY <1>6, <3>2 DEF m
      <4> QED  BY <2>1, <4>2, <4>3 DEF RecInv, RecRest, RecordsAdvance
    <3>3. CASE g = f /\ \E k \in 1 .. n : j = m + k
      <4>1. PICK k \in 1 .. n : j = m + k
        BY <3>3
      <4>2. PICK r : r = files'[f].recs[m + k]
        OBVIOUS
      <4>3. /\ r.dec = rs[k].dec /\ r.frame = rs[k].frame /\ r.stamp = rs[k].stamp
        BY <1>7, <4>2
      <4>4. CASE i \in 1 .. m
        <5>1. PICK q : q = files[f].recs[i]
          OBVIOUS
        <5>2. q \in Entries /\ Backed(q) /\ files'[f].recs[i] = q
          BY <1>2, <1>9, <4>4, <5>1 DEF m
        <5>3. q.stamp \in Nat
          BY <5>2 DEF Entries
        <5>4. ASSUME q.run = r.run, q.dec = r.dec
              PROVE  q.stamp < r.stamp /\ q.stamp <= r.frame
          <6>1. q.run = rec.run
            BY <2>1, <3>3, <4>1, <4>2, <5>4
          <6>2. q.stamp <= stamps[q.dec]
            BY <1>8, <2>1, <5>2, <6>1
          <6>3. PICK x : x = stamps[q.dec]
            OBVIOUS
          <6>4. x = stamps[rs[k].dec]
            BY <4>3, <5>4, <6>3
          <6>5. x \in Nat /\ x < r.stamp /\ x <= r.frame
            BY <1>3, <1>4, <4>3, <6>4
          <6>6. PICK a : a = q.stamp
            OBVIOUS
          <6>7. PICK c : c = r.stamp
            OBVIOUS
          <6>8. PICK d : d = r.frame
            OBVIOUS
          <6>9. a \in Nat /\ c \in Nat /\ d \in Nat /\ a <= x /\ x < c /\ x <= d
            BY <1>3, <4>3, <5>3, <6>2, <6>3, <6>5, <6>6, <6>7, <6>8
          <6>10. a < c /\ a <= d
            BY <6>5, <6>9
          <6> QED  BY <6>6, <6>7, <6>8, <6>10
        <5> QED  BY <3>3, <4>1, <4>2, <5>2, <5>4
      <4>5. CASE \E h \in 1 .. n : i = m + h
        <5>1. PICK h \in 1 .. n : i = m + h
          BY <4>5
        <5>2. h < k
          BY <1>2, <3>0, <4>1, <5>1
        <5>3. rs[h].dec < rs[k].dec /\ rs[h].dec \in Nat
          BY <1>1, <1>3, <5>2, RecGiven
        <5>4. files'[f].recs[i].dec = rs[h].dec
          BY <1>7, <5>1
        <5>5. rs[h].dec # rs[k].dec
          BY <5>3
        <5> QED  BY <3>3, <4>1, <4>2, <4>3, <5>4, <5>5
      <4>6. i \in 1 .. m + n
        BY <1>2, <3>0, <3>3
      <4> QED  BY <1>2, <4>4, <4>5, <4>6, OldOrNew
    <3>4. g = f => j \in 1 .. m + n
      BY <1>2
    <3> QED  BY <1>2, <3>1, <3>2, <3>3, <3>4, OldOrNew
  <2>2. ASSUME NEW g \in Files, NEW j \in 1 .. Len(files'[g].recs)
        PROVE  files'[g].recs[j].frame <= files'[g].recs[j].stamp
    BY <1>10 DEF Journal, Backed
  <2> QED  BY <1>6, <2>1, <2>2 DEF RecordsAdvance
<1> QED  BY <1>10, <1>11

\* What is counted is what was appended.
LEMMA CountGrows ==
    ASSUME RecInv, NEW t \in Seq(Captures), files' = Appended(t), rec'.run = rec.run, rec'.file = rec.file
    PROVE  /\ IsFiniteSet(OfThisSession) /\ Cardinality(OfThisSession) \in Nat
           /\ Cardinality(OfThisSession)' = Cardinality(OfThisSession) + Len(t)
<1> DEFINE m == Len(files[rec.file].recs)
           n == Len(t)
           new == (m + 1) .. (m + n)
<1>1. /\ files' \in [Files -> Recordings] /\ rec.file \in Files
      /\ Len(files'[rec.file].recs) = m + n /\ n \in Nat /\ m \in Nat
      /\ \A j \in 1 .. m : files'[rec.file].recs[j] = files[rec.file].recs[j]
      /\ \A i \in 1 .. n : files'[rec.file].recs[m + i] = Entry(t[i])
  BY AppendFits DEF RecInv
<1>2. DOMAIN files[rec.file].recs = 1 .. m /\ DOMAIN files'[rec.file].recs = 1 .. m + n
  <2>1. ASSUME NEW h \in Recordings PROVE DOMAIN h.recs = 1 .. Len(h.recs)
    BY LenProperties DEF Recordings
  <2>2. files \in [Files -> Recordings]
    BY DEF RecInv, RecTypes
  <2> QED  BY <1>1, <2>1, <2>2
<1> HIDE DEF m, n
<1>3. OfThisSession \subseteq 1 .. m
  BY <1>2 DEF OfThisSession
<1>4. IsFiniteSet(OfThisSession) /\ Cardinality(OfThisSession) \in Nat
  <2>1. IsFiniteSet(1 .. m)
    BY <1>1, FS_Interval
  <2> QED  BY <1>3, <2>1, FS_Subset, FS_CardinalityType
<1>5. OfThisSession' = OfThisSession \cup new
  <2>1. ASSUME NEW j \in new PROVE j \in 1 .. m + n /\ files'[rec.file].recs[j].run = rec.run
    <3>1. j - m \in 1 .. n /\ j = m + (j - m) /\ j \in 1 .. m + n
      BY <1>1, <2>1
    <3>2. PICK i \in 1 .. n : j = m + i
      BY <3>1
    <3>3. files'[rec.file].recs[j] = Entry(t[i])
      BY <1>1, <3>2
    <3>4. Entry(t[i]).run = rec.run
      BY DEF Entry
    <3> QED  BY <3>1, <3>3, <3>4
  <2>2. \A j \in 1 .. m + n : j \in 1 .. m \/ j \in new
    BY <1>1
  <2>3. \A j \in 1 .. m : j \in 1 .. m + n
    BY <1>1
  <2> QED  BY <1>1, <1>2, <2>1, <2>2, <2>3 DEF OfThisSession
<1>6. IsFiniteSet(new) /\ Cardinality(new) = n
  <2>1. m + 1 \in Int /\ m + n \in Int
    BY <1>1
  <2>2. IsFiniteSet(new) /\ Cardinality(new) = IF m + 1 > m + n THEN 0 ELSE (m + n) - (m + 1) + 1
    BY <2>1, FS_Interval
  <2>3. (IF m + 1 > m + n THEN 0 ELSE (m + n) - (m + 1) + 1) = n
    BY <1>1
  <2> QED  BY <2>2, <2>3
<1>7. OfThisSession \cap new = {}
  <2>1. \A j \in 1 .. m : j \notin new
    BY <1>1
  <2> QED  BY <1>3, <2>1
<1> HIDE DEF new
<1>8. Cardinality(OfThisSession \cup new) = Cardinality(OfThisSession) + Cardinality(new)
                                            - Cardinality(OfThisSession \cap new)
  BY <1>4, <1>6, FS_Union
<1>9. Cardinality(OfThisSession \cap new) = 0
  BY <1>7, FS_EmptySet
<1>10. Cardinality(OfThisSession') = Cardinality(OfThisSession) + n
  BY <1>1, <1>4, <1>5, <1>6, <1>8, <1>9
<1> QED  BY <1>4, <1>10 DEF n

\* After a write the thread is at the top with nothing captured.
LEMMA BackAtTop ==
    ASSUME RecInv, stage.pc = "write", stage' = [stage EXCEPT !.pc = "top", !.got = <<>>]
    PROVE  /\ stage' \in Stages /\ stage'.pc = "top" /\ Len(stage'.got) = 0
           /\ rec.running => asking = "idle" /\ files[rec.file].kind # "none"
           /\ rec.running \/ asking # "idle"
           /\ \A d \in LogDecs : stamps[d] <= published[d]
<1>1. stage \in Stages /\ <<>> \in Seq(Captures) /\ Len(<<>>) = 0
  BY EmptySeq DEF RecInv, RecTypes
<1>2. stage' \in Stages /\ stage'.pc = "top" /\ Len(stage'.got) = 0
  BY <1>1 DEF Stages
<1> QED  BY <1>2 DEF RecInv, Settled, Capturing

\* The first records of what is due, or none in a database.
LEMMA FrontOfDue ==
    ASSUME RecInv, stage.pc = "write", NEW rs \in Listed(ToWrite),
           NEW n \in 0 .. Cardinality(ToWrite) - 1, NEW t, t = Rest(SubSeq(rs, 1, n))
    PROVE  /\ t \in Seq(Captures) /\ Len(t) \in Nat /\ Len(t) <= Cardinality(ToWrite)
           /\ \A i \in 1 .. Len(t) : t[i] \in ToWrite
           /\ \A i, j \in 1 .. Len(t) : i < j => t[i].dec < t[j].dec
           /\ rec.format # "csv" => t = <<>> /\ Len(t) = 0
<1>1. /\ rs \in Seq(Captures) /\ Len(rs) = Cardinality(ToWrite) /\ Cardinality(ToWrite) \in Nat
      /\ \A i \in 1 .. Len(rs) : rs[i] \in ToWrite
      /\ \A i, j \in 1 .. Len(rs) : i < j => rs[i].dec < rs[j].dec
  BY DueIsListed, DueIsNew
<1>2. n \in Nat /\ n <= Cardinality(ToWrite) /\ \A i \in 1 .. n : i \in 1 .. Len(rs)
  BY <1>1
<1>3. CASE rec.format = "csv"
  <2>1. t = SubSeq(rs, 1, n)
    BY <1>3 DEF Rest
  <2>2. \A i \in 1 .. n : rs[i] \in Captures
    BY <1>1, <1>2, ElementOfSeq
  <2>3. /\ t \in Seq(Captures) /\ Len(t) = IF 1 <= n THEN n - 1 + 1 ELSE 0
        /\ \A i \in 1 .. n - 1 + 1 : t[i] = rs[1 + i - 1]
    BY <1>2, <2>1, <2>2, SubSeqProperties
  <2>4. Len(t) = n /\ \A i \in 1 .. n : t[i] = rs[i]
    BY <1>2, <2>3
  <2> QED  BY <1>1, <1>2, <1>3, <2>3, <2>4
<1>4. CASE rec.format # "csv"
  BY <1>1, <1>4, EmptySeq DEF Rest
<1> QED  BY <1>3, <1>4

\* A write that is taken for a success, whatever of it came into the file.
LEMMA WrittenWell ==
    ASSUME RecInv, Counted, NEW rs \in Seq(Captures), Enter(rs), Len(rs) <= Cardinality(ToWrite),
           \A i \in 1 .. Len(rs) : rs[i] \in ToWrite,
           \A i, j \in 1 .. Len(rs) : i < j => rs[i].dec < rs[j].dec,
           rs # <<>> => ToWrite # {}
    PROVE  RecInv'
<1>1. /\ stage.pc = "write" /\ stage' = [stage EXCEPT !.pc = "top", !.got = <<>>]
      /\ late' = (IF late = 0 /\ rs # <<>> THEN 1 ELSE late)
      /\ stamps' = [d \in LogDecs |-> IF \E r \in ToWrite : r.dec = d
                                      THEN (CHOOSE r \in ToWrite : r.dec = d).stamp
                                      ELSE stamps[d]]
      /\ waits' = waits \cup {r.dec : r \in ToWrite}
      /\ rec' = [rec EXCEPT !.entries = rec.entries + Cardinality(ToWrite),
                            !.lost = rec.lost + (Cardinality(ToWrite) - Len(rs))]
      /\ sync' = [sync EXCEPT !.dirty = sync.dirty \/ ToWrite # {}]
      /\ UNCHANGED <<published, conf, asking, torn>>
  BY DEF Counted, Enter
<1>2. files' = Appended(rs)
  BY DEF Enter
<1>3. /\ \A r \in ToWrite : r \in Captures /\ stamps[r.dec] < r.stamp /\ r.stamp <= published[r.dec]
      /\ \A q, r \in ToWrite : q.dec = r.dec => q = r
      /\ Cardinality(ToWrite) \in Nat
  BY <1>1, DueIsNew
<1>4. rs \in Seq(Captures) /\ Len(rs) \in Nat
  BY LenProperties
<1>5. /\ rec \in Sessions /\ rec.entries \in Nat /\ rec.lost \in Nat /\ stamps \in [LogDecs -> Nat]
      /\ published \in [LogDecs -> Nat] /\ sync \in Syncs /\ late \in Nat
      /\ sync.since \in Nat /\ SyncTicks \in Nat /\ SyncTicks >= 1 /\ sync.dirty \in BOOLEAN
  BY RecGiven DEF RecInv, RecTypes, Sessions, Syncs
<1>6. /\ rec' \in Sessions /\ rec'.running = rec.running /\ rec'.run = rec.run /\ rec'.file = rec.file
      /\ rec'.entries = rec.entries + Cardinality(ToWrite)
      /\ rec'.lost = rec.lost + (Cardinality(ToWrite) - Len(rs))
  <2>1. PICK k, l : /\ k = rec.entries + Cardinality(ToWrite)
                    /\ l = rec.lost + (Cardinality(ToWrite) - Len(rs))
    OBVIOUS
  <2>2. k \in Nat /\ l \in Nat
    BY <1>3, <1>4, <1>5, <2>1
  <2>3. rec' = [rec EXCEPT !.entries = k, !.lost = l]
    BY <1>1, <2>1
  <2> QED  BY <1>5, <2>1, <2>2, <2>3 DEF Sessions
<1>7. ASSUME NEW r \in ToWrite
      PROVE  r.dec \in LogDecs /\ r.stamp \in Nat /\ stamps'[r.dec] = r.stamp
  BY <1>3, <1>1 DEF Captures
<1>8. ASSUME NEW d \in LogDecs
      PROVE  stamps'[d] \in Nat /\ stamps[d] <= stamps'[d] /\ stamps'[d] <= published[d]
  <2>1. CASE \E r \in ToWrite : r.dec = d
    <3>1. PICK r \in ToWrite : r.dec = d
      BY <2>1
    <3>2. PICK x : x = stamps[d]
      OBVIOUS
    <3>3. PICK y : y = r.stamp
      OBVIOUS
    <3>4. stamps'[d] = y /\ y \in Nat /\ x \in Nat /\ x < y /\ y <= published[d]
      BY <1>3, <1>5, <1>7, <3>1, <3>2, <3>3
    <3>5. x <= y
      BY <3>4
    <3> QED  BY <3>2, <3>4, <3>5
  <2>2. CASE ~\E r \in ToWrite : r.dec = d
    BY <1>1, <1>5, <2>2, BackAtTop
  <2> QED  BY <2>1, <2>2
<1>9. stamps' \in [LogDecs -> Nat]
  BY <1>1, <1>8
<1>10. Journal' /\ RecordsAdvance'
  <2>1. torn' = torn
    BY <1>1
  <2> QED  BY <1>1, <1>2, <1>6, <1>7, <1>8, <1>9, <2>1, WriteAdvances
<1>11. /\ files' \in [Files -> Recordings] /\ rec.file \in Files
       /\ \A g \in Files : files'[g].kind = files[g].kind /\ files'[g].kept = files[g].kept
       /\ \A g \in Files : g # rec.file => files'[g] = files[g]
       /\ Len(files'[rec.file].recs) = Len(files[rec.file].recs) + Len(rs)
       /\ Len(files[rec.file].recs) \in Nat /\ Len(rs) \in Nat
  BY <1>2, <1>4, AppendFits DEF RecInv
<1>12. CountedIsThere'
  <2>1. /\ Cardinality(OfThisSession) \in Nat
        /\ Cardinality(OfThisSession)' = Cardinality(OfThisSession) + Len(rs)
    BY <1>2, <1>6, CountGrows
  <2>2. ASSUME rec.running, ~torn
        PROVE  Cardinality(OfThisSession)' + rec'.lost = rec'.entries
    <3>1. Cardinality(OfThisSession) + rec.lost = rec.entries
      BY <2>2 DEF RecInv, RecRest, CountedIsThere
    <3> QED  BY <1>3, <1>4, <1>5, <1>6, <2>1, <3>1
  <2>3. rec.running => files'[rec.file].kind # "none"
    BY <1>11 DEF RecInv, RecRest, CountedIsThere
  <2> QED  BY <1>1, <1>6, <2>2, <2>3 DEF CountedIsThere
<1>13. stage' \in Stages /\ stage'.pc = "top" /\ Len(stage'.got) = 0
  BY <1>1, BackAtTop
<1>14. RecTypes'
  <2>1. \A g \in Files : files'[g].kept <= Len(files'[g].recs)
    <3>1. ASSUME NEW g \in Files PROVE files'[g].kept <= Len(files'[g].recs)
      <4>1. files[g].kept <= Len(files[g].recs)
        BY DEF RecInv, RecTypes
      <4>2. CASE g = rec.file
        <5>1. files[g].kept \in Nat
          BY DEF RecInv, RecTypes, Recordings
        <5>2. PICK a : a = files[g].kept
          OBVIOUS
        <5>3. PICK b : b = Len(files[g].recs)
          OBVIOUS
        <5>4. PICK c : c = Len(rs)
          OBVIOUS
        <5>5. a \in Nat /\ b \in Nat /\ c \in Nat /\ a <= b
          BY <1>11, <4>1, <4>2, <5>1, <5>2, <5>3, <5>4
        <5>6. a <= b + c
          BY <5>5
        <5> QED  BY <1>11, <4>2, <5>2, <5>3, <5>4, <5>6
      <4>3. CASE g # rec.file
        BY <1>11, <4>1, <4>3
      <4> QED  BY <4>2, <4>3
    <3> QED  BY <3>1
  <2>2. waits' \subseteq LogDecs
    <3>1. ASSUME NEW d \in waits' PROVE d \in LogDecs
      <4>1. d \in waits \/ \E r \in ToWrite : d = r.dec
        BY <1>1, <3>1
      <4>2. CASE d \in waits
        BY <4>2 DEF RecInv, RecTypes
      <4> QED  BY <1>7, <4>1, <4>2
    <3> QED  BY <3>1
  <2>3. sync' \in Syncs
    BY <1>1, <1>5 DEF Syncs
  <2>4. late' \in Nat
    BY <1>1, <1>5
  <2> QED  BY <1>1, <1>6, <1>9, <1>11, <1>13, <2>1, <2>2, <2>3, <2>4 DEF RecInv, RecTypes
<1>15. Settled'
  BY <1>1, BackAtTop, <1>6, <1>11, <1>13 DEF Settled
<1>16. Capturing'
  BY <1>1, <1>8, <1>13 DEF Capturing
<1>17. Timely'
  <2>1. /\ sync'.since = sync.since /\ sync'.looped = sync.looped
        /\ sync'.dirty = (sync.dirty \/ ToWrite # {})
    BY <1>1, <1>5 DEF Syncs
  <2>2. /\ sync.since <= SyncTicks /\ late <= SyncTicks + 1
        /\ late > 0 => sync.dirty
        /\ sync.looped => late <= SyncTicks
        /\ sync.since < SyncTicks => late <= sync.since + 1
    BY DEF RecInv, Timely
  <2>3. CASE late' = late
    BY <2>1, <2>2, <2>3 DEF Timely
  <2>4. CASE late' = 1 /\ rs # <<>>
    <3>1. SyncTicks \in Nat /\ SyncTicks >= 1 /\ sync.since \in Nat
      BY <1>5
    <3>2. 1 <= SyncTicks + 1 /\ 1 <= SyncTicks
      BY <3>1
    <3>3. 1 <= sync.since + 1
      BY <3>1
    <3>4. sync'.dirty
      BY <2>1, <2>4
    <3> QED  BY <2>1, <2>2, <2>4, <3>2, <3>3, <3>4 DEF Timely
  <2> QED  BY <1>1, <2>3, <2>4
<1> QED  BY <1>10, <1>12, <1>14, <1>15, <1>16, <1>17 DEF RecInv, RecRest

LEMMA SuccessWell ==
    ASSUME RecInv, WriteRecords \/ WriteIsLost
    PROVE  RecInv'
<1>0. stage.pc = "write" /\ Counted
  BY DEF WriteRecords, WriteIsLost, Counted
<1>1. CASE WriteRecords
  <2>1. PICK rs \in Listed(ToWrite) : Enter(rs)
    BY <1>1 DEF WriteRecords
  <2>2. /\ rs \in Seq(Captures) /\ Len(rs) = Cardinality(ToWrite) /\ Cardinality(ToWrite) \in Nat
        /\ \A i \in 1 .. Len(rs) : rs[i] \in ToWrite
        /\ \A i, j \in 1 .. Len(rs) : i < j => rs[i].dec < rs[j].dec
    BY <1>0, DueIsListed, DueIsNew
  <2>3. rs # <<>> => ToWrite # {}
    <3>1. rs # <<>> => 1 \in 1 .. Len(rs)
      BY <2>2, EmptySeq, LenProperties
    <3> QED  BY <2>2, <3>1
  <2> QED  BY <1>0, <2>1, <2>2, <2>3, WrittenWell
<1>2. CASE WriteIsLost
  <2>1. PICK rs \in Listed(ToWrite) : \E n \in 0 .. Cardinality(ToWrite) - 1 : Enter(Rest(SubSeq(rs, 1, n)))
    BY <1>2 DEF WriteIsLost
  <2>2. PICK n \in 0 .. Cardinality(ToWrite) - 1 : Enter(Rest(SubSeq(rs, 1, n)))
    BY <2>1
  <2>3. PICK t : t = Rest(SubSeq(rs, 1, n))
    OBVIOUS
  <2>4. /\ t \in Seq(Captures) /\ Len(t) <= Cardinality(ToWrite)
        /\ \A i \in 1 .. Len(t) : t[i] \in ToWrite
        /\ \A i, j \in 1 .. Len(t) : i < j => t[i].dec < t[j].dec
    BY <1>0, <2>3, FrontOfDue
  <2>5. Enter(t) /\ ToWrite # {}
    BY <1>2, <2>2, <2>3 DEF WriteIsLost
  <2> QED  BY <1>0, <2>4, <2>5, WrittenWell
<1> QED  BY <1>1, <1>2

\* A write that fails with notice: nothing of it stays in a database, and in a
\* text file lines of which the session is then known to have them.
LEMMA FailedWell ==
    ASSUME RecInv, WriteFails
    PROVE  RecInv'
<1>1. /\ stage.pc = "write" /\ stage' = [stage EXCEPT !.pc = "top", !.got = <<>>]
      /\ torn' = (torn \/ rec.format = "csv")
      /\ UNCHANGED <<published, conf, rec, stamps, waits, sync, late, asking>>
  BY DEF WriteFails
<1>2. PICK rs \in Listed(ToWrite) : \E n \in 0 .. Cardinality(ToWrite) - 1 :
          files' = Appended(Rest(SubSeq(rs, 1, n)))
  BY DEF WriteFails
<1>3. PICK n \in 0 .. Cardinality(ToWrite) - 1 : files' = Appended(Rest(SubSeq(rs, 1, n)))
  BY <1>2
<1>6. PICK t : t = Rest(SubSeq(rs, 1, n))
  OBVIOUS
<1>7. t \in Seq(Captures) /\ Len(t) \in Nat /\ (\A i \in 1 .. Len(t) : t[i] \in ToWrite)
      /\ (rec.format # "csv" => t = <<>> /\ Len(t) = 0)
  BY <1>1, <1>6, FrontOfDue
<1>8. files' = Appended(t)
  BY <1>3, <1>6
<1> DEFINE f == rec.file
           m == Len(files[f].recs)
<1>9. /\ files' \in [Files -> Recordings] /\ f \in Files
      /\ \A g \in Files : files'[g].kind = files[g].kind /\ files'[g].kept = files[g].kept
      /\ \A g \in Files : g # f => files'[g] = files[g]
      /\ Len(files'[f].recs) = m + Len(t) /\ m \in Nat
      /\ \A j \in 1 .. m : files'[f].recs[j] = files[f].recs[j]
      /\ \A i \in 1 .. Len(t) : files'[f].recs[m + i] = Entry(t[i])
  BY <1>7, <1>8, AppendFits DEF RecInv
<1> HIDE DEF f, m
<1>10. ASSUME NEW g \in Files, NEW j \in 1 .. Len(files'[g].recs)
       PROVE  \/ j \in 1 .. Len(files[g].recs) /\ files'[g].recs[j] = files[g].recs[j]
              \/ g = f /\ rec.format = "csv" /\ \E i \in 1 .. Len(t) : j = m + i
  <2>1. CASE g # f
    BY <1>9, <1>10, <2>1
  <2>2. CASE g = f
    <3>1. j \in 1 .. m + Len(t)
      BY <1>9, <1>10, <2>2
    <3>2. j \in 1 .. m \/ \E i \in 1 .. Len(t) : j = m + i
      BY <1>7, <1>9, <3>1, OldOrNew
    <3>3. (\E i \in 1 .. Len(t) : j = m + i) => rec.format = "csv"
      BY <1>7
    <3> QED  BY <1>9, <2>2, <3>2, <3>3 DEF m
  <2> QED  BY <2>1, <2>2
<1>11. ASSUME NEW g \in Files, NEW j \in 1 .. Len(files'[g].recs), NEW r, r = files'[g].recs[j]
       PROVE  /\ r.run <= rec.run /\ r.frame <= r.stamp
              /\ ~torn' /\ r.run = rec.run => r.stamp <= stamps[r.dec]
  <2>1. CASE j \in 1 .. Len(files[g].recs) /\ r = files[g].recs[j]
    BY <1>1, <2>1 DEF RecInv, RecRest, Journal, Backed
  <2>2. CASE g = f /\ rec.format = "csv" /\ \E i \in 1 .. Len(t) : j = m + i
    <3>1. PICK i \in 1 .. Len(t) : j = m + i
      BY <2>2
    <3>2. r = Entry(t[i]) /\ t[i] \in ToWrite
      BY <1>7, <1>9, <1>11, <2>2, <3>1
    <3>3. r.frame = t[i].frame /\ r.stamp = t[i].stamp /\ r.run = rec.run
      BY <3>2 DEF Entry
    <3>4. r.frame <= r.stamp
      BY <1>1, <3>2, <3>3, DueIsNew
    <3>5. rec.run \in Nat
      BY DEF RecInv, RecTypes, Sessions
    <3>6. r.run <= rec.run
      BY <3>3, <3>5
    <3> QED  BY <1>1, <2>2, <3>4, <3>6
  <2> QED  BY <1>10, <1>11, <2>1, <2>2
<1>12. Journal'
  BY <1>1, <1>11 DEF Journal, Backed
<1>13. rec.format # "csv" => \A g \in Files : files'[g].recs = files[g].recs
  <2>1. SUFFICES ASSUME rec.format # "csv" PROVE files'[f].recs = files[f].recs
    BY <1>9
  <2>2. \A h \in Recordings : h.recs \in Seq(Entries)
    BY DEF Recordings
  <2>3. files'[f].recs \in Seq(Entries) /\ files[f].recs \in Seq(Entries)
    BY <1>9, <2>2 DEF RecInv, RecTypes
  <2>4. Len(files'[f].recs) = m
    BY <1>7, <1>9, <2>1
  <2> QED  BY <1>9, <2>3, <2>4, SeqEqual DEF m
<1>14. RecordsAdvance'
  <2>1. \A g \in Files : DOMAIN files'[g].recs = 1 .. Len(files'[g].recs)
    <3>1. ASSUME NEW h \in Recordings PROVE DOMAIN h.recs = 1 .. Len(h.recs)
      BY LenProperties DEF Recordings
    <3> QED  BY <1>9, <3>1
  <2>2. CASE rec.format = "csv"
    BY <1>1, <1>11, <2>1, <2>2 DEF RecordsAdvance
  <2>3. CASE rec.format # "csv"
    BY <1>1, <1>13, <2>3 DEF RecInv, RecRest, RecordsAdvance
  <2> QED  BY <2>2, <2>3
<1>15. CountedIsThere'
  <2>1. rec.running => files'[rec.file].kind # "none"
    BY <1>9 DEF RecInv, RecRest, CountedIsThere, f
  <2>2. CASE rec.format = "csv"
    BY <1>1, <2>1, <2>2 DEF CountedIsThere
  <2>3. CASE rec.format # "csv"
    <3>1. files'[rec.file].recs = files[rec.file].recs
      BY <1>9, <1>13, <2>3 DEF f
    <3>2. OfThisSession' = OfThisSession
      BY <1>1, <3>1 DEF OfThisSession
    <3> QED  BY <1>1, <2>1, <2>3, <3>2 DEF RecInv, RecRest, CountedIsThere
  <2> QED  BY <2>2, <2>3
<1>16. stage' \in Stages /\ stage'.pc = "top" /\ Len(stage'.got) = 0
  BY <1>1, BackAtTop
<1>17. RecTypes'
  <2>1. \A g \in Files : files'[g].kept <= Len(files'[g].recs)
    <3>1. ASSUME NEW g \in Files PROVE files'[g].kept <= Len(files'[g].recs)
      <4>1. files[g].kept <= Len(files[g].recs)
        BY DEF RecInv, RecTypes
      <4>2. CASE g = f
        <5>1. files[g].kept \in Nat
          BY DEF RecInv, RecTypes, Recordings
        <5>2. PICK a : a = files[g].kept
          OBVIOUS
        <5>3. PICK b : b = Len(files[g].recs)
          OBVIOUS
        <5>4. PICK c : c = Len(t)
          OBVIOUS
        <5>5. a \in Nat /\ b \in Nat /\ c \in Nat /\ a <= b
          BY <1>7, <1>9, <4>1, <4>2, <5>1, <5>2, <5>3, <5>4 DEF m
        <5>6. a <= b + c
          BY <5>5
        <5> QED  BY <1>9, <4>2, <5>2, <5>3, <5>4, <5>6 DEF m
      <4>3. CASE g # f
        BY <1>9, <4>1, <4>3
      <4> QED  BY <4>2, <4>3
    <3> QED  BY <3>1
  <2>2. torn' \in BOOLEAN
    BY <1>1
  <2> QED  BY <1>1, <1>9, <1>16, <2>1, <2>2 DEF RecInv, RecTypes
<1>18. Settled'
  BY <1>1, BackAtTop, <1>9, <1>16 DEF Settled, f
<1>19. Capturing'
  BY <1>1, <1>16, BackAtTop DEF Capturing
<1> QED  BY <1>1, <1>12, <1>14, <1>15, <1>17, <1>18, <1>19, RecKept DEF RecInv, RecRest

LEMMA RecStarts == RecInit => RecInv
<1> SUFFICES ASSUME RecInit PROVE RecInv
  OBVIOUS
<1>1. /\ published = [d \in LogDecs |-> 0] /\ conf \in [format : Formats, file : Files]
      /\ rec = [running |-> FALSE, format |-> conf.format, file |-> conf.file, entries |-> 0,
                lost |-> 0, run |-> 0]
      /\ stage = Asleep /\ stamps = [d \in LogDecs |-> 0] /\ waits = {}
      /\ sync = [dirty |-> FALSE, since |-> 0, looped |-> FALSE]
      /\ files = [f \in Files |-> Nothing] /\ late = 0 /\ asking = "idle" /\ torn = FALSE
  BY DEF RecInit, Formats
<1>2. Nothing \in Recordings /\ Nothing.recs = <<>> /\ Nothing.kept = 0 /\ Len(<<>>) = 0
  BY EmptySeq DEF Nothing, Recordings
<1>3. stage \in Stages /\ stage.pc = "none" /\ Len(stage.got) = 0
  BY <1>1, EmptySeq DEF Asleep, Stages
<1>4. rec \in Sessions /\ rec.file \in Files /\ ~rec.running
  BY <1>1 DEF Sessions
<1>5. \A f \in Files : files[f] = Nothing /\ Len(files[f].recs) = 0 /\ files[f].kept = 0
                       /\ DOMAIN files[f].recs = {}
  BY <1>1, <1>2
<1>6. RecTypes
  <2>1. \A f \in Files : files[f].kept <= Len(files[f].recs)
    BY <1>5
  <2>2. files \in [Files -> Recordings] /\ sync \in Syncs
    BY <1>1, <1>2 DEF Syncs
  <2> QED  BY <1>1, <1>3, <1>4, <2>1, <2>2 DEF RecTypes
<1>7. Settled
  BY <1>1, <1>3, <1>4, <1>5 DEF Settled
<1>8. Capturing
  BY <1>3 DEF Capturing
<1>9. RecRest
  BY <1>4, <1>5 DEF RecRest, Journal, RecordsAdvance, CountedIsThere
<1>10. Timely
  BY <1>1, RecGiven DEF Timely
<1> QED  BY <1>6, <1>7, <1>8, <1>9, <1>10 DEF RecInv

LEMMA RecSteps ==
    ASSUME RecInv, [RecNext]_recVars
    PROVE  RecInv'
<1>1. CASE UNCHANGED recVars
  BY <1>1, RecKept DEF recVars, RecInv, RecTypes
<1>2. CASE RecNext
  BY <1>2, Surroundings, ClockFits, LoopTurns, ThreadEnds, BearingCaptured, StampCaptured, SuccessWell,
     FailedWell, WebCommands, RecordingDeleted, SessionStarts, PowerGone
     DEF RecNext, LoggerStep, WebStep, Formats
<1> QED  BY <1>1, <1>2

LEMMA RecInvIsSound == RecInv => RecordingSound
<1> SUFFICES ASSUME RecInv PROVE RecordingSound
  OBVIOUS
<1>1. RecTypeOK
  BY LenProperties DEF RecInv, RecTypes, Stages, Recordings, Capturing, RecTypeOK, Sessions
<1> QED  BY <1>1 DEF RecInv, RecRest, Timely, Settled, LossBounded, StoppedIsSafe, RecordingSound

\* The inductive invariant of the recorder: the thread lives from the start to the
\* end of the join, what it has captured is newer than what is written, every
\* record of the session is backed by the stamp that is remembered, and what waits
\* for the medium is marked (doa_logger.cpp).
THEOREM RecInvariant == RecInit /\ [][RecNext]_recVars => []RecInv
<1>1. RecInv /\ [RecNext]_recVars => RecInv'
  BY RecSteps
<1> QED  BY <1>1, RecStarts, PTL

\* A recording goes forward under ever later stamps, with a bearing logged twice
\* at most; its count is that of its records and of those a failed COMMIT or
\* fflush took unnoticed; a power cut takes an interval of it at most, and a stop
\* leaves what was written on the medium, over every start, deletion, failed
\* write and power cut (DoaLogger).
THEOREM RecCorrect == RecSpec => []RecordingSound
BY RecInvariant, RecInvIsSound, PTL DEF RecSpec

-----------------------------------------------------------------------------
(* The map output.                                                           *)

Owners   == MapKeys \cup {"none"}
Payloads == [key : Owners, centre : Nat, vfos : Seq(Int)]
Settable == CloudPushes \cup {NoPush}
Mappers  == [pc : {"top", "copy", "go", "sink", "settings", "payload", "capture"}, seen : Int,
             mode : {"none", "remote", "local"}, key : Owners, last : Payloads, centre : Nat]
Clouds   == [link : {"none", "up", "broken"}, keys : SUBSET Owners, known : Payloads]
Lans     == [open : BOOLEAN, clients : [LanClients -> {"out", "new", "open", "left", "cut"}],
             stream : [LanClients -> {"whole", "torn", "spliced"}]]
Appliers == [pc : {"idle", "bump", "freq", "count", "centre", "vfo"}, push : Settable,
             centre : Nat, next : Nat, stale : BOOLEAN]
Tuners   == [centre : Nat, vfos : Seq(Int), wanted : Nat, heim : Nat, packet : Nat]

MapTypes ==
    /\ mapConf \in [enabled : BOOLEAN, mode : {"remote", "local"}, key : Owners, gen : Nat]
    /\ mapper \in Mappers /\ cloud \in Clouds /\ lan \in Lans
    /\ pushes \in Seq(CloudPushes) /\ deferred \in Seq(CloudPushes)
    /\ applying \in Appliers /\ tuner \in Tuners /\ Len(tuner.vfos) \in 1 .. MapVfos
    /\ mapEvents \in 0 .. MaxMapEvents

\* The worker has seen no generation that is yet to come.
InTime == mapper.seen <= mapConf.gen /\ ConfigTaken

\* All that is open is of the mode and the key the worker has copied, and while
\* it copies nothing is open.
OneSink ==
    /\ cloud.keys \subseteq {mapper.key}
    /\ cloud.link # "none" => mapper.mode = "remote"
    /\ lan.open => mapper.mode = "local"
    /\ mapper.pc = "copy" => cloud.keys = {} /\ cloud.link = "none" /\ ~lan.open
    /\ pushes # <<>> => cloud.link = "up"

\* The settings of a push that are applied, place by place.
AppliedSoFar ==
    /\ applying.pc \in {"count", "centre"} /\ ~applying.stale => tuner.centre = tuner.wanted
    /\ applying.pc = "vfo" =>
          /\ applying.next >= 1
          /\ ~applying.stale =>
                /\ applying.centre = tuner.wanted
                /\ \A i \in Asked(applying.push, tuner.vfos) : i < applying.next =>
                      tuner.wanted + tuner.vfos[i] = applying.push.vfos[i]
    /\ VfosAsAsked

\* A client that is sent to has had whole frames only.
Streaming ==
    \A c \in LanClients :
        /\ lan.clients[c] \in {"new", "open"} => lan.stream[c] = "whole"
        /\ lan.stream[c] # "spliced"

MapInv == MapTypes /\ InTime /\ OneSink /\ AppliedSoFar /\ Streaming

LEMMA MapGiven ==
    /\ MapVfos \in Nat /\ MapVfos >= 1 /\ MaxMapEvents \in Nat
    /\ MapKeys # {} /\ Tunings \subseteq Nat
    /\ Untold \in Payloads /\ NoPush \in Settable /\ 0 \in Nat
    /\ ClosedCloud \in Clouds /\ ClosedCloud.keys = {} /\ ClosedCloud.link = "none"
    /\ \A p \in Settable : /\ p.key \in Owners /\ p.centre \in Nat
                           /\ p.count \in 0 .. MapVfos /\ p.vfos \in Seq(Int)
<1>1. /\ MapVfos \in Nat /\ MapVfos >= 1 /\ MaxMapEvents \in Nat
      /\ MapKeys # {} /\ Tunings \subseteq Nat
  BY MapAssumption
<1>2. <<>> \in Seq(Int)
  BY EmptySeq
<1>3. Untold \in Payloads
  BY <1>2 DEF Untold, Payloads, Owners
<1>4. ClosedCloud \in Clouds /\ ClosedCloud.keys = {} /\ ClosedCloud.link = "none"
  BY <1>3 DEF ClosedCloud, Clouds
<1>5. ASSUME NEW p \in Settable
      PROVE  /\ p.key \in Owners /\ p.centre \in Nat
             /\ p.count \in 0 .. MapVfos /\ p.vfos \in Seq(Int)
  <2>1. CASE p \in CloudPushes
    <3>2. \A q \in CloudPushes : /\ q.key \in MapKeys \cup {"none"} /\ q.centre \in Tunings \cup {0}
                                 /\ q.count \in 0 .. MapVfos /\ q.vfos \in Seq(Int)
      BY MapAssumption
    <3>1. /\ p.key \in MapKeys \cup {"none"} /\ p.centre \in Tunings \cup {0}
          /\ p.count \in 0 .. MapVfos /\ p.vfos \in Seq(Int)
      BY <2>1, <3>2
    <3>3. p.key \in Owners
      BY <3>1 DEF Owners
    <3>4. p.centre \in Nat
      <4>1. \A t \in Tunings \cup {0} : t \in Nat
        BY <1>1
      <4>2. p.centre \in Tunings \cup {0}
        BY <3>1
      <4> QED  BY <4>1, <4>2, Zenon
    <3> QED  BY <3>1, <3>3, <3>4
  <2>2. CASE p = NoPush
    BY <1>1, <1>2, <2>2 DEF NoPush, Owners
  <2> QED  BY <2>1, <2>2 DEF Settable
<1> QED  BY <1>1, <1>3, <1>4, <1>5 DEF Settable

LEMMA LanIsClosed ==
    ASSUME MapTypes, Streaming
    PROVE  /\ ClosedLan \in Lans /\ ~ClosedLan.open
           /\ \A c \in LanClients :
                /\ ClosedLan.clients[c] \in {"new", "open"} => ClosedLan.stream[c] = "whole"
                /\ ClosedLan.stream[c] # "spliced"
BY DEF MapTypes, Streaming, ClosedLan, Lans

\* A command of the loop thread makes a new generation, unless it says nothing new.
LEMMA BumpedFits ==
    ASSUME MapTypes, InTime,
           NEW c \in [enabled : BOOLEAN, mode : {"remote", "local"}, key : Owners, gen : Nat],
           c.gen = mapConf.gen, mapConf' = Bumped(c), mapper' = mapper
    PROVE  /\ mapConf' \in [enabled : BOOLEAN, mode : {"remote", "local"}, key : Owners, gen : Nat]
           /\ InTime'
<1>1. CASE c = mapConf
  BY <1>1 DEF Bumped, MapTypes, InTime, ConfigTaken, Mappers
<1>2. CASE c # mapConf
  BY <1>2 DEF Bumped, MapTypes, Mappers, InTime, ConfigTaken
<1> QED  BY <1>1, <1>2

\* What an action leaves alone.
LEMMA MapKept ==
    ASSUME MapInv
    PROVE  /\ UNCHANGED <<mapConf, mapper>> => InTime'
           /\ UNCHANGED <<mapper, cloud, lan, pushes>> => OneSink'
           /\ UNCHANGED <<applying, tuner>> => AppliedSoFar'
           /\ UNCHANGED lan => Streaming'
<1>1. UNCHANGED <<mapConf, mapper>> => InTime'
  BY DEF MapInv, InTime, ConfigTaken
<1>2. UNCHANGED <<mapper, cloud, lan, pushes>> => OneSink'
  BY DEF MapInv, OneSink
<1>3. UNCHANGED <<applying, tuner>> => AppliedSoFar'
  BY DEF MapInv, AppliedSoFar, VfosAsAsked, Asked
<1>4. UNCHANGED lan => Streaming'
  BY DEF MapInv, Streaming
<1> QED  BY <1>1, <1>2, <1>3, <1>4

\* The commands.
LEMMA MapCommands ==
    ASSUME MapInv, MapConfigure \/ MapEnable \/ MapBump
    PROVE  MapInv'
<1> USE DEF MapInv
<1>1. CASE MapConfigure
  <2>1. PICK c \in [enabled : BOOLEAN, mode : {"remote", "local"}, key : Owners, gen : Nat] :
           c.gen = mapConf.gen /\ mapConf' = Bumped(c)
    <3>1. CASE \E m \in {"remote", "local"} \ {mapConf.mode} :
                  mapConf' = Bumped([mapConf EXCEPT !.mode = m])
      BY <3>1 DEF MapTypes
    <3>2. CASE \E k \in MapKeys \ {mapConf.key} : mapConf' = Bumped([mapConf EXCEPT !.key = k])
      BY <3>2 DEF MapTypes, Owners
    <3> QED  BY <1>1, <3>1, <3>2 DEF MapConfigure
  <2>2. /\ UNCHANGED <<mapper, cloud, pushes, lan, deferred, applying, tuner>>
        /\ mapEvents' = mapEvents - 1 /\ mapEvents > 0
    BY <1>1 DEF MapConfigure, MapEvent
  <2>3. /\ mapConf' \in [enabled : BOOLEAN, mode : {"remote", "local"}, key : Owners, gen : Nat]
        /\ InTime'
    BY <2>1, <2>2, BumpedFits
  <2>4. mapEvents' \in 0 .. MaxMapEvents
    BY <2>2, MapGiven DEF MapTypes
  <2>5. MapTypes'
    BY <2>2, <2>3, <2>4 DEF MapTypes
  <2> QED  BY <2>2, <2>3, <2>5, MapKept
<1>2. CASE MapEnable
  <2>1. /\ mapConf' = [mapConf EXCEPT !.enabled = ~mapConf.enabled]
        /\ applying' = [applying EXCEPT !.pc = "bump"] /\ applying.pc = "idle"
        /\ UNCHANGED <<mapper, cloud, pushes, lan, deferred, tuner>>
        /\ mapEvents' = mapEvents - 1 /\ mapEvents > 0
    BY <1>2 DEF MapEnable, MapEvent
  <2>2. /\ mapConf' \in [enabled : BOOLEAN, mode : {"remote", "local"}, key : Owners, gen : Nat]
        /\ mapConf'.gen = mapConf.gen /\ mapConf'.mode = mapConf.mode /\ mapConf'.key = mapConf.key
    BY <2>1 DEF MapTypes
  <2>3. mapEvents' \in 0 .. MaxMapEvents
    BY <2>1, MapGiven DEF MapTypes
  <2>4. /\ applying' \in Appliers /\ applying'.pc = "bump" /\ applying'.push = applying.push
        /\ applying'.stale = applying.stale
    BY <2>1 DEF MapTypes, Appliers
  <2>5. MapTypes'
    BY <2>1, <2>2, <2>3, <2>4 DEF MapTypes
  <2>6. InTime'
    BY <2>1, <2>2 DEF InTime, ConfigTaken
  <2>7. AppliedSoFar'
    BY <2>1, <2>4 DEF AppliedSoFar, VfosAsAsked, Asked
  <2> QED  BY <2>1, <2>5, <2>6, <2>7, MapKept
<1>3. CASE MapBump
  <2>1. /\ mapConf' = [mapConf EXCEPT !.gen = mapConf.gen + 1]
        /\ applying' = [applying EXCEPT !.pc = "idle"] /\ applying.pc = "bump"
        /\ UNCHANGED <<mapper, cloud, pushes, lan, deferred, tuner, mapEvents>>
    BY <1>3 DEF MapBump
  <2>2. /\ mapConf' \in [enabled : BOOLEAN, mode : {"remote", "local"}, key : Owners, gen : Nat]
        /\ mapConf'.gen = mapConf.gen + 1
    BY <2>1 DEF MapTypes
  <2>3. /\ applying' \in Appliers /\ applying'.pc = "idle" /\ applying'.push = applying.push
        /\ applying'.stale = applying.stale
    BY <2>1 DEF MapTypes, Appliers
  <2>4. MapTypes'
    BY <2>1, <2>2, <2>3 DEF MapTypes
  <2>5. InTime'
    BY <2>1, <2>2 DEF MapTypes, Mappers, InTime, ConfigTaken
  <2>6. AppliedSoFar'
    BY <2>1, <2>3 DEF AppliedSoFar, VfosAsAsked, Asked
  <2> QED  BY <2>1, <2>4, <2>5, <2>6, MapKept
<1> QED  BY <1>1, <1>2, <1>3


\* Settings are taken up, and the frequency goes first.
LEMMA ApplyStarts ==
    ASSUME MapInv, ApplyBegin \/ ApplyFreq
    PROVE  MapInv'
<1> USE DEF MapInv
<1>1. CASE ApplyBegin
  <2> DEFINE p == Head(deferred)
  <2>1. /\ applying.pc = "idle" /\ deferred # <<>> /\ deferred' = Tail(deferred)
        /\ applying' = [applying EXCEPT !.pc = "freq", !.push = p]
        /\ mapConf' = IF p.key = "none" THEN mapConf ELSE Bumped([mapConf EXCEPT !.key = p.key])
        /\ UNCHANGED <<mapper, cloud, pushes, lan, tuner, mapEvents>>
    BY <1>1 DEF ApplyBegin
  <2>2. deferred \in Seq(CloudPushes)
    BY DEF MapTypes
  <2>3. p \in CloudPushes /\ deferred' \in Seq(CloudPushes)
    BY <2>1, <2>2
  <2>4. p \in Settable /\ p.key \in Owners
    BY <2>3, MapGiven DEF Settable
  <2> HIDE DEF p
  <2>5. /\ applying' \in Appliers /\ applying'.pc = "freq"
    BY <2>1, <2>4 DEF MapTypes, Appliers
  <2>6. /\ mapConf' \in [enabled : BOOLEAN, mode : {"remote", "local"}, key : Owners, gen : Nat]
        /\ InTime'
    <3>1. CASE p.key = "none"
      BY <2>1, <3>1, MapKept DEF MapTypes
    <3>2. CASE p.key # "none"
      <4> DEFINE c == [mapConf EXCEPT !.key = p.key]
      <4>1. c \in [enabled : BOOLEAN, mode : {"remote", "local"}, key : Owners, gen : Nat]
            /\ c.gen = mapConf.gen
        BY <2>4 DEF MapTypes
      <4>2. mapConf' = Bumped(c) /\ mapper' = mapper
        BY <2>1, <3>2
      <4> HIDE DEF c
      <4> QED  BY <4>1, <4>2, BumpedFits
    <3> QED  BY <3>1, <3>2
  <2>7. MapTypes'
    BY <2>1, <2>3, <2>5, <2>6 DEF MapTypes
  <2>8. AppliedSoFar'
    BY <2>5 DEF AppliedSoFar, VfosAsAsked
  <2> QED  BY <2>1, <2>6, <2>7, <2>8, MapKept
<1>2. CASE ApplyFreq
  <2>1. /\ applying.pc = "freq"
        /\ tuner' = IF applying.push.centre = 0 THEN tuner ELSE Tuned(applying.push.centre)
        /\ applying' = [applying EXCEPT !.pc = "count",
                            !.stale = applying.push.centre = 0 /\ tuner.centre # tuner.wanted]
        /\ UNCHANGED <<mapConf, mapper, cloud, pushes, lan, deferred, mapEvents>>
    BY <1>2 DEF ApplyFreq
  <2>2. applying.push.centre \in Nat
    BY MapGiven DEF MapTypes, Appliers
  <2>3. /\ applying' \in Appliers /\ applying'.pc = "count"
        /\ applying'.stale = (applying.push.centre = 0 /\ tuner.centre # tuner.wanted)
    BY <2>1 DEF MapTypes, Appliers
  <2>4. /\ tuner' \in Tuners /\ tuner'.vfos = tuner.vfos
        /\ tuner'.centre = IF applying.push.centre = 0 THEN tuner.centre ELSE applying.push.centre
        /\ tuner'.wanted = IF applying.push.centre = 0 THEN tuner.wanted ELSE applying.push.centre
    BY <2>1, <2>2 DEF Tuned, MapTypes, Tuners
  <2>5. MapTypes'
    BY <2>1, <2>3, <2>4 DEF MapTypes
  <2>6. AppliedSoFar'
    BY <2>3, <2>4 DEF AppliedSoFar, VfosAsAsked
  <2> QED  BY <2>1, <2>5, <2>6, MapKept
<1> QED  BY <1>1, <1>2

\* Then the number of VFOs, and the centre they are offsets from is read.
LEMMA ApplyCounts ==
    ASSUME MapInv, ApplyCount \/ ReadCentre
    PROVE  MapInv'
<1> USE DEF MapInv
<1>1. CASE ApplyCount /\ tuner' = tuner
  <2>1. /\ applying.pc = "count"
        /\ applying' = [applying EXCEPT !.pc = "centre"] \/ applying' = applying
        /\ UNCHANGED <<mapConf, mapper, cloud, pushes, lan, deferred, mapEvents>>
    BY <1>1 DEF ApplyCount
  <2>2. /\ applying' \in Appliers /\ applying'.pc \in {"count", "centre"}
        /\ applying'.stale = applying.stale
    BY <2>1 DEF MapTypes, Appliers
  <2>3. MapTypes'
    BY <1>1, <2>1, <2>2 DEF MapTypes
  <2>4. AppliedSoFar'
    BY <1>1, <2>1, <2>2 DEF AppliedSoFar, VfosAsAsked
  <2> QED  BY <2>1, <2>3, <2>4, MapKept
<1>2. CASE ApplyCount /\ tuner' # tuner
  <2> DEFINE n == applying.push.count
             now == Len(tuner.vfos)
             v == IF now < n THEN Append(tuner.vfos, 0) ELSE Front(tuner.vfos)
  <2>1. /\ applying.pc = "count" /\ applying' = applying /\ n # 0 /\ n # now
        /\ tuner' = [tuner EXCEPT !.vfos = v]
        /\ UNCHANGED <<mapConf, mapper, cloud, pushes, lan, deferred, mapEvents>>
    BY <1>2 DEF ApplyCount
  <2>2. n \in 0 .. MapVfos /\ MapVfos \in Nat
    BY MapGiven DEF MapTypes, Appliers
  <2>3. tuner.vfos \in Seq(Int) /\ now \in 1 .. MapVfos
    BY DEF MapTypes, Tuners
  <2>4. v \in Seq(Int) /\ Len(v) \in 1 .. MapVfos
    <3>1. CASE now < n
      BY <3>1, <2>3, <2>2
    <3>2. CASE ~(now < n)
      <4>1. v = Front(tuner.vfos)
        BY <3>2
      <4>2. now > 1
        BY <2>1, <2>2, <2>3, <3>2
      <4>3. tuner.vfos # <<>>
        BY <4>2, <2>3
      <4>4. v = SubSeq(tuner.vfos, 1, Len(tuner.vfos) - 1)
        BY <4>1 DEF Front
      <4>5. v \in Seq(Int) /\ Len(v) = now - 1
        <5>1. PICK s : s = tuner.vfos
          OBVIOUS
        <5>2. s \in Seq(Int) /\ Len(s) \in Nat /\ Len(s) > 1 /\ now = Len(s)
          BY <2>3, <4>2, <5>1
        <5>3. \A i \in 1 .. Len(s) - 1 : s[i] \in Int
          BY <5>2
        <5>4. SubSeq(s, 1, Len(s) - 1) \in Seq(Int) /\ Len(SubSeq(s, 1, Len(s) - 1)) = Len(s) - 1
          BY <5>2, <5>3, SubSeqProperties
        <5> QED  BY <4>4, <5>1, <5>2, <5>4
      <4> QED  BY <2>2, <2>3, <4>2, <4>5
    <3> QED  BY <3>1, <3>2
  <2> HIDE DEF v, n, now
  <2>5. /\ tuner' \in Tuners /\ tuner'.vfos = v
        /\ tuner'.centre = tuner.centre /\ tuner'.wanted = tuner.wanted
    BY <2>1, <2>4 DEF MapTypes, Tuners
  <2>6. MapTypes'
    BY <2>1, <2>4, <2>5 DEF MapTypes
  <2>7. AppliedSoFar'
    BY <2>1, <2>5 DEF AppliedSoFar, VfosAsAsked
  <2> QED  BY <2>1, <2>6, <2>7, MapKept
<1>3. CASE ReadCentre
  <2>1. /\ applying.pc = "centre"
        /\ applying' = [applying EXCEPT !.pc = "vfo", !.centre = tuner.centre, !.next = 1]
        /\ UNCHANGED <<mapConf, mapper, cloud, pushes, lan, deferred, tuner, mapEvents>>
    BY <1>3 DEF ReadCentre
  <2>2. /\ applying' \in Appliers /\ applying'.pc = "vfo" /\ applying'.push = applying.push
        /\ applying'.stale = applying.stale /\ applying'.centre = tuner.centre /\ applying'.next = 1
    BY <2>1 DEF MapTypes, Appliers, Tuners
  <2>3. MapTypes'
    BY <2>1, <2>2 DEF MapTypes
  <2>4. \A i \in Asked(applying.push, tuner.vfos) : ~(i < 1)
    BY DEF Asked
  <2>5. AppliedSoFar'
    BY <2>1, <2>2, <2>4 DEF AppliedSoFar, VfosAsAsked
  <2> QED  BY <2>1, <2>3, <2>5, MapKept
<1> QED  BY <1>1, <1>2, <1>3

\* The VFOs, one after the other.
LEMMA ApplyVfos ==
    ASSUME MapInv, ApplyVfo
    PROVE  MapInv'
<1> USE DEF MapInv
<1> DEFINE j == applying.next
           q == applying.push
           w == q.vfos[j] - applying.centre
<1>1. /\ applying.pc = "vfo"
      /\ UNCHANGED <<mapConf, mapper, cloud, pushes, lan, deferred, mapEvents>>
  BY DEF ApplyVfo
<1>2. /\ tuner \in Tuners /\ tuner.vfos \in Seq(Int) /\ Len(tuner.vfos) \in 1 .. MapVfos
      /\ tuner.wanted \in Nat /\ applying \in Appliers /\ j \in Nat
      /\ applying.centre \in Nat /\ q.vfos \in Seq(Int)
  BY MapGiven DEF MapTypes, Tuners, Appliers
<1>3. j >= 1
  BY <1>1 DEF AppliedSoFar
<1>4. CASE j \in Asked(q, tuner.vfos)
  <2>1. /\ tuner' = [tuner EXCEPT !.vfos[j] = w]
        /\ applying' = [applying EXCEPT !.next = j + 1]
    BY <1>4 DEF ApplyVfo
  <2>2. j \in 1 .. Len(tuner.vfos) /\ j \in 1 .. Len(q.vfos)
    BY <1>2, <1>4 DEF Asked
  <2>3. q.vfos[j] \in Int /\ w \in Int
    BY <1>2, <2>2
  <2> HIDE DEF w
  <2>4. /\ tuner' \in Tuners /\ tuner'.vfos = [tuner.vfos EXCEPT ![j] = w]
        /\ tuner'.wanted = tuner.wanted
    <3>1. tuner' = [tuner EXCEPT !.vfos = [tuner.vfos EXCEPT ![j] = w]]
      BY <2>1
    <3>2. [tuner.vfos EXCEPT ![j] = w] \in Seq(Int)
      <4>1. PICK s : s = tuner.vfos
        OBVIOUS
      <4>2. s \in Seq(Int) /\ j \in 1 .. Len(s)
        BY <1>2, <2>2, <4>1
      <4>3. [s EXCEPT ![j] = w] \in Seq(Int)
        BY <2>3, <4>2
      <4> QED  BY <4>1, <4>3
    <3> QED  BY <1>2, <3>1, <3>2 DEF Tuners
  <2>5. tuner'.vfos \in Seq(Int) /\ Len(tuner'.vfos) = Len(tuner.vfos)
    BY <1>2, <2>2, <2>3, <2>4
  <2>6. /\ applying' \in Appliers /\ applying'.pc = "vfo" /\ applying'.push = q
        /\ applying'.stale = applying.stale /\ applying'.centre = applying.centre
        /\ applying'.next = j + 1
    BY <1>1, <1>2, <2>1 DEF Appliers
  <2>7. MapTypes'
    BY <1>1, <1>2, <2>4, <2>5, <2>6 DEF MapTypes
  <2>8. ASSUME ~applying.stale
        PROVE  \A i \in Asked(q, tuner'.vfos) : i < j + 1 => tuner.wanted + tuner'.vfos[i] = q.vfos[i]
    <3>1. /\ applying.centre = tuner.wanted
          /\ \A i \in Asked(q, tuner.vfos) : i < j => tuner.wanted + tuner.vfos[i] = q.vfos[i]
      BY <1>1, <2>8 DEF AppliedSoFar
    <3>2. Asked(q, tuner'.vfos) = Asked(q, tuner.vfos)
      BY <2>5 DEF Asked
    <3>3. ASSUME NEW i \in Asked(q, tuner.vfos), i < j + 1
          PROVE  tuner.wanted + tuner'.vfos[i] = q.vfos[i]
      <4>1. i \in 1 .. Len(tuner.vfos)
        BY <1>2 DEF Asked
      <4>2. CASE i = j
        <5>1. tuner'.vfos[i] = w
          BY <2>2, <2>4, <4>2, <1>2
        <5>2. w = q.vfos[j] - tuner.wanted
          BY <3>1 DEF w
        <5> QED  BY <5>1, <5>2, <2>3, <4>2, <1>2
      <4>3. CASE i # j
        BY <3>3, <4>1, <4>3, <1>2, <2>4, <3>1
      <4> QED  BY <4>2, <4>3
    <3> QED  BY <3>2, <3>3
  <2>9. AppliedSoFar'
    <3>1. ~applying.stale => applying.centre = tuner.wanted
      BY <1>1 DEF AppliedSoFar
    <3>2. j + 1 >= 1
      BY <1>2
    <3>3. \A i \in Asked(applying'.push, tuner'.vfos) : i < applying'.next /\ ~applying'.stale =>
             tuner'.wanted + tuner'.vfos[i] = applying'.push.vfos[i]
      BY <2>4, <2>6, <2>8
    <3> QED  BY <2>4, <2>6, <3>1, <3>2, <3>3 DEF AppliedSoFar, VfosAsAsked
  <2> QED  BY <1>1, <2>7, <2>9, MapKept
<1>5. CASE j \notin Asked(q, tuner.vfos)
  <2>1. /\ tuner' = tuner
        /\ applying' = [applying EXCEPT !.pc = "idle", !.centre = 0, !.next = 0]
    BY <1>5 DEF ApplyVfo
  <2>2. /\ applying' \in Appliers /\ applying'.pc = "idle" /\ applying'.push = q
        /\ applying'.stale = applying.stale
    BY <1>2, <2>1 DEF Appliers
  <2>3. MapTypes'
    BY <1>1, <2>1, <2>2 DEF MapTypes
  <2>4. \A i \in Asked(q, tuner.vfos) : i < j
    BY <1>2, <1>3, <1>5 DEF Asked
  <2>5. ~applying.stale => \A i \in Asked(q, tuner.vfos) : tuner.wanted + tuner.vfos[i] = q.vfos[i]
    BY <1>1, <2>4 DEF AppliedSoFar
  <2>6. AppliedSoFar'
    BY <2>1, <2>2, <2>5 DEF AppliedSoFar, VfosAsAsked
  <2> QED  BY <1>1, <2>1, <2>3, <2>6, MapKept
<1> QED  BY <1>4, <1>5

\* heimdall and its packets.
LEMMA TunerFollows ==
    ASSUME MapInv, HeimRetunes \/ PacketTaken
    PROVE  MapInv'
<1> USE DEF MapInv
<1>1. CASE HeimRetunes
  <2>1. /\ tuner' = [tuner EXCEPT !.heim = tuner.wanted]
        /\ UNCHANGED <<mapConf, mapper, cloud, pushes, lan, deferred, applying, mapEvents>>
    BY <1>1 DEF HeimRetunes
  <2>2. /\ tuner' \in Tuners /\ tuner'.vfos = tuner.vfos /\ tuner'.centre = tuner.centre
        /\ tuner'.wanted = tuner.wanted
    BY <2>1 DEF MapTypes, Tuners
  <2>3. MapTypes'
    BY <2>1, <2>2 DEF MapTypes
  <2>4. AppliedSoFar'
    BY <2>1, <2>2 DEF AppliedSoFar, VfosAsAsked
  <2> QED  BY <2>1, <2>3, <2>4, MapKept
<1>2. CASE PacketTaken
  <2>1. /\ tuner' = [tuner EXCEPT !.centre = tuner.packet, !.packet = tuner.heim]
        /\ applying' = [applying EXCEPT !.stale =
              applying.stale \/ (applying.pc \in {"count", "centre"} /\ tuner.packet # tuner.wanted)]
        /\ UNCHANGED <<mapConf, mapper, cloud, pushes, lan, deferred, mapEvents>>
    BY <1>2 DEF PacketTaken
  <2>2. /\ tuner' \in Tuners /\ tuner'.vfos = tuner.vfos /\ tuner'.centre = tuner.packet
        /\ tuner'.wanted = tuner.wanted
    BY <2>1 DEF MapTypes, Tuners
  <2>3. /\ applying' \in Appliers
        /\ applying'.pc = applying.pc /\ applying'.push = applying.push
        /\ applying'.centre = applying.centre /\ applying'.next = applying.next
        /\ applying'.stale = (applying.stale \/ (applying.pc \in {"count", "centre"} /\ tuner.packet # tuner.wanted))
    BY <2>1 DEF MapTypes, Appliers
  <2>4. MapTypes'
    BY <2>1, <2>2, <2>3 DEF MapTypes
  <2>5. AppliedSoFar'
    BY <2>2, <2>3 DEF AppliedSoFar, VfosAsAsked
  <2> QED  BY <2>1, <2>4, <2>5, MapKept
<1> QED  BY <1>1, <1>2


\* What the worker sends is lost with the connection, or told of its own key.
LEMMA ToldFits ==
    ASSUME MapTypes, OneSink, NEW what \in Payloads, Told(mapper.key, what),
           mapper.mode = "remote", mapper.pc # "copy"
    PROVE  /\ cloud' \in Clouds /\ cloud'.keys \subseteq {mapper.key}
           /\ pushes # <<>> => cloud'.link = "up"
<1>1. mapper.key \in Owners /\ cloud \in Clouds /\ cloud.keys \subseteq {mapper.key}
  BY DEF MapTypes, Mappers, OneSink
<1>2. CASE cloud.link = "up" /\ cloud' = [cloud EXCEPT !.keys = cloud.keys \cup {mapper.key}, !.known = what]
  BY <1>1, <1>2 DEF Clouds
<1>3. CASE cloud.link = "broken" /\ cloud' \in {cloud, ClosedCloud}
  BY <1>1, <1>3, MapGiven DEF OneSink
<1> QED  BY <1>2, <1>3 DEF Told

\* A new configuration: all is closed before it is copied.
LEMMA WorkerReloads ==
    ASSUME MapInv, MapperReload
    PROVE  MapInv'
<1> USE DEF MapInv
<1>1. UNCHANGED <<mapConf, deferred, applying, tuner, mapEvents>>
  BY DEF MapperReload
<1>2. /\ mapper \in Mappers /\ mapConf.gen \in Nat /\ mapConf.mode \in {"remote", "local"}
      /\ mapConf.key \in Owners
  BY DEF MapTypes
<1>3. CASE /\ mapper.pc = "top" /\ mapConf.gen # mapper.seen
           /\ mapper' = [mapper EXCEPT !.pc = "copy", !.seen = mapConf.gen]
           /\ cloud' = ClosedCloud /\ pushes' = <<>> /\ lan' = ClosedLan
  <2>1. mapper' \in Mappers /\ mapper'.pc = "copy" /\ mapper'.seen = mapConf.gen
    <3>1. PICK g : g = mapConf.gen
      OBVIOUS
    <3>2. g \in Int /\ mapper' = [mapper EXCEPT !.pc = "copy", !.seen = g]
      BY <1>2, <1>3, <3>1
    <3>3. mapper' \in Mappers /\ mapper'.pc = "copy" /\ mapper'.seen = g
      BY <1>2, <3>2 DEF Mappers
    <3> QED  BY <3>1, <3>3
  <2>2. pushes' \in Seq(CloudPushes)
    BY <1>3, EmptySeq
  <2>3. MapTypes'
    BY <1>1, <1>3, <2>1, <2>2, MapGiven, LanIsClosed DEF MapTypes
  <2>4. InTime'
    BY <1>1, <1>2, <2>1 DEF InTime, ConfigTaken
  <2>5. OneSink'
    BY <1>3, MapGiven, LanIsClosed DEF OneSink
  <2>6. Streaming'
    BY <1>3, LanIsClosed DEF Streaming
  <2> QED  BY <1>1, <2>3, <2>4, <2>5, <2>6, MapKept
<1>4. CASE /\ mapper.pc = "copy"
           /\ mapper' = [mapper EXCEPT !.pc = "go", !.mode = mapConf.mode, !.key = mapConf.key, !.last = Untold]
           /\ UNCHANGED <<cloud, pushes, lan>>
  <2>1. /\ mapper' \in Mappers /\ mapper'.pc = "go" /\ mapper'.seen = mapper.seen
        /\ mapper'.mode = mapConf.mode /\ mapper'.key = mapConf.key
    BY <1>2, <1>4, MapGiven DEF Mappers
  <2>2. MapTypes'
    BY <1>1, <1>4, <2>1 DEF MapTypes
  <2>3. InTime'
    BY <1>1, <2>1 DEF InTime, ConfigTaken
  <2>4. OneSink'
    BY <1>4, <2>1 DEF OneSink
  <2> QED  BY <1>1, <1>4, <2>2, <2>3, <2>4, MapKept
<1> QED  BY <1>3, <1>4 DEF MapperReload, Reload

\* The worker stays under the configuration it has copied.
LEMMA WorkerStays ==
    ASSUME MapInv, mapper' \in Mappers, mapper.pc # "copy", mapper'.pc # "copy",
           mapper'.seen = mapper.seen, mapper'.mode = mapper.mode, mapper'.key = mapper.key,
           UNCHANGED <<mapConf, applying, tuner>>,
           cloud' \in Clouds, lan' \in Lans, pushes' \in Seq(CloudPushes),
           deferred' \in Seq(CloudPushes), mapEvents' \in 0 .. MaxMapEvents,
           cloud'.keys \subseteq {mapper.key},
           cloud'.link # "none" => mapper.mode = "remote",
           lan'.open => mapper.mode = "local",
           pushes' # <<>> => cloud'.link = "up",
           Streaming'
    PROVE  MapInv'
<1>1. MapTypes'
  BY DEF MapInv, MapTypes
<1>2. InTime'
  BY DEF MapInv, InTime, ConfigTaken
<1>3. OneSink'
  BY DEF OneSink
<1>4. AppliedSoFar'
  BY MapKept
<1> QED  BY <1>1, <1>2, <1>3, <1>4 DEF MapInv

\* The worker's rounds on the connection to the cloud.
LEMMA WorkerOnCloud ==
    ASSUME MapInv, MapperGo \/ MapConnect \/ MapConnectLater \/ MapPump \/ MapSettings \/ MapPayload
    PROVE  MapInv'
<1>1. /\ mapper \in Mappers /\ cloud \in Clouds /\ lan \in Lans /\ pushes \in Seq(CloudPushes)
      /\ deferred \in Seq(CloudPushes) /\ mapEvents \in 0 .. MaxMapEvents
      /\ cloud.keys \subseteq {mapper.key}
      /\ cloud.link # "none" => mapper.mode = "remote"
      /\ lan.open => mapper.mode = "local"
      /\ pushes # <<>> => cloud.link = "up"
      /\ tuner.centre \in Nat /\ tuner.vfos \in Seq(Int)
  BY DEF MapInv, MapTypes, OneSink, Tuners
<1>2. UNCHANGED lan => Streaming'
  BY MapKept
<1>3. mapEvents > 0 /\ mapEvents' = mapEvents - 1 => mapEvents' \in 0 .. MaxMapEvents
  BY <1>1, MapGiven
<1>4. CASE MapperGo
  BY <1>4, <1>1, <1>2, WorkerStays DEF MapperGo, Mappers
<1>5. CASE MapConnect /\ mapEvents' = mapEvents /\ mapper' = Connected
  <2>1. /\ mapper.pc = "sink" /\ mapper.mode = "remote" /\ cloud.link = "none"
        /\ mapper' = [mapper EXCEPT !.last = Untold]
        /\ UNCHANGED <<mapConf, pushes, lan, deferred, applying, tuner, mapEvents>>
        /\ cloud' = [ClosedCloud EXCEPT !.link = "up"] \/ cloud' = cloud
    BY <1>5 DEF MapConnect, Connected
  <2>2. /\ mapper' \in Mappers /\ mapper'.pc # "copy" /\ mapper'.seen = mapper.seen
        /\ mapper'.mode = mapper.mode /\ mapper'.key = mapper.key
    BY <1>1, <2>1, MapGiven DEF Mappers
  <2>3. /\ cloud' \in Clouds /\ cloud'.keys \subseteq {mapper.key} /\ (pushes # <<>> => cloud'.link = "up")
    <3>1. CASE cloud' = [ClosedCloud EXCEPT !.link = "up"]
      BY <3>1, MapGiven DEF Clouds
    <3> QED  BY <1>1, <2>1, <3>1
  <2> QED  BY <1>1, <1>2, <2>1, <2>2, <2>3, WorkerStays
<1>6. CASE MapConnect /\ ~(mapEvents' = mapEvents /\ mapper' = Connected)
  BY <1>6, <1>1, <1>2, <1>3, WorkerStays DEF MapConnect, MapEvent, Mappers
<1>7. CASE MapConnectLater
  BY <1>7, <1>1, <1>2, WorkerStays DEF MapConnectLater, Mappers
<1>8. CASE MapPump
  <2>1. /\ mapper.pc = "sink" /\ mapper.mode = "remote" /\ cloud.link # "none"
        /\ mapper' = [mapper EXCEPT !.pc = "settings"] \/ mapper' = [mapper EXCEPT !.pc = "capture"]
        /\ UNCHANGED <<mapConf, lan, applying, tuner, mapEvents>>
    BY <1>8 DEF MapPump
  <2>2. /\ mapper' \in Mappers /\ mapper'.pc # "copy" /\ mapper'.seen = mapper.seen
        /\ mapper'.mode = mapper.mode /\ mapper'.key = mapper.key
    BY <1>1, <2>1 DEF Mappers
  <2>3. /\ deferred' \in Seq(CloudPushes) /\ pushes' \in Seq(CloudPushes)
        /\ cloud' \in Clouds /\ cloud'.keys \subseteq {mapper.key} /\ (pushes' # <<>> => cloud'.link = "up")
    <3>1. CASE cloud.link = "up"
      <4>1. deferred' = deferred \o pushes /\ pushes' = <<>> /\ cloud' = cloud
        BY <1>8, <3>1 DEF MapPump
      <4>2. deferred \o pushes \in Seq(CloudPushes) /\ <<>> \in Seq(CloudPushes)
        BY <1>1, ConcatProperties, EmptySeq
      <4> QED  BY <1>1, <4>1, <4>2
    <3>2. CASE cloud.link # "up"
      BY <1>8, <3>2, <1>1, MapGiven DEF MapPump
    <3> QED  BY <3>1, <3>2
  <2> QED  BY <1>1, <1>2, <2>1, <2>2, <2>3, WorkerStays
<1>9. CASE MapSettings
  BY <1>9, <1>1, <1>2, WorkerStays DEF MapSettings, Mappers
<1>10. CASE MapPayload
  <2> DEFINE p == Payload(mapper.key, mapper.centre)
  <2>1. /\ mapper.pc = "payload"
        /\ mapper' = [mapper EXCEPT !.pc = "capture", !.centre = 0, !.last = p]
        /\ cloud' = cloud \/ Told(mapper.key, p)
        /\ UNCHANGED <<mapConf, pushes, lan, deferred, applying, tuner, mapEvents>>
    BY <1>10 DEF MapPayload
  <2>2. p \in Payloads
    BY <1>1 DEF Payload, Payloads, Mappers
  <2> HIDE DEF p
  <2>3. /\ mapper' \in Mappers /\ mapper'.pc # "copy" /\ mapper'.seen = mapper.seen
        /\ mapper'.mode = mapper.mode /\ mapper'.key = mapper.key
    BY <1>1, <2>1, <2>2 DEF Mappers
  <2>4. CASE Told(mapper.key, p)
    BY <1>1, <2>4, <2>1, <2>2, ToldFits, <1>2, <2>3, WorkerStays DEF Told, MapInv
  <2>5. CASE cloud' = cloud
    BY <1>1, <1>2, <2>1, <2>3, <2>5, WorkerStays
  <2> QED  BY <2>1, <2>4, <2>5
<1> QED  BY <1>4, <1>5, <1>6, <1>7, <1>8, <1>9, <1>10

\* A record reaches the clients whole, or is the last they get.
LEMMA FedWhole ==
    ASSUME MapTypes, Streaming, NEW short \in SUBSET LanClients
    PROVE  /\ Fed(short) \in Lans /\ Fed(short).open = lan.open
           /\ \A c \in LanClients :
                /\ Fed(short).clients[c] \in {"new", "open"} => Fed(short).stream[c] = "whole"
                /\ Fed(short).stream[c] # "spliced"
<1>1. lan \in Lans
  BY DEF MapTypes
<1>2. /\ Fed(short).open = lan.open
      /\ Fed(short).clients = [c \in LanClients |-> IF c \in short THEN AfterShort(c) ELSE lan.clients[c]]
      /\ Fed(short).stream = [c \in LanClients |->
            CASE lan.clients[c] # "open" -> lan.stream[c]
              [] lan.clients[c] = "open" /\ lan.stream[c] # "whole" -> "spliced"
              [] OTHER -> IF c \in short THEN "torn" ELSE "whole"]
      /\ Fed(short) = [lan EXCEPT !.clients = Fed(short).clients, !.stream = Fed(short).stream]
  BY <1>1 DEF Fed, Lans
<1>3. ASSUME NEW c \in LanClients
      PROVE  /\ Fed(short).clients[c] \in {"out", "new", "open", "left", "cut"}
             /\ Fed(short).stream[c] \in {"whole", "torn"}
             /\ Fed(short).clients[c] \in {"new", "open"} => Fed(short).stream[c] = "whole"
  <2>1. /\ lan.clients[c] \in {"out", "new", "open", "left", "cut"}
        /\ lan.stream[c] \in {"whole", "torn", "spliced"}
    BY <1>1 DEF Lans
  <2>2. /\ lan.clients[c] \in {"new", "open"} => lan.stream[c] = "whole"
        /\ lan.stream[c] # "spliced"
    BY DEF Streaming
  <2>3. Fed(short).clients[c] = IF c \in short THEN "cut" ELSE lan.clients[c]
    BY <1>2 DEF AfterShort
  <2>4. CASE lan.clients[c] # "open"
    BY <1>2, <2>4, <2>1, <2>2, <2>3
  <2>5. CASE lan.clients[c] = "open"
    BY <1>2, <2>2, <2>5, <2>1, <2>3
  <2> QED  BY <2>4, <2>5
<1>4. Fed(short) \in Lans
  BY <1>2, <1>3, <1>1 DEF Lans
<1> QED  BY <1>2, <1>3, <1>4

\* The worker's rounds as a server, and the clock of its records.
LEMMA WorkerOnLan ==
    ASSUME MapInv, MapListen \/ MapCapture
    PROVE  MapInv'
<1>1. /\ mapper \in Mappers /\ cloud \in Clouds /\ lan \in Lans /\ pushes \in Seq(CloudPushes)
      /\ deferred \in Seq(CloudPushes) /\ mapEvents \in 0 .. MaxMapEvents
      /\ cloud.keys \subseteq {mapper.key} /\ cloud.known \in Payloads
      /\ cloud.link # "none" => mapper.mode = "remote"
      /\ lan.open => mapper.mode = "local"
      /\ pushes # <<>> => cloud.link = "up"
  BY DEF MapInv, MapTypes, OneSink, Clouds
<1>2. UNCHANGED lan => Streaming'
  BY MapKept
<1>3. mapEvents > 0 /\ mapEvents' = mapEvents - 1 => mapEvents' \in 0 .. MaxMapEvents
  BY <1>1, MapGiven
<1>4. CASE MapListen
  <2>1. /\ mapper.pc = "sink" /\ mapper.mode = "local" /\ mapper' = [mapper EXCEPT !.pc = "capture"]
        /\ UNCHANGED <<mapConf, cloud, pushes, deferred, applying, tuner>>
        /\ mapEvents' = mapEvents \/ (mapEvents > 0 /\ mapEvents' = mapEvents - 1)
    BY <1>4 DEF MapListen, MapEvent
  <2>2. /\ mapper' \in Mappers /\ mapper'.pc # "copy" /\ mapper'.seen = mapper.seen
        /\ mapper'.mode = mapper.mode /\ mapper'.key = mapper.key
    BY <1>1, <2>1 DEF Mappers
  <2>3. lan' \in Lans /\ Streaming'
    <3>1. CASE UNCHANGED lan
      BY <1>1, <1>2, <3>1
    <3>2. CASE lan' = [lan EXCEPT !.open = TRUE,
                         !.clients = [c \in LanClients |->
                            CASE lan.clients[c] = "new" -> "open" [] lan.clients[c] = "left" -> "out"
                              [] OTHER -> lan.clients[c]]]
      <4>1. /\ lan'.stream = lan.stream
            /\ lan'.clients = [c \in LanClients |->
                    CASE lan.clients[c] = "new" -> "open" [] lan.clients[c] = "left" -> "out"
                      [] OTHER -> lan.clients[c]]
            /\ lan' = [lan EXCEPT !.open = TRUE, !.clients = lan'.clients]
        BY <1>1, <3>2 DEF Lans
      <4>2. ASSUME NEW c \in LanClients
            PROVE  /\ lan'.clients[c] \in {"out", "new", "open", "left", "cut"}
                   /\ lan'.clients[c] \in {"new", "open"} => lan.clients[c] \in {"new", "open"}
        BY <1>1, <4>1 DEF Lans
      <4>3. lan'.clients \in [LanClients -> {"out", "new", "open", "left", "cut"}]
        BY <4>1, <4>2
      <4>4. lan' \in Lans
        BY <1>1, <4>1, <4>3 DEF Lans
      <4> QED  BY <4>1, <4>2, <4>4 DEF MapInv, Streaming
    <3> QED  BY <1>4, <3>1, <3>2 DEF MapListen
  <2> QED  BY <1>1, <1>3, <2>1, <2>2, <2>3, WorkerStays
<1>5. CASE MapCapture
  <2>1. /\ mapper.pc = "capture" /\ mapper' = [mapper EXCEPT !.pc = "top"]
        /\ UNCHANGED <<mapConf, pushes, deferred, applying, tuner, mapEvents>>
    BY <1>5 DEF MapCapture
  <2>2. /\ mapper' \in Mappers /\ mapper'.pc # "copy" /\ mapper'.seen = mapper.seen
        /\ mapper'.mode = mapper.mode /\ mapper'.key = mapper.key
    BY <1>1, <2>1 DEF Mappers
  <2>3. CASE UNCHANGED <<cloud, lan>>
    BY <1>1, <1>2, <2>1, <2>2, <2>3, WorkerStays
  <2>4. CASE mapper.mode = "remote" /\ Told(mapper.key, cloud.known) /\ UNCHANGED lan
    BY <1>1, <2>1, <2>4, ToldFits, <1>2, <2>2, WorkerStays DEF MapInv
  <2>5. CASE /\ mapper.mode = "local" /\ UNCHANGED cloud
             /\ \E short \in SUBSET {c \in LanClients : lan.clients[c] = "open"} : lan' = Fed(short)
    <3>1. PICK short \in SUBSET LanClients : lan' = Fed(short)
      BY <2>5
    <3>2. lan' \in Lans /\ Streaming'
      BY <3>1, FedWhole DEF MapInv, Streaming
    <3> QED  BY <1>1, <2>1, <2>2, <2>5, <3>2, WorkerStays
  <2> QED  BY <1>5, <2>3, <2>4, <2>5 DEF MapCapture
<1> QED  BY <1>4, <1>5

\* The cloud, the maps on the LAN and the clock.
LEMMA OthersFit ==
    ASSUME MapInv, MapTime \/ CloudPush \/ CloudBreaks \/ (\E c \in LanClients : LanClient(c))
    PROVE  MapInv'
<1>1. /\ mapper \in Mappers /\ cloud \in Clouds /\ lan \in Lans /\ pushes \in Seq(CloudPushes)
      /\ mapEvents \in 0 .. MaxMapEvents
  BY DEF MapInv, MapTypes
<1>2. mapEvents > 0 /\ mapEvents' = mapEvents - 1 => mapEvents' \in 0 .. MaxMapEvents
  BY <1>1, MapGiven
<1>3. CASE MapTime
  BY <1>3, MapKept DEF MapTime, MapInv, MapTypes
<1>4. CASE CloudPush
  <2>1. /\ cloud.link = "up" /\ mapEvents > 0 /\ mapEvents' = mapEvents - 1
        /\ UNCHANGED <<mapConf, mapper, cloud, lan, deferred, applying, tuner>>
    BY <1>4 DEF CloudPush, MapEvent
  <2>2. pushes' \in Seq(CloudPushes)
    <3>1. PICK p \in CloudPushes : pushes' = Append(pushes, p)
      BY <1>4 DEF CloudPush
    <3> QED  BY <1>1, <3>1
  <2>3. MapTypes'
    BY <1>2, <2>1, <2>2 DEF MapInv, MapTypes
  <2>4. OneSink'
    BY <2>1 DEF MapInv, OneSink
  <2> QED  BY <2>1, <2>3, <2>4, MapKept DEF MapInv
<1>5. CASE CloudBreaks
  <2>1. /\ cloud.link = "up" /\ mapEvents > 0 /\ mapEvents' = mapEvents - 1
        /\ cloud' = [cloud EXCEPT !.link = "broken"] /\ pushes' = <<>>
        /\ UNCHANGED <<mapConf, mapper, lan, deferred, applying, tuner>>
    BY <1>5 DEF CloudBreaks, MapEvent
  <2>2. cloud' \in Clouds /\ cloud'.keys = cloud.keys /\ cloud'.link = "broken"
    BY <1>1, <2>1 DEF Clouds
  <2>3. pushes' \in Seq(CloudPushes)
    BY <2>1, EmptySeq
  <2>4. MapTypes'
    BY <1>2, <2>1, <2>2, <2>3 DEF MapInv, MapTypes
  <2>5. OneSink'
    BY <2>1, <2>2 DEF MapInv, OneSink
  <2> QED  BY <2>1, <2>4, <2>5, MapKept DEF MapInv
<1>6. CASE \E c \in LanClients : LanClient(c)
  <2>1. PICK c \in LanClients : LanClient(c)
    BY <1>6
  <2>2. UNCHANGED <<mapConf, mapper, cloud, pushes, deferred, applying, tuner, mapEvents>>
    BY <2>1 DEF LanClient
  <2>3. /\ lan.clients \in [LanClients -> {"out", "new", "open", "left", "cut"}]
        /\ lan.stream \in [LanClients -> {"whole", "torn", "spliced"}]
    BY <1>1 DEF Lans
  <2>4. /\ lan' \in Lans /\ lan'.open = lan.open
        /\ \/ lan'.clients[c] = "new" /\ lan'.stream[c] = "whole"
           \/ lan'.clients[c] \notin {"new", "open"} /\ lan'.stream[c] \in {lan.stream[c], "whole"}
        /\ \A d \in LanClients \ {c} : lan'.clients[d] = lan.clients[d] /\ lan'.stream[d] = lan.stream[d]
    <3>1. CASE lan' = [lan EXCEPT !.clients[c] = "new", !.stream[c] = "whole"]
      BY <1>1, <3>1, <2>3 DEF Lans
    <3>2. CASE lan' = [lan EXCEPT !.clients[c] = "left"]
      BY <1>1, <3>2, <2>3 DEF Lans
    <3>3. CASE lan' = [lan EXCEPT !.clients[c] = "out", !.stream[c] = "whole"]
      BY <1>1, <3>3, <2>3 DEF Lans
    <3> QED  BY <2>1, <3>1, <3>2, <3>3 DEF LanClient
  <2>5. MapTypes'
    BY <2>2, <2>4 DEF MapInv, MapTypes
  <2>6. OneSink'
    BY <2>2, <2>4 DEF MapInv, OneSink
  <2>7. Streaming'
    <3>1. lan.stream[c] # "spliced"
      BY DEF MapInv, Streaming
    <3>2. ASSUME NEW d \in LanClients
          PROVE  /\ lan'.clients[d] \in {"new", "open"} => lan'.stream[d] = "whole"
                 /\ lan'.stream[d] # "spliced"
      <4>1. CASE d = c
        BY <2>4, <3>1, <4>1
      <4>2. CASE d # c
        BY <2>4, <4>2 DEF MapInv, Streaming
      <4> QED  BY <4>1, <4>2
    <3> QED  BY <3>2 DEF Streaming
  <2> QED  BY <2>2, <2>5, <2>6, <2>7, MapKept DEF MapInv
<1> QED  BY <1>3, <1>4, <1>5, <1>6


LEMMA MapStarts == MapInit => MapInv
<1> SUFFICES ASSUME MapInit PROVE MapInv
  OBVIOUS
<1>1. PICK f \in Tunings : tuner = [centre |-> f, vfos |-> <<0>>, wanted |-> f, heim |-> f, packet |-> f]
  BY DEF MapInit
<1>2. f \in Nat /\ <<0>> \in Seq(Int) /\ Len(<<0>>) = 1
  BY MapGiven
<1>3. tuner \in Tuners /\ Len(tuner.vfos) \in 1 .. MapVfos /\ tuner.centre = tuner.wanted
  BY <1>1, <1>2, MapGiven DEF Tuners
<1>4. mapConf \in [enabled : BOOLEAN, mode : {"remote", "local"}, key : Owners, gen : Nat] /\ mapConf.gen = 0
  BY MapGiven DEF Owners, MapInit
<1>5. mapper = [pc |-> "top", seen |-> -1, mode |-> "none", key |-> "none", last |-> Untold, centre |-> 0]
  BY DEF MapInit
<1>6. mapper \in Mappers
  BY <1>5, MapGiven DEF Mappers, Owners
<1>7. /\ applying = [pc |-> "idle", push |-> NoPush, centre |-> 0, next |-> 0, stale |-> FALSE]
      /\ cloud = ClosedCloud /\ pushes = <<>> /\ deferred = <<>> /\ mapEvents = MaxMapEvents
      /\ lan = [open |-> FALSE, clients |-> [c \in LanClients |-> "out"], stream |-> [c \in LanClients |-> "whole"]]
  BY DEF MapInit
<1>8. applying \in Appliers
  BY <1>7, MapGiven DEF Appliers
<1>9. lan \in Lans /\ Streaming
  BY <1>7 DEF Lans, Streaming
<1>10. MapTypes
  BY <1>3, <1>4, <1>6, <1>7, <1>8, <1>9, EmptySeq, MapGiven DEF MapTypes
<1>11. InTime
  BY <1>4, <1>5 DEF InTime, ConfigTaken
<1>12. OneSink
  BY <1>5, <1>7, MapGiven DEF OneSink
<1>13. AppliedSoFar
  <2>1. Asked(applying.push, tuner.vfos) = {}
    BY <1>7, <1>1 DEF NoPush, Asked
  <2> QED  BY <1>7, <2>1 DEF AppliedSoFar, VfosAsAsked
<1> QED  BY <1>9, <1>10, <1>11, <1>12, <1>13 DEF MapInv

LEMMA MapSteps ==
    ASSUME MapInv, [MapNext]_mapVars
    PROVE  MapInv'
<1>1. CASE UNCHANGED mapVars
  BY <1>1, MapKept DEF mapVars, MapInv, MapTypes
<1>2. CASE MapNext
  BY <1>2, MapCommands, ApplyStarts, ApplyCounts, ApplyVfos, TunerFollows, WorkerReloads,
     WorkerOnCloud, WorkerOnLan, OthersFit DEF MapNext, LoopStep, MapperStep
<1> QED  BY <1>1, <1>2

LEMMA MapInvIsSound == MapInv => MapSound
<1> SUFFICES ASSUME MapInv PROVE MapSound
  OBVIOUS
<1>1. MapTypeOK
  BY DEF MapInv, MapTypes, OneSink, MapTypeOK, Mappers, Appliers, Clouds, Lans
<1>2. OneKeyPerConnection
  <2>1. CASE cloud.keys = {}
    BY <2>1, FS_EmptySet DEF OneKeyPerConnection
  <2>2. CASE cloud.keys = {mapper.key}
    BY FS_Singleton, <2>2 DEF OneKeyPerConnection
  <2>3. cloud.keys \subseteq {mapper.key}
    BY DEF MapInv, OneSink
  <2> QED  BY <2>1, <2>2, <2>3
<1> QED  BY <1>1, <1>2 DEF MapInv, InTime, AppliedSoFar, Streaming, LanStreamsWhole, MapSound

\* The inductive invariant of the map output: the worker has seen no generation
\* that is yet to come, what is open belongs to the configuration it has copied,
\* a push is applied place by place, and a LAN client that is sent to has had
\* whole frames only (web_mapper.cpp).
THEOREM MapInvariant == MapInit /\ [][MapNext]_mapVars => []MapInv
<1>1. MapInv /\ [MapNext]_mapVars => MapInv'
  BY MapSteps
<1> QED  BY <1>1, MapStarts, PTL

\* The map output works under its configuration, a connection is of one key,
\* VFOs land where the cloud asked, and no LAN stream goes on behind a torn
\* frame (WebMapper).
THEOREM MapCorrect == MapSpec => []MapSound
BY MapInvariant, MapInvIsSound, PTL DEF MapSpec

-----------------------------------------------------------------------------
(* The four together.                                                        *)

\* Each part of the composition is a behaviour of the whole component.
LEMMA PartsCompose ==
    Init /\ [][Next]_vars =>
        LinkSpec /\ RadioSpec /\ (RecInit /\ [][RecNext]_recVars) /\ (MapInit /\ [][MapNext]_mapVars)
<1>1. Init => LinkInit /\ RadioInit /\ RecInit /\ MapInit
  BY DEF Init
<1>2. [Next]_vars => [LinkNext]_linkVars
  BY DEF vars, Next, Link, Data, Rtl, Radio, Recording, Mapping
<1>3. [Next]_vars => [RadioNext]_radioVars
  BY DEF vars, Next, Link, Radio, Samples, Tuner, Recording, Mapping
<1>4. [Next]_vars => [RecNext]_recVars
  BY DEF vars, Next, Link, Radio, Recording, Mapping
<1>5. [Next]_vars => [MapNext]_mapVars
  BY DEF vars, Next, Link, Radio, Recording, Mapping
<1> QED  BY <1>1, <1>2, <1>3, <1>4, <1>5, PTL DEF LinkSpec, RadioSpec

\* The connections, the block, the recordings and the map output are sound in
\* every part of the composition that the run checks.
THEOREM AllSound ==
    Init /\ [][Next]_vars => [](LinkSound /\ RadioSound /\ RecordingSound /\ MapSound)
BY PartsCompose, LinkCorrect, RadioCorrect, RecInvariant, RecInvIsSound, MapInvariant, MapInvIsSound, PTL

\* What goes out never goes back, in every part of the composition that the runs
\* check: the blocks of the rtl_tcp client, the frames of the block, the settings
\* of the server (worker_loop, work, control_loop).
THEOREM NothingGoesBack == Init /\ [][Next]_vars => NothingBackwards
BY PartsCompose, BlocksInOrder, RadioForward, PTL DEF NothingBackwards

=============================================================================
