------------------------------ MODULE DataLink ------------------------------
(***************************************************************************)
(* The links that carry samples out of heimdall: the conversion thread     *)
(* broadcasts each packet first through the TcpDataServer to every client  *)
(* (the direction finding client and the GNU Radio source read it the same *)
(* way), then a block of it through the RtlTcpServer to its only client.   *)
(*                                                                         *)
(* A packet on the wire is a sequence of words, a header first.  A word is *)
(* the packet it belongs to, its place in it, and the length it claims for *)
(* its packet when it is taken for a header: 0 when it has no magic or     *)
(* fails the sanity checks.  A sample may look like a header.  A socket    *)
(* takes SocketRoom words that have not been read.                         *)
(***************************************************************************)
EXTENDS Integers, Sequences, FiniteSets

CONSTANTS
    Readers,      \* clients of the data port
    Lengths,      \* lengths of a packet in words, by number of channels
    SocketRoom,   \* words in flight that a connection takes
    RtlMax,       \* MAX_BUFFER_COUNT
    MaxPackets,   \* bound: packets broadcast
    MaxBreaks,    \* bound: connections the network breaks
    MaxRtl        \* bound: connections of the rtl_tcp client

ASSUME LinkAssumption ==
    /\ Lengths \subseteq Nat \ {0, 1} /\ Lengths # {}
    /\ {SocketRoom, RtlMax} \subseteq Nat \ {0}
    /\ {MaxPackets, MaxBreaks, MaxRtl} \subseteq Nat

VARIABLES
    conv,      \* the conversion thread: its step and the number of its packet
    conn,      \* TcpDataServer: the connection of each reader
    reader,    \* the receiver threads: connected, buffer, last packet
    breaks,    \* connections the network broke
    rtl,       \* RtlTcpServer: server thread, connection number, last word
    queue      \* its list of blocks, its count, and the block being sent

linkVars == <<conv, conn, reader, breaks, rtl, queue>>

\* server: "none" no connection, "backlog" not yet accepted, "active",
\* "inactive" waiting to be erased, "closed".
NoConnection == [server |-> "none", wire |-> <<>>]
NothingRead  == [pc |-> "connect", buffer |-> <<>>, last |-> <<>>, same |-> FALSE]

-----------------------------------------------------------------------------
\* TcpDataServer.

Word(p, i, claim) == [p |-> p, i |-> i, claim |-> claim]

\* Packet p of n words.  Its last samples look like a header of their own.
Packet(p, n) ==
    [i \in 1 .. n |-> Word(p, i, IF i \in {1, n} THEN n ELSE 0)]

\* accept_loop: the connection is added to clients, between two broadcasts.
Accept(r) ==
    /\ conn[r].server = "backlog"
    /\ conn' = [conn EXCEPT ![r].server = "active"]
    /\ UNCHANGED <<conv, reader, breaks, rtl, queue>>

\* send() on a non-blocking socket: all of w, or the part there is room for.
Sent(w, room) == SubSeq(w, 1, IF Len(w) <= room THEN Len(w) ELSE room)

\* A client that did not take the whole packet is inactive from then on.
AfterSend(c, w) ==
    LET sent == Sent(w, SocketRoom - Len(c.wire)) IN
    [server |-> IF Len(sent) = Len(w) THEN "active" ELSE "inactive",
     wire   |-> c.wire \o sent]

\* broadcast_data: erases and so closes the inactive clients, then sends the
\* packet to the active ones.
BroadcastTo(c, w) ==
    CASE c.server = "inactive" -> [c EXCEPT !.server = "closed"]
      [] c.server = "active"   -> AfterSend(c, w)
      [] OTHER                 -> c

BroadcastData ==
    /\ conv.pc = "data"
    /\ conv.next <= MaxPackets
    /\ \E n \in Lengths :
          conn' = [r \in Readers |->
                      BroadcastTo(conn[r], Packet(conv.next, n))]
    /\ conv' = [conv EXCEPT !.pc = "check"]
    /\ UNCHANGED <<reader, breaks, rtl, queue>>

-----------------------------------------------------------------------------
\* A reader: data_receiver_thread of the client, reader_loop of the block.

Connect_Splices(r) ==
    /\ reader[r].pc = "connect"
    /\ reader' = [reader EXCEPT ![r].pc = "receive"]
    /\ conn' = [conn EXCEPT ![r] = [NoConnection EXCEPT !.server = "backlog"]]
    /\ UNCHANGED <<conv, breaks, rtl, queue>>

\* connect, with the parse buffer emptied.
Connect(r) ==
    /\ reader[r].pc = "connect"
    /\ reader' = [reader EXCEPT ![r] = [@ EXCEPT !.pc = "receive", !.buffer = <<>>]]
    /\ conn' = [conn EXCEPT ![r] = [NoConnection EXCEPT !.server = "backlog"]]
    /\ UNCHANGED <<conv, breaks, rtl, queue>>

\* recv returns some of what is in flight.
Receive(r) ==
    /\ reader[r].pc = "receive"
    /\ \E k \in 1 .. Len(conn[r].wire) :
          /\ reader' = [reader EXCEPT ![r].pc = "parse",
                            ![r].buffer = @ \o SubSeq(conn[r].wire, 1, k)]
          /\ conn' = [conn EXCEPT ![r].wire = SubSeq(@, k + 1, Len(@))]
    /\ UNCHANGED <<conv, breaks, rtl, queue>>

\* recv returns 0: the server closed and all has been read.
Ended(r) == conn[r].server = "closed" /\ conn[r].wire = <<>>

Reconnect(r) ==
    /\ reader' = [reader EXCEPT ![r].pc = "connect", ![r].same = FALSE]
    /\ conn' = [conn EXCEPT ![r] = NoConnection]

Disconnect(r) ==
    /\ reader[r].pc = "receive"
    /\ Ended(r)
    /\ Reconnect(r)
    /\ UNCHANGED <<conv, breaks, rtl, queue>>

\* The network breaks the connection: recv fails.  The server's end is found
\* broken by a later send, which touches nobody else.
Break(r) ==
    /\ breaks < MaxBreaks
    /\ reader[r].pc = "receive"
    /\ breaks' = breaks + 1
    /\ Reconnect(r)
    /\ UNCHANGED <<conv, rtl, queue>>

\* Bytes without the magic, or before an implausible header, are passed over.
FromHeader(b) ==
    LET starts == {i \in DOMAIN b : b[i].claim > 0}
    IN  IF starts = {} THEN <<>>
        ELSE SubSeq(b, CHOOSE i \in starts : \A j \in starts : i <= j, Len(b))

\* The packet a header claims is all here and is taken.
Complete(b) == b # <<>> /\ Head(b).claim \in 1 .. Len(b)

Take(r) ==
    /\ reader[r].pc = "parse"
    /\ Complete(FromHeader(reader[r].buffer))
    /\ LET b == FromHeader(reader[r].buffer)
           n == Head(b).claim
       IN  reader' = [reader EXCEPT ![r].buffer = SubSeq(b, n + 1, Len(b)),
                          ![r].last = SubSeq(b, 1, n), ![r].same = TRUE]
    /\ UNCHANGED <<conv, conn, breaks, rtl, queue>>

\* What is left is the beginning of a packet: it is kept for the next recv.
Wait(r) ==
    /\ reader[r].pc = "parse"
    /\ ~Complete(FromHeader(reader[r].buffer))
    /\ reader' = [reader EXCEPT ![r].pc = "receive", ![r].buffer = FromHeader(@)]
    /\ UNCHANGED <<conv, conn, breaks, rtl, queue>>

-----------------------------------------------------------------------------
\* RtlTcpServer.  Its blocks are numbered by their packets; each is sent in
\* two parts, and remembers the connection it was made for.

\* client_socket is looked at, then the samples are converted ...
RtlCheck ==
    /\ conv.pc = "check"
    /\ conv' = IF rtl.socket THEN [conv EXCEPT !.pc = "add", !.for = rtl.conn]
               ELSE [conv EXCEPT !.pc = "data", !.next = @ + 1]
    /\ UNCHANGED <<conn, reader, breaks, rtl, queue>>

\* ... and added to the list, the oldest block going when it is full.
MakeRoom(list) == IF Len(list) >= RtlMax THEN Tail(list) ELSE list

RtlAdd ==
    /\ conv.pc = "add"
    /\ LET list == Append(MakeRoom(queue.list), [b |-> conv.next, for |-> conv.for])
       IN  queue' = [queue EXCEPT !.list = list,
                         !.count = IF Len(queue.list) >= RtlMax THEN @ ELSE @ + 1]
    /\ conv' = [conv EXCEPT !.pc = "data", !.next = @ + 1]
    /\ UNCHANGED <<conn, reader, breaks, rtl>>

\* server_loop accepts the client and greets it before it starts the worker.
RtlAccept ==
    /\ rtl.pc = "accept"
    /\ rtl.conn < MaxRtl
    /\ rtl' = [rtl EXCEPT !.pc = "greet", !.conn = @ + 1, !.socket = TRUE,
                          !.up = TRUE, !.got = <<>>]
    /\ UNCHANGED <<conv, conn, reader, breaks, queue>>

RtlGreet ==
    /\ rtl.pc = "greet"
    /\ rtl' = [rtl EXCEPT !.pc = "work", !.got = IF rtl.up THEN <<"RTL0">> ELSE @]
    /\ UNCHANGED <<conv, conn, reader, breaks, queue>>

\* worker_loop takes the oldest block ...
RtlTake ==
    /\ rtl.pc = "work"
    /\ queue.sending = <<>>
    /\ queue.list # <<>>
    /\ queue' = [list |-> Tail(queue.list), count |-> queue.count - 1,
                 sending |-> <<Head(queue.list), 1>>]
    /\ UNCHANGED <<conv, conn, reader, breaks, rtl>>

\* ... and sends it part by part, each when the socket takes it.
RtlSend ==
    /\ rtl.pc = "work"
    /\ queue.sending # <<>>
    /\ rtl.up
    /\ LET part == queue.sending[2] IN
       /\ rtl' = [rtl EXCEPT !.got = <<queue.sending[1].b, part, queue.sending[1].for>>]
       /\ queue' = [queue EXCEPT !.sending =
                       IF part = 2 THEN <<>> ELSE <<queue.sending[1], part + 1>>]
    /\ UNCHANGED <<conv, conn, reader, breaks>>

\* The send fails: the worker ends.
RtlFail ==
    /\ rtl.pc = "work"
    /\ queue.sending # <<>>
    /\ ~rtl.up
    /\ rtl' = [rtl EXCEPT !.pc = "close"]
    /\ queue' = [queue EXCEPT !.sending = <<>>]
    /\ UNCHANGED <<conv, conn, reader, breaks>>

\* server_loop joins the worker, closes the socket and clears the list.
RtlClose ==
    /\ rtl.pc = "close"
    /\ rtl' = [rtl EXCEPT !.pc = "clear", !.socket = FALSE]
    /\ UNCHANGED <<conv, conn, reader, breaks, queue>>

RtlClear_Never ==
    /\ rtl.pc = "clear"
    /\ rtl' = [rtl EXCEPT !.pc = "accept"]
    /\ UNCHANGED <<conv, conn, reader, breaks, queue>>

RtlClear ==
    /\ rtl.pc = "clear"
    /\ rtl' = [rtl EXCEPT !.pc = "accept"]
    /\ queue' = [queue EXCEPT !.list = <<>>, !.count = 0]
    /\ UNCHANGED <<conv, conn, reader, breaks>>

\* The rtl_tcp client goes.
RtlLeave ==
    /\ rtl.up
    /\ rtl' = [rtl EXCEPT !.up = FALSE]
    /\ UNCHANGED <<conv, conn, reader, breaks, queue>>

-----------------------------------------------------------------------------
LinkInit ==
    /\ conv = [pc |-> "data", next |-> 1, for |-> 0]
    /\ conn = [r \in Readers |-> NoConnection]
    /\ reader = [r \in Readers |-> NothingRead]
    /\ breaks = 0
    /\ rtl = [pc |-> "accept", conn |-> 0, socket |-> FALSE, up |-> FALSE, got |-> <<>>]
    /\ queue = [list |-> <<>>, count |-> 0, sending |-> <<>>]

Conversion == BroadcastData \/ RtlCheck \/ RtlAdd
Read(r)    == Connect(r) \/ Receive(r) \/ Disconnect(r) \/ Take(r) \/ Wait(r)
Serve      == RtlAccept \/ RtlGreet \/ RtlClose \/ RtlClear
Worker     == RtlTake \/ RtlSend \/ RtlFail

LinkNext ==
    \/ Conversion \/ Serve \/ Worker \/ RtlLeave
    \/ \E r \in Readers : Accept(r) \/ Read(r) \/ Break(r)

LinkSpec == LinkInit /\ [][LinkNext]_linkVars

\* The threads run on; the network and the clients may do as they like.
LinkLiveSpec ==
    /\ LinkSpec
    /\ WF_linkVars(Conversion) /\ WF_linkVars(Serve) /\ WF_linkVars(Worker)
    /\ \A r \in Readers : WF_linkVars(Accept(r)) /\ WF_linkVars(Read(r))

-----------------------------------------------------------------------------
Words == [p : 1 .. MaxPackets, i : Nat, claim : {0} \cup Lengths]

LinkTypeOK ==
    /\ conv \in [pc : {"data", "check", "add"}, next : 1 .. MaxPackets + 1,
                 for : 0 .. MaxRtl]
    /\ conn \in [Readers -> [server : {"none", "backlog", "active", "inactive", "closed"},
                             wire : Seq(Words)]]
    /\ \A r \in Readers : Len(conn[r].wire) <= SocketRoom
    /\ reader \in [Readers -> [pc : {"connect", "receive", "parse"}, buffer : Seq(Words),
                               last : Seq(Words), same : BOOLEAN]]
    /\ breaks \in 0 .. MaxBreaks
    /\ rtl.pc \in {"accept", "greet", "work", "close", "clear"}
    /\ rtl.conn \in 0 .. MaxRtl
    /\ Len(queue.list) <= RtlMax

\* The packet that words w are, 0 if they are not one whole packet.
PacketOf(w) ==
    IF \E p \in 1 .. MaxPackets, n \in Lengths : w = Packet(p, n)
    THEN w[1].p ELSE 0

\* Every reader gets a PacketStream, whatever is short-sent, broken or read in
\* pieces: packets are never spliced over a reconnection.
Observed == CHOOSE r \in Readers : TRUE
Stream == INSTANCE PacketStream
              WITH Last <- MaxPackets, last <- PacketOf(reader[Observed].last),
                   same <- reader[Observed].same
ImplementsPacketStream == Stream!Spec

\* A reader whose connection the server has closed, because it was too slow,
\* reads what is left, notices, and is served again.
ReadersComeBack == \A r \in Readers :
    conn[r].server = "closed" ~> conn[r].server = "active"

\* buffer_count is the length of the list whenever the list is at rest.
RtlCounted == queue.count = Len(queue.list)

\* The rtl_tcp client gets the greeting first and then blocks in order, each
\* from its first part to its last, over overflows of the list.
RtlInOrder ==
    [][rtl'.got # rtl.got /\ rtl'.got # <<>> =>
          \/ rtl.got = <<>> /\ rtl'.got = <<"RTL0">>
          \/ Len(rtl'.got) = 3 /\
             \/ rtl'.got[2] = 1 /\ (Len(rtl.got) = 3 => rtl.got[2] = 2 /\ rtl.got[1] < rtl'.got[1])
             \/ rtl'.got[2] = 2 /\ rtl'.got[1] = rtl.got[1] /\ rtl.got[2] = 1]_linkVars

\* At most one block of an earlier connection reaches a client: the one that
\* was being converted when the list was cleared.
Stale == {i \in DOMAIN queue.list : queue.list[i].for < rtl.conn}
RtlFresh ==
    rtl.pc \in {"greet", "work"} =>
        Cardinality(Stale) + (IF conv.pc = "add" /\ conv.for < rtl.conn THEN 1 ELSE 0)
        + (IF queue.sending # <<>> /\ queue.sending[1].for < rtl.conn THEN 1 ELSE 0) <= 1

\* The servers' lists and connections are sound (TcpDataServer, RtlTcpServer).
LinkSound ==
    /\ LinkTypeOK
    /\ RtlCounted
    /\ RtlFresh
=============================================================================
