---------------------------- MODULE PacketStream ----------------------------
(***************************************************************************)
(* What the data link promises a reader: whole packets in the order they   *)
(* were broadcast, with nothing missing between two packets of the same    *)
(* connection.                                                             *)
(***************************************************************************)
EXTENDS Naturals

CONSTANT Last      \* last packet broadcast

VARIABLES last,    \* the packet received last, 0 before the first
          same     \* it came over the present connection

Init == last = 0 /\ same = FALSE

Receive ==
    /\ last' \in 1 .. Last
    /\ IF same THEN last' = last + 1 ELSE last' > last
    /\ same' = TRUE

Break == same' = FALSE /\ UNCHANGED last

Next == Receive \/ Break

Spec == Init /\ [][Next]_<<last, same>>
=============================================================================
