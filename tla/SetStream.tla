------------------------------ MODULE SetStream ------------------------------
(***************************************************************************)
(* What the sample path promises to those it sends sets to: a stream of    *)
(* sets, one block per active channel, that never goes back in time on any *)
(* channel and may skip sets.  While the stream is synced the blocks of a  *)
(* set were captured together.  Sync is given up, never lost unnoticed,    *)
(* and is back after a restart.                                            *)
(***************************************************************************)
EXTENDS Naturals

CONSTANTS Channels,   \* largest number of channels
          Last        \* last block of a channel

VARIABLES out,        \* the last set sent, <<>> if none since the last start
          synced      \* the channels are aligned

Sets == UNION {[1..n -> 1..Last] : n \in 1..Channels}
Together(set) == \A i, j \in DOMAIN set : set[i] = set[j]

Later(new, old) ==
    old # <<>> => DOMAIN new = DOMAIN old /\ \A i \in DOMAIN old : old[i] < new[i]

Init == out = <<>> /\ synced = TRUE

Send ==
    /\ out' \in Sets
    /\ Later(out', out)
    /\ synced => Together(out')
    /\ UNCHANGED synced

LoseSync == synced' = FALSE /\ UNCHANGED out

Restart == out' = <<>> /\ synced' = TRUE

Next == Send \/ LoseSync \/ Restart

Spec == Init /\ [][Next]_<<out, synced>>
=============================================================================
