----------------------------- MODULE ReplyFifo ------------------------------
(***************************************************************************)
(* What the subcommand reply queue promises, without its ring buffer: a    *)
(* bounded queue. A reply joins at the end or is dropped when the queue is *)
(* full, only the head leaves, a failed send leaves the queue as it is,    *)
(* and the end of a connection empties it.                                 *)
(***************************************************************************)
EXTENDS Naturals, Sequences

CONSTANT Capacity

VARIABLE replies

Init == replies = <<>>

\* Any reply may join, but only at the end.
Join ==
    /\ Len(replies) < Capacity
    /\ Len(replies') = Len(replies) + 1
    /\ SubSeq(replies', 1, Len(replies)) = replies

Leave == replies # <<>> /\ replies' = Tail(replies)

Clear == replies' = <<>>

Next == Join \/ Leave \/ Clear

Spec == Init /\ [][Next]_replies
=============================================================================
