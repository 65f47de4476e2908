---------------------------- MODULE BoundedQueue ----------------------------
(***************************************************************************)
(* What a channel promises: a first-in first-out queue of bounded length   *)
(* that can be closed once; closing drops what is left, and nothing enters *)
(* or leaves a closed queue.                                               *)
(***************************************************************************)
EXTENDS Naturals, Sequences

CONSTANTS Messages, Capacity

VARIABLES queue, closed

Init == queue = <<>> /\ closed = FALSE

Push(m) ==
    /\ ~closed /\ Len(queue) < Capacity
    /\ queue' = Append(queue, m)
    /\ UNCHANGED closed

Pop ==
    /\ ~closed /\ queue # <<>>
    /\ queue' = Tail(queue)
    /\ UNCHANGED closed

Close == ~closed /\ closed' = TRUE /\ queue' = <<>>

Next == (\E m \in Messages : Push(m)) \/ Pop \/ Close

Spec == Init /\ [][Next]_<<queue, closed>>
=============================================================================
