----------------------------- MODULE MCSession -----------------------------
(* The instances of the runs of module Session: three fibers share a session,*)
(* with messages with and without content, ids of one and two bytes, and a   *)
(* content that looks like the start of a header; and the registry, which    *)
(* answers the heartbeats of an RPCServer.                                   *)
EXTENDS Session

CONSTANTS f1, f2, f3

MCOutbox ==
    [f \in {f1, f2, f3} |->
        CASE f = f1 -> <<[type |-> 3, id |-> 1, content |-> <<MAGIC, VERSION>>],
                         [type |-> 0, id |-> 0, content |-> <<>>]>>
          [] f = f2 -> <<[type |-> 4, id |-> 9, content |-> <<7, 0, 7>>]>>
          [] f = f3 -> <<[type |-> 1, id |-> 56, content |-> <<2>>]>>]

MCHeartBeats == [f \in {f1} |-> <<[type |-> 0, id |-> 0, content |-> <<>>]>>]
=============================================================================
