------------------------------- MODULE CoLock -------------------------------
(***************************************************************************)
(* What a mutual-exclusion lock for fibers promises: it has at most one    *)
(* owner, it is taken when it is free and only its owner gives it back.    *)
(***************************************************************************)
CONSTANTS Fibers, NoFiber

VARIABLE owner

Init == owner = NoFiber

Acquire(f) == owner = NoFiber /\ owner' = f

Release(f) == owner = f /\ owner' = NoFiber

Next == \E f \in Fibers : Acquire(f) \/ Release(f)

Spec == Init /\ [][Next]_owner
=============================================================================
