------------------------------ MODULE CoMutex ------------------------------
(***************************************************************************)
(* CoMutex (src/mutex.cc): a lock for fibers made of two spin locks, the   *)
(* id of the owner and a queue of suspended fibers.  One step is one       *)
(* access to mutex_, guard_ or fiber_id_; what the holder of guard_ does   *)
(* to waitQueue_ is one step with the acquisition, since nobody else can   *)
(* see it.                                                                 *)
(*                                                                         *)
(* Of the scheduler only its promise is used: a fiber that was Submitted   *)
(* is resumed once, after it has left its thread.                          *)
(***************************************************************************)
EXTENDS Integers, Sequences, FiniteSets

CONSTANTS
    Fibers,         \* Fiber::id_ of the fibers that use the lock
    InitialIds,     \* what the uninitialised fiber_id_ may contain
    MaxNesting      \* how often a fiber may lock the mutex it already owns

\* Fiber::GetFiberId() outside any fiber, and the "no owner" value of unlock().
NoFiber == 0

ASSUME CoMutexAssumption ==
    /\ Fibers \subseteq Nat \ {NoFiber}
    /\ InitialIds \subseteq Nat /\ InitialIds # {}
    /\ MaxNesting \in Nat \ {0}

VARIABLES
    mutex_,     \* the spin lock the owner holds
    guard_,     \* the fiber that holds the spin lock of the queue, or NoFiber
    fiber_id_,  \* id of the owner
    waitQueue_,
    ready,      \* fibers Submitted to the scheduler and not resumed yet
    pc,         \* where each fiber is in lock() / unlock()
    hand,       \* unlock()'s local fiber
    depth       \* ScopedLocks the fiber has constructed on this mutex

vars == <<mutex_, guard_, fiber_id_, waitQueue_, ready, pc, hand, depth>>

Init ==
    /\ mutex_ = FALSE
    /\ guard_ = NoFiber
    /\ fiber_id_ \in InitialIds
    /\ waitQueue_ = <<>>
    /\ ready = {}
    /\ pc = [f \in Fibers |-> "out"]
    /\ hand = [f \in Fibers |-> NoFiber]
    /\ depth = [f \in Fibers |-> 0]

Goto(f, from, to) == pc[f] = from /\ pc' = [pc EXCEPT ![f] = to]

-----------------------------------------------------------------------------
\* lock()

\* A ScopedLock is constructed.
CallLock(f) ==
    /\ pc[f] \in {"out", "cs"} /\ depth[f] < MaxNesting
    /\ pc' = [pc EXCEPT ![f] = "owner?"]
    /\ UNCHANGED <<mutex_, guard_, fiber_id_, waitQueue_, ready, hand, depth>>

\* The owner may lock again: lock() returns at once.
CheckOwner(f) ==
    /\ \/ /\ fiber_id_ = f
          /\ Goto(f, "owner?", "cs")
          /\ depth' = [depth EXCEPT ![f] = @ + 1]
       \/ /\ fiber_id_ # f
          /\ Goto(f, "owner?", "try")
          /\ UNCHANGED depth
    /\ UNCHANGED <<mutex_, guard_, fiber_id_, waitQueue_, ready, hand>>

\* Mutant: the lock word is tested and never set.
TryLockUnset(f, from, otherwise) ==
    /\ Goto(f, from, IF mutex_ THEN otherwise ELSE "own")
    /\ UNCHANGED <<mutex_, guard_, fiber_id_, waitQueue_, ready, hand, depth>>

\* trylock(), from one of its two calls.
TryLock(f, from, otherwise) ==
    /\ \/ ~mutex_ /\ Goto(f, from, "own")
       \/ mutex_ /\ Goto(f, from, otherwise)
    /\ mutex_' = TRUE
    /\ UNCHANGED <<guard_, fiber_id_, waitQueue_, ready, hand, depth>>

SetOwner(f) ==
    /\ Goto(f, "own", "cs")
    /\ fiber_id_' = f
    /\ depth' = [depth EXCEPT ![f] = @ + 1]
    /\ UNCHANGED <<mutex_, guard_, waitQueue_, ready, hand>>

\* Under guard_, the fiber queues itself.
Enqueue(f) ==
    /\ guard_ = NoFiber
    /\ Goto(f, "push", "yield")
    /\ waitQueue_' = Append(waitQueue_, f)
    /\ UNCHANGED <<mutex_, guard_, fiber_id_, ready, hand, depth>>

Suspend(f) ==
    /\ Goto(f, "yield", "hold")
    /\ UNCHANGED <<mutex_, guard_, fiber_id_, waitQueue_, ready, hand, depth>>

\* Mutant: a woken fiber takes the lock for its own.
ResumedAsOwner(f) ==
    /\ f \in ready
    /\ Goto(f, "hold", "own")
    /\ ready' = ready \ {f}
    /\ UNCHANGED <<mutex_, guard_, fiber_id_, waitQueue_, hand, depth>>

\* The scheduler resumes a Submitted fiber; lock() tries again.
Resumed(f) ==
    /\ f \in ready
    /\ Goto(f, "hold", "try")
    /\ ready' = ready \ {f}
    /\ UNCHANGED <<mutex_, guard_, fiber_id_, waitQueue_, hand, depth>>

-----------------------------------------------------------------------------
\* unlock()

\* Mutant: front() without pop().
FrontOnly(f) ==
    /\ hand' = [hand EXCEPT ![f] = IF waitQueue_ = <<>> THEN NoFiber ELSE Head(waitQueue_)]
    /\ UNCHANGED waitQueue_

\* Mutant: the fiber that queued last is taken.
PopBack(f) ==
    LET n == Len(waitQueue_) IN
    IF n = 0 THEN UNCHANGED <<waitQueue_, hand>>
    ELSE /\ hand' = [hand EXCEPT ![f] = waitQueue_[n]]
         /\ waitQueue_' = SubSeq(waitQueue_, 1, n - 1)

PopFront(f) ==
    IF waitQueue_ = <<>> THEN UNCHANGED <<waitQueue_, hand>>
    ELSE /\ hand' = [hand EXCEPT ![f] = Head(waitQueue_)]
         /\ waitQueue_' = Tail(waitQueue_)

\* Mutant: the owner's id is not cleared.
UnlockKeepsId(f) ==
    /\ guard_ = NoFiber
    /\ Goto(f, "cs", "free")
    /\ guard_' = f
    /\ PopFront(f)
    /\ UNCHANGED <<mutex_, fiber_id_, ready, depth>>

\* Takes guard_, clears the owner and takes the head off the queue.
Unlock(f) ==
    /\ guard_ = NoFiber
    /\ Goto(f, "cs", "free")
    /\ guard_' = f
    /\ fiber_id_' = NoFiber
    /\ PopFront(f)
    /\ UNCHANGED <<mutex_, ready, depth>>

\* Releases mutex_, then guard_.
Free(f) ==
    /\ Goto(f, "free", "wake")
    /\ mutex_' = FALSE
    /\ guard_' = NoFiber
    /\ UNCHANGED <<fiber_id_, waitQueue_, ready, hand, depth>>

\* Mutant: Submit without the null check.
SubmitHeadUnchecked(f) ==
    /\ Goto(f, "wake", IF depth[f] = 1 THEN "out" ELSE "cs")
    /\ ready' = ready \cup {hand[f]}
    /\ hand' = [hand EXCEPT ![f] = NoFiber]
    /\ depth' = [depth EXCEPT ![f] = @ - 1]
    /\ UNCHANGED <<mutex_, guard_, fiber_id_, waitQueue_>>

\* Submits the fiber it took, if any, and returns to the caller, which may be
\* inside an outer ScopedLock.
SubmitHead(f) ==
    /\ Goto(f, "wake", IF depth[f] = 1 THEN "out" ELSE "cs")
    /\ ready' = ready \cup ({hand[f]} \ {NoFiber})
    /\ hand' = [hand EXCEPT ![f] = NoFiber]
    /\ depth' = [depth EXCEPT ![f] = @ - 1]
    /\ UNCHANGED <<mutex_, guard_, fiber_id_, waitQueue_>>

-----------------------------------------------------------------------------
\* What a fiber does once it has called lock(), up to its return from unlock().
Step(f) ==
    \/ CheckOwner(f)
    \/ TryLock(f, "try", "retry") \/ TryLock(f, "retry", "push")
    \/ SetOwner(f) \/ Enqueue(f) \/ Suspend(f) \/ Resumed(f)
    \/ Unlock(f) \/ Free(f) \/ SubmitHead(f)

Next == \E f \in Fibers : CallLock(f) \/ Step(f)

Spec == Init /\ [][Next]_vars

\* A fiber inside lock(), the critical section or unlock() keeps running, and a
\* Submitted one is resumed; nobody has to come back to lock the mutex again.
FairSpec == Spec /\ \A f \in Fibers : WF_vars(Step(f))

\* The use the lock is made for: no fiber locks a mutex it owns, and the memory of
\* fiber_id_ does not happen to hold the id of a fiber that uses the mutex.
Disciplined == MaxNesting = 1 /\ InitialIds \cap Fibers = {}

-----------------------------------------------------------------------------
\* Properties

PcValues == {"out", "owner?", "try", "retry", "own", "push", "yield", "hold", "cs",
             "free", "wake"}

\* Every variable keeps its type; in particular unlock() Submits fibers of the queue
\* only, never the null pointer of an empty one (mutex.cc:29-38).
TypeOK ==
    /\ mutex_ \in BOOLEAN
    /\ guard_ \in Fibers \cup {NoFiber}
    /\ fiber_id_ \in Nat
    /\ waitQueue_ \in Seq(Fibers)
    /\ ready \subseteq Fibers
    /\ pc \in [Fibers -> PcValues]
    /\ hand \in [Fibers -> Fibers \cup {NoFiber}]
    /\ depth \in [Fibers -> 0 .. MaxNesting]

\* The fiber is between a successful trylock() and mutex_.unlock().
Holds(f) == pc[f] \in {"own", "cs", "free"}

\* Two fibers are never between lock() and unlock() at once: the trylock of one
\* excludes the critical section and the release of the other (mutex.cc:8-39).
MutualExclusion ==
    \A f, g \in Fibers : Holds(f) /\ Holds(g) => f = g

\* fiber_id_ tells the truth: it is the id of the fiber in the critical section, and
\* no fiber that does not own the lock finds its own id there and walks in through
\* the re-entrancy test (mutex.cc:9); needs fiber_id_ = 0 before mutex_.unlock().
OwnerIdAccurate ==
    \A f \in Fibers : /\ pc[f] = "cs" => fiber_id_ = f
                      /\ fiber_id_ = f => pc[f] = "cs"

\* A fiber that queued itself is known in exactly one place, the queue, an unlocker's
\* hand or the scheduler, until it is resumed, and no other fiber is in any of them:
\* no fiber is lost and none is Submitted twice (mutex.cc:18-22, 27-38).
WaiterKnownOnce ==
    \A f \in Fibers :
        Cardinality({i \in 1 .. Len(waitQueue_) : waitQueue_[i] = f})
      + Cardinality({g \in Fibers : hand[g] = f})
      + Cardinality(ready \cap {f})
      = IF pc[f] \in {"yield", "hold"} THEN 1 ELSE 0

InQueue(f) == \E i \in 1 .. Len(waitQueue_) : waitQueue_[i] = f

\* A fiber that is queued while the lock is held is taken off the queue: every
\* unlock() passes the lock on, so the wake-ups chain along the queue.
QueuedWhileHeldIsWoken ==
    \A f \in Fibers : (InQueue(f) /\ mutex_) ~> ~InQueue(f)

\* A fiber that is queued is taken off the queue once the lock is released: README.md
\* line 92 says of the release that the head of the queue is scheduled.
QueuedIsWoken ==
    \A f \in Fibers : (InQueue(f) /\ ~mutex_) ~> ~InQueue(f)

\* The owner of the lock: the fiber whose trylock() succeeded and that has not
\* released mutex_ yet.
Owner == IF \E f \in Fibers : Holds(f)
         THEN CHOOSE f \in Fibers : Holds(f) ELSE NoFiber

L == INSTANCE CoLock WITH owner <- Owner

\* CoMutex implements CoLock: every step of lock() and unlock() is an Acquire by a
\* fiber that found the lock free, a Release by its owner, or invisible.
ImplementsCoLock == L!Spec
=============================================================================
