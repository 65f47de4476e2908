--------------------------- MODULE CoMutexProofs ---------------------------
(***************************************************************************)
(* Machine-checked proofs about CoMutex, for any set of fibers: type       *)
(* correctness and that no waiter is lost or woken twice, with any         *)
(* nesting; and, for clients that do not lock a mutex they own, mutual     *)
(* exclusion, the accuracy of fiber_id_ and the implementation of CoLock.  *)
(***************************************************************************)
EXTENDS CoMutex, FiniteSetTheorems, TLAPS

\* What TypeOK needs to be inductive: unlock() only runs inside a ScopedLock, and
\* lock() only where one more is allowed.
DepthInv ==
    \A f \in Fibers :
        /\ pc[f] \in {"cs", "free", "wake"} => depth[f] >= 1
        /\ pc[f] \in {"owner?", "try", "retry", "own", "push", "yield", "hold"} =>
              depth[f] < MaxNesting

TypeInv == TypeOK /\ DepthInv

\* The initial state is well typed.
LEMMA TypeInit == Init => TypeInv
<1> SUFFICES ASSUME Init PROVE TypeInv
  OBVIOUS
<1> USE CoMutexAssumption DEF Init, NoFiber
<1>1. mutex_ \in BOOLEAN /\ guard_ \in Fibers \cup {NoFiber} /\ fiber_id_ \in Nat
  OBVIOUS
<1>2. waitQueue_ \in Seq(Fibers) /\ ready \subseteq Fibers
  OBVIOUS
<1>3. pc \in [Fibers -> PcValues]
  BY DEF PcValues
<1>4. hand \in [Fibers -> Fibers \cup {NoFiber}] /\ depth \in [Fibers -> 0 .. MaxNesting]
  OBVIOUS
<1>5. DepthInv
  BY DEF DepthInv
<1> QED
  BY <1>1, <1>2, <1>3, <1>4, <1>5 DEF TypeInv, TypeOK

\* PopFront keeps the queue and the hands well typed.
LEMMA PopFrontType ==
    ASSUME TypeOK, NEW f \in Fibers, PopFront(f)
    PROVE  /\ waitQueue_' \in Seq(Fibers)
           /\ hand' \in [Fibers -> Fibers \cup {NoFiber}]
<1>1. CASE waitQueue_ = <<>>
  BY <1>1 DEF TypeOK, PopFront
<1>2. CASE waitQueue_ # <<>>
  <2>1. Head(waitQueue_) \in Fibers /\ Tail(waitQueue_) \in Seq(Fibers)
    BY <1>2 DEF TypeOK
  <2> QED
    BY <1>2, <2>1 DEF TypeOK, PopFront
<1> QED
  BY <1>1, <1>2

\* Every step keeps the state well typed, whatever the nesting.
LEMMA TypeStep == TypeInv /\ [Next]_vars => TypeInv'
<1> SUFFICES ASSUME TypeInv, [Next]_vars PROVE TypeInv'
  OBVIOUS
<1> USE CoMutexAssumption DEF TypeInv, TypeOK, DepthInv, PcValues, NoFiber, Goto
<1>1. ASSUME NEW f \in Fibers, CallLock(f) PROVE TypeInv'
  BY <1>1 DEF CallLock
<1>2. ASSUME NEW f \in Fibers, CheckOwner(f) PROVE TypeInv'
  BY <1>2 DEF CheckOwner
<1>3. ASSUME NEW f \in Fibers, TryLock(f, "try", "retry") PROVE TypeInv'
  BY <1>3 DEF TryLock
<1>4. ASSUME NEW f \in Fibers, TryLock(f, "retry", "push") PROVE TypeInv'
  BY <1>4 DEF TryLock
<1>5. ASSUME NEW f \in Fibers, SetOwner(f) PROVE TypeInv'
  BY <1>5 DEF SetOwner
<1>6. ASSUME NEW f \in Fibers, Enqueue(f) PROVE TypeInv'
  BY <1>6 DEF Enqueue
<1>7. ASSUME NEW f \in Fibers, Suspend(f) PROVE TypeInv'
  BY <1>7 DEF Suspend
<1>8. ASSUME NEW f \in Fibers, Resumed(f) PROVE TypeInv'
  BY <1>8 DEF Resumed
<1>9. ASSUME NEW f \in Fibers, Unlock(f) PROVE TypeInv'
  <2>1. waitQueue_' \in Seq(Fibers) /\ hand' \in [Fibers -> Fibers \cup {NoFiber}]
    BY <1>9, PopFrontType DEF Unlock
  <2>2. guard_' \in Fibers \cup {NoFiber} /\ fiber_id_' \in Nat
    BY <1>9 DEF Unlock
  <2>3. pc' = [pc EXCEPT ![f] = "free"] /\ pc[f] = "cs" /\ UNCHANGED <<mutex_, ready, depth>>
    BY <1>9 DEF Unlock
  <2>4. DepthInv'
    BY <2>3
  <2> QED
    BY <2>1, <2>2, <2>3, <2>4
<1>10. ASSUME NEW f \in Fibers, Free(f) PROVE TypeInv'
  BY <1>10 DEF Free
<1>11. ASSUME NEW f \in Fibers, SubmitHead(f) PROVE TypeInv'
  <2>1. ready' \subseteq Fibers /\ hand' \in [Fibers -> Fibers \cup {NoFiber}]
    BY <1>11 DEF SubmitHead
  <2>2. /\ pc[f] = "wake" /\ depth' = [depth EXCEPT ![f] = depth[f] - 1]
        /\ pc' = [pc EXCEPT ![f] = IF depth[f] = 1 THEN "out" ELSE "cs"]
        /\ UNCHANGED <<mutex_, guard_, fiber_id_, waitQueue_>>
    BY <1>11 DEF SubmitHead
  <2>3. depth[f] \in 1 .. MaxNesting
    BY <2>2
  <2>4. depth' \in [Fibers -> 0 .. MaxNesting] /\ pc' \in [Fibers -> PcValues]
    BY <2>2, <2>3
  <2>5. DepthInv'
    BY <2>2, <2>3
  <2> QED
    BY <2>1, <2>2, <2>4, <2>5
<1>12. CASE UNCHANGED vars
  BY <1>12 DEF vars
<1> QED
  BY <1>1, <1>2, <1>3, <1>4, <1>5, <1>6, <1>7, <1>8, <1>9, <1>10, <1>11, <1>12
     DEF Next, Step

\* Type correctness of CoMutex for any set of fibers, any content of the
\* uninitialised fiber_id_ and any nesting of ScopedLocks.
THEOREM TypeCorrect == Spec => []TypeOK
<1>1. TypeInv => TypeOK
  BY DEF TypeInv
<1> QED
  BY <1>1, TypeInit, TypeStep, PTL DEF Spec

-----------------------------------------------------------------------------
\* The lock word is set exactly while some fiber is between its trylock() and its
\* mutex_.unlock(); without it nothing links the test of a second fiber to the
\* progress of the first.
LockInv ==
    /\ mutex_ <=> \E f \in Fibers : Holds(f)
    /\ MutualExclusion
    /\ OwnerIdAccurate

SafeInv == TypeInv /\ LockInv

\* With the id left by the allocator foreign to every fiber, the lock starts free.
LEMMA LockInit == Disciplined /\ Init => LockInv
BY CoMutexAssumption
   DEF Disciplined, Init, LockInv, MutualExclusion, OwnerIdAccurate, Holds, NoFiber

\* Every step of disciplined clients keeps the lock sound.
LEMMA LockStep == Disciplined /\ SafeInv /\ [Next]_vars => LockInv'
<1> SUFFICES ASSUME Disciplined, SafeInv, [Next]_vars PROVE LockInv'
  OBVIOUS
<1> USE CoMutexAssumption
        DEF SafeInv, TypeInv, TypeOK, DepthInv, LockInv, MutualExclusion,
            OwnerIdAccurate, Holds, NoFiber, Goto
<1>1. ASSUME NEW f \in Fibers, CallLock(f) PROVE LockInv'
  <2>1. pc[f] = "out"
    BY <1>1 DEF CallLock, Disciplined
  <2> QED
    BY <1>1, <2>1 DEF CallLock
<1>2. ASSUME NEW f \in Fibers, CheckOwner(f) PROVE LockInv'
  <2>1. fiber_id_ # f
    BY <1>2 DEF CheckOwner
  <2> QED
    BY <1>2, <2>1 DEF CheckOwner
<1>3. ASSUME NEW f \in Fibers, NEW from \in {"try", "retry"},
             NEW otherwise \in {"retry", "push"}, TryLock(f, from, otherwise)
      PROVE LockInv'
  <2>1. CASE mutex_
    BY <1>3, <2>1 DEF TryLock
  <2>2. CASE ~mutex_
    BY <1>3, <2>2 DEF TryLock
  <2> QED
    BY <2>1, <2>2
<1>4. ASSUME NEW f \in Fibers, SetOwner(f) PROVE LockInv'
  BY <1>4 DEF SetOwner
<1>5. ASSUME NEW f \in Fibers, Enqueue(f) PROVE LockInv'
  BY <1>5 DEF Enqueue
<1>6. ASSUME NEW f \in Fibers, Suspend(f) PROVE LockInv'
  BY <1>6 DEF Suspend
<1>7. ASSUME NEW f \in Fibers, Resumed(f) PROVE LockInv'
  BY <1>7 DEF Resumed
<1>8. ASSUME NEW f \in Fibers, Unlock(f) PROVE LockInv'
  BY <1>8 DEF Unlock
<1>9. ASSUME NEW f \in Fibers, Free(f) PROVE LockInv'
  BY <1>9 DEF Free
<1>10. ASSUME NEW f \in Fibers, SubmitHead(f) PROVE LockInv'
  <2>1. depth[f] = 1
    BY <1>10 DEF SubmitHead, Disciplined
  <2> QED
    BY <1>10, <2>1 DEF SubmitHead
<1>11. CASE UNCHANGED vars
  BY <1>11 DEF vars
<1> QED
  BY <1>1, <1>2, <1>3, <1>4, <1>5, <1>6, <1>7, <1>8, <1>9, <1>10, <1>11
     DEF Next, Step

\* The inductive invariant holds in every reachable state.
THEOREM SafeInvHolds == Disciplined => (Spec => []SafeInv)
<1> SUFFICES ASSUME Disciplined PROVE Spec => []SafeInv
  OBVIOUS
<1>1. Init => SafeInv
  BY TypeInit, LockInit DEF SafeInv
<1>2. SafeInv /\ [Next]_vars => SafeInv'
  BY TypeStep, LockStep DEF SafeInv
<1> QED
  BY <1>1, <1>2, PTL DEF Spec

\* Mutual exclusion, for any number of fibers, under disciplined use.
THEOREM MutualExclusionHolds == Disciplined => (Spec => []MutualExclusion)
<1>1. SafeInv => MutualExclusion
  BY DEF SafeInv, LockInv
<1> QED
  BY <1>1, SafeInvHolds, PTL

\* The re-entrancy test of lock() never lets a fiber in that does not own the lock.
THEOREM OwnerIdAccurateHolds == Disciplined => (Spec => []OwnerIdAccurate)
<1>1. SafeInv => OwnerIdAccurate
  BY DEF SafeInv, LockInv
<1> QED
  BY <1>1, SafeInvHolds, PTL

-----------------------------------------------------------------------------
\* While the lock is held by f, Owner is f.
LEMMA OwnerIsHolder ==
    ASSUME MutualExclusion, NEW f \in Fibers, Holds(f)
    PROVE  Owner = f
<1>1. \A g \in Fibers : Holds(g) => g = f
  BY DEF MutualExclusion
<1> QED
  BY <1>1 DEF Owner

\* While nobody holds the lock, it has no owner.
LEMMA NoHolderNoOwner ==
    ASSUME \A f \in Fibers : ~Holds(f)
    PROVE  Owner = NoFiber
BY DEF Owner

\* A step that changes no fiber's hold on the lock leaves Owner alone.
LEMMA SameHoldsSameOwner ==
    ASSUME MutualExclusion, MutualExclusion',
           \A f \in Fibers : Holds(f)' = Holds(f)
    PROVE  Owner' = Owner
<1>1. CASE \E f \in Fibers : Holds(f)
  <2>1. PICK f \in Fibers : Holds(f)
    BY <1>1
  <2>2. Owner = f
    BY <2>1, OwnerIsHolder
  <2>3. Holds(f)' /\ \A g \in Fibers : Holds(g)' => g = f
    BY <2>1 DEF MutualExclusion
  <2>4. Owner' = f
    BY <2>3 DEF Owner
  <2> QED
    BY <2>2, <2>4
<1>2. CASE \A f \in Fibers : ~Holds(f)
  BY <1>2 DEF Owner
<1> QED
  BY <1>1, <1>2

\* A step that takes or gives back the lock is the corresponding step of CoLock, and
\* every other step stutters.
LEMMA StepImplements ==
    Disciplined /\ SafeInv /\ SafeInv' /\ [Next]_vars => [L!Next]_Owner
<1> SUFFICES ASSUME Disciplined, SafeInv, SafeInv', [Next]_vars PROVE [L!Next]_Owner
  OBVIOUS
<1> USE DEF Goto
<1>a. MutualExclusion /\ MutualExclusion' /\ (mutex_ <=> \E f \in Fibers : Holds(f))
      /\ (mutex_' <=> \E f \in Fibers : Holds(f)') /\ pc \in [Fibers -> PcValues]
  BY DEF SafeInv, LockInv, TypeInv, TypeOK
<1>b. ASSUME \A f \in Fibers : Holds(f)' = Holds(f) PROVE [L!Next]_Owner
  BY <1>a, <1>b, SameHoldsSameOwner
<1>1. ASSUME NEW f \in Fibers, CallLock(f) PROVE [L!Next]_Owner
  <2>1. pc[f] = "out"
    BY <1>1 DEF CallLock, Disciplined, SafeInv, TypeInv, DepthInv, TypeOK
  <2> QED
    BY <1>1, <2>1, <1>a, <1>b DEF CallLock, Holds
<1>2. ASSUME NEW f \in Fibers, CheckOwner(f) PROVE [L!Next]_Owner
  <2>1. fiber_id_ # f
    BY <1>2 DEF CheckOwner, SafeInv, LockInv, OwnerIdAccurate
  <2> QED
    BY <1>2, <2>1, <1>a, <1>b DEF CheckOwner, Holds
<1>3. ASSUME NEW f \in Fibers, NEW from \in {"try", "retry"},
             NEW otherwise \in {"retry", "push"}, TryLock(f, from, otherwise)
      PROVE [L!Next]_Owner
  <2>1. CASE mutex_
    BY <1>3, <2>1, <1>a, <1>b DEF TryLock, Holds
  <2>2. CASE ~mutex_
    <3>1. Owner = NoFiber
      BY <2>2, <1>a, NoHolderNoOwner
    <3>2. Holds(f)' /\ \A g \in Fibers : Holds(g)' => g = f
      BY <1>3, <2>2, <1>a DEF TryLock, Holds, MutualExclusion
    <3>3. Owner' = f
      BY <3>2 DEF Owner
    <3> QED
      BY <3>1, <3>3 DEF L!Next, L!Acquire
  <2> QED
    BY <2>1, <2>2
<1>4. ASSUME NEW f \in Fibers, SetOwner(f) PROVE [L!Next]_Owner
  BY <1>4, <1>a, <1>b DEF SetOwner, Holds
<1>5. ASSUME NEW f \in Fibers, Enqueue(f) PROVE [L!Next]_Owner
  BY <1>5, <1>a, <1>b DEF Enqueue, Holds
<1>6. ASSUME NEW f \in Fibers, Suspend(f) PROVE [L!Next]_Owner
  BY <1>6, <1>a, <1>b DEF Suspend, Holds
<1>7. ASSUME NEW f \in Fibers, Resumed(f) PROVE [L!Next]_Owner
  BY <1>7, <1>a, <1>b DEF Resumed, Holds
<1>8. ASSUME NEW f \in Fibers, Unlock(f) PROVE [L!Next]_Owner
  BY <1>8, <1>a, <1>b DEF Unlock, Holds
<1>9. ASSUME NEW f \in Fibers, Free(f) PROVE [L!Next]_Owner
  <2>1. Holds(f) /\ Owner = f
    BY <1>9, <1>a, OwnerIsHolder DEF Free, Holds
  <2>2. \A g \in Fibers : ~Holds(g)'
    BY <1>9, <1>a DEF Free
  <2>3. Owner' = NoFiber
    BY <2>2 DEF Owner
  <2> QED
    BY <2>1, <2>3 DEF L!Next, L!Release
<1>10. ASSUME NEW f \in Fibers, SubmitHead(f) PROVE [L!Next]_Owner
  <2>1. depth[f] = 1
    BY <1>10, CoMutexAssumption
       DEF SubmitHead, Disciplined, SafeInv, TypeInv, DepthInv, TypeOK
  <2> QED
    BY <1>10, <2>1, <1>a, <1>b DEF SubmitHead, Holds
<1>11. CASE UNCHANGED vars
  BY <1>11, <1>a, <1>b DEF vars, Holds
<1> QED
  BY <1>1, <1>2, <1>3, <1>4, <1>5, <1>6, <1>7, <1>8, <1>9, <1>10, <1>11
     DEF Next, Step

\* Under disciplined use CoMutex implements the abstract lock CoLock, for any number
\* of fibers.
THEOREM CoMutexImplementsCoLock == Disciplined => (Spec => ImplementsCoLock)
<1> SUFFICES ASSUME Disciplined PROVE Spec => ImplementsCoLock
  OBVIOUS
<1>1. Init => L!Init
  BY NoHolderNoOwner DEF Init, L!Init, Holds
<1>2. SafeInv /\ SafeInv' /\ [Next]_vars => [L!Next]_Owner
  BY StepImplements
<1>3. Spec => []SafeInv
  BY SafeInvHolds
<1> QED
  BY <1>1, <1>2, <1>3, PTL DEF Spec, ImplementsCoLock, L!Spec

-----------------------------------------------------------------------------
\* The elements of a queue, and that nobody is in it twice.
Elems(q) == {q[i] : i \in 1 .. Len(q)}
Distinct(q) == \A i, j \in 1 .. Len(q) : q[i] = q[j] => i = j

\* A fiber that queues itself and was not queued is in the queue once.
LEMMA PushedOnce ==
    ASSUME NEW q \in Seq(Fibers), NEW f \in Fibers, f \notin Elems(q), Distinct(q)
    PROVE  Elems(Append(q, f)) = Elems(q) \cup {f} /\ Distinct(Append(q, f))
<1> DEFINE r == Append(q, f)
<1>1. /\ Len(q) \in Nat /\ Len(r) = Len(q) + 1 /\ r[Len(q) + 1] = f
      /\ \A i \in 1 .. Len(q) : r[i] = q[i]
  OBVIOUS
<1> HIDE DEF r
<1>2. \A i \in 1 .. Len(r) : i \in 1 .. Len(q) \/ i = Len(q) + 1
  BY <1>1
<1>3. Elems(r) = Elems(q) \cup {f}
  BY <1>1, <1>2 DEF Elems
<1>4. Distinct(r)
  BY <1>1, <1>2 DEF Distinct, Elems
<1> QED
  BY <1>3, <1>4 DEF r

\* The fiber at the head is out of the queue once it is popped.
LEMMA PoppedOnce ==
    ASSUME NEW q \in Seq(Fibers), q # <<>>, Distinct(q)
    PROVE  /\ Head(q) \in Elems(q) /\ Head(q) \in Fibers /\ Tail(q) \in Seq(Fibers)
           /\ Elems(Tail(q)) = Elems(q) \ {Head(q)} /\ Distinct(Tail(q))
<1> DEFINE r == Tail(q)
<1>1. /\ Len(q) \in Nat /\ Len(q) > 0 /\ Len(r) = Len(q) - 1 /\ Head(q) = q[1]
      /\ \A i \in 1 .. Len(r) : r[i] = q[i + 1]
      /\ Head(q) \in Fibers /\ r \in Seq(Fibers)
  OBVIOUS
<1> HIDE DEF r
<1>2. \A i \in 1 .. Len(r) : i + 1 \in 1 .. Len(q) /\ i + 1 # 1
  BY <1>1
<1>3. \A i \in 1 .. Len(q) : i # 1 => i - 1 \in 1 .. Len(r) /\ r[i - 1] = q[i]
  BY <1>1
<1>4. Elems(r) \subseteq Elems(q) \ {Head(q)}
  BY <1>1, <1>2 DEF Elems, Distinct
<1>5. Elems(q) \ {Head(q)} \subseteq Elems(r)
  <2> SUFFICES ASSUME NEW i \in 1 .. Len(q), q[i] # Head(q) PROVE q[i] \in Elems(r)
    BY DEF Elems
  <2>1. i # 1 /\ i - 1 \in 1 .. Len(r) /\ r[i - 1] = q[i]
    BY <1>1, <1>3
  <2> QED
    BY <2>1 DEF Elems
<1>6. Distinct(r)
  <2> SUFFICES ASSUME NEW i \in 1 .. Len(r), NEW j \in 1 .. Len(r), r[i] = r[j] PROVE i = j
    BY DEF Distinct
  <2>1. i + 1 = j + 1
    BY <1>1, <1>2 DEF Distinct
  <2> QED
    BY <2>1
<1>7. Head(q) \in Elems(q)
  BY <1>1 DEF Elems
<1>8. Elems(r) = Elems(q) \ {Head(q)}
  BY <1>4, <1>5
<1> QED
  BY <1>1, <1>6, <1>7, <1>8 DEF r

\* The fibers that unlockers have in their hands.
Taken == {hand[g] : g \in Fibers} \ {NoFiber}

\* The queue, the hands and the scheduler share nobody, none of them has anybody twice,
\* together they have who is suspended, and only who is inside unlock() has somebody in
\* its hand.
WaitersInv ==
    /\ Distinct(waitQueue_)
    /\ \A g, h \in Fibers : hand[g] = hand[h] /\ hand[g] # NoFiber => g = h
    /\ Elems(waitQueue_) \cap Taken = {} /\ Elems(waitQueue_) \cap ready = {}
    /\ Taken \cap ready = {}
    /\ \A f \in Fibers :
          f \in Elems(waitQueue_) \cup Taken \cup ready <=> pc[f] \in {"yield", "hold"}
    /\ \A f \in Fibers : hand[f] # NoFiber => pc[f] \in {"free", "wake"}

\* Every step keeps the waiters known.
LEMMA WaitersStep == TypeInv /\ WaitersInv /\ [Next]_vars => WaitersInv'
<1> SUFFICES ASSUME TypeInv, WaitersInv, [Next]_vars PROVE WaitersInv'
  OBVIOUS
<1>a. /\ NoFiber \notin Fibers /\ pc \in [Fibers -> PcValues]
      /\ hand \in [Fibers -> Fibers \cup {NoFiber}] /\ ready \subseteq Fibers
      /\ waitQueue_ \in Seq(Fibers)
  BY CoMutexAssumption DEF TypeInv, TypeOK
<1>b. ASSUME UNCHANGED <<waitQueue_, hand, ready>>,
             \A g \in Fibers : /\ pc'[g] \in {"yield", "hold"} <=> pc[g] \in {"yield", "hold"}
                               /\ pc[g] \in {"free", "wake"} => pc'[g] \in {"free", "wake"}
      PROVE  WaitersInv'
  BY <1>b DEF WaitersInv, Taken
<1>1. ASSUME NEW f \in Fibers, CallLock(f) \/ CheckOwner(f) \/ SetOwner(f) \/ Suspend(f) \/ Free(f)
      PROVE  WaitersInv'
  <2>1. /\ UNCHANGED <<waitQueue_, hand, ready>>
        /\ \/ pc[f] \in {"out", "cs", "owner?", "own"}
              /\ \E l \in {"owner?", "cs", "try"} : pc' = [pc EXCEPT ![f] = l]
           \/ pc[f] = "yield" /\ pc' = [pc EXCEPT ![f] = "hold"]
           \/ pc[f] = "free" /\ pc' = [pc EXCEPT ![f] = "wake"]
    BY <1>1 DEF CallLock, CheckOwner, SetOwner, Suspend, Free, Goto
  <2> QED
    BY <1>a, <1>b, <2>1
<1>2. ASSUME NEW f \in Fibers, TryLock(f, "try", "retry") \/ TryLock(f, "retry", "push")
      PROVE  WaitersInv'
  <2>1. /\ UNCHANGED <<waitQueue_, hand, ready>> /\ pc[f] \in {"try", "retry"}
        /\ \E l \in {"own", "retry", "push"} : pc' = [pc EXCEPT ![f] = l]
    BY <1>2 DEF TryLock, Goto
  <2> QED
    BY <1>a, <1>b, <2>1
<1>3. ASSUME NEW f \in Fibers, Enqueue(f) PROVE WaitersInv'
  <2>1. /\ pc[f] = "push" /\ pc' = [pc EXCEPT ![f] = "yield"]
        /\ waitQueue_' = Append(waitQueue_, f) /\ UNCHANGED <<hand, ready>>
    BY <1>3 DEF Enqueue, Goto
  <2>2. f \notin Elems(waitQueue_) \cup Taken \cup ready
    BY <2>1 DEF WaitersInv
  <2>3. Elems(waitQueue_') = Elems(waitQueue_) \cup {f} /\ Distinct(waitQueue_')
    BY <1>a, <2>1, <2>2, PushedOnce DEF WaitersInv
  <2> QED
    BY <1>a, <2>1, <2>2, <2>3 DEF WaitersInv, Taken
<1>4. ASSUME NEW f \in Fibers, Resumed(f) PROVE WaitersInv'
  <2>1. /\ f \in ready /\ pc[f] = "hold" /\ pc' = [pc EXCEPT ![f] = "try"]
        /\ ready' = ready \ {f} /\ UNCHANGED <<waitQueue_, hand>>
    BY <1>4 DEF Resumed, Goto
  <2> QED
    BY <1>a, <2>1 DEF WaitersInv, Taken
<1>5. ASSUME NEW f \in Fibers, Unlock(f) PROVE WaitersInv'
  <2>1. pc[f] = "cs" /\ pc' = [pc EXCEPT ![f] = "free"] /\ ready' = ready /\ PopFront(f)
    BY <1>5 DEF Unlock, Goto
  <2>2. hand[f] = NoFiber
    BY <2>1 DEF WaitersInv
  <2>3. CASE waitQueue_ = <<>>
    <3>1. UNCHANGED <<waitQueue_, hand>>
      BY <2>1, <2>3 DEF PopFront
    <3> QED
      BY <1>a, <2>1, <2>2, <3>1 DEF WaitersInv, Taken
  <2>4. CASE waitQueue_ # <<>>
    <3> DEFINE x == Head(waitQueue_)
    <3>1. hand' = [hand EXCEPT ![f] = x] /\ waitQueue_' = Tail(waitQueue_)
      BY <2>1, <2>4 DEF PopFront
    <3>2. /\ x \in Elems(waitQueue_) /\ x \in Fibers
          /\ Elems(waitQueue_') = Elems(waitQueue_) \ {x} /\ Distinct(waitQueue_')
      BY <1>a, <2>4, <3>1, PoppedOnce DEF WaitersInv
    <3> HIDE DEF x
    <3>3. Taken' = Taken \cup {x}
      BY <1>a, <2>2, <3>1, <3>2 DEF Taken
    <3>4. \A g \in Fibers : hand[g] # x
      BY <1>a, <3>2 DEF WaitersInv, Taken
    <3>5. \A g, h \in Fibers : hand'[g] = hand'[h] /\ hand'[g] # NoFiber => g = h
      BY <1>a, <3>1, <3>4 DEF WaitersInv
    <3> QED
      BY <1>a, <2>1, <2>2, <3>1, <3>2, <3>3, <3>5 DEF WaitersInv
  <2> QED
    BY <2>3, <2>4
<1>6. ASSUME NEW f \in Fibers, SubmitHead(f) PROVE WaitersInv'
  <2>1. /\ pc[f] = "wake" /\ \E l \in {"out", "cs"} : pc' = [pc EXCEPT ![f] = l]
        /\ ready' = ready \cup ({hand[f]} \ {NoFiber})
        /\ hand' = [hand EXCEPT ![f] = NoFiber] /\ UNCHANGED waitQueue_
    BY <1>6 DEF SubmitHead, Goto
  <2>2. Taken' = Taken \ {hand[f]}
    BY <1>a, <2>1 DEF Taken, WaitersInv
  <2>3. hand[f] # NoFiber => hand[f] \in Taken
    BY DEF Taken
  <2>4. NoFiber \notin Taken
    BY DEF Taken
  <2>5. \A g \in Fibers : /\ g \in Elems(waitQueue_') \cup Taken' \cup ready' <=>
                               g \in Elems(waitQueue_) \cup Taken \cup ready
                          /\ pc'[g] \in {"yield", "hold"} <=> pc[g] \in {"yield", "hold"}
    BY <1>a, <2>1, <2>2, <2>3, <2>4
  <2>6. /\ Elems(waitQueue_') \cap Taken' = {} /\ Elems(waitQueue_') \cap ready' = {}
        /\ Taken' \cap ready' = {}
    BY <2>1, <2>2, <2>3, <2>4 DEF WaitersInv
  <2>7. /\ \A g, h \in Fibers : hand'[g] = hand'[h] /\ hand'[g] # NoFiber => g = h
        /\ \A g \in Fibers : hand'[g] # NoFiber => pc'[g] \in {"free", "wake"}
    BY <1>a, <2>1 DEF WaitersInv
  <2> QED
    BY <2>1, <2>5, <2>6, <2>7 DEF WaitersInv
<1>7. CASE UNCHANGED vars
  BY <1>7 DEF vars, WaitersInv, Taken
<1> QED
  BY <1>1, <1>2, <1>3, <1>4, <1>5, <1>6, <1>7 DEF Next, Step

\* A set with at most one element has its size.
LEMMA AtMostOne ==
    ASSUME NEW S, \A x, y \in S : x = y
    PROVE  Cardinality(S) = IF S = {} THEN 0 ELSE 1
<1>1. CASE S = {}
  BY <1>1, FS_EmptySet
<1>2. ASSUME NEW x \in S PROVE Cardinality(S) = 1
  <2>1. S = {x}
    BY <1>2
  <2> QED
    BY <2>1, FS_Singleton
<1> QED
  BY <1>1, <1>2

\* No fiber that queued itself is lost and none is Submitted twice, for any fibers and any
\* nesting of ScopedLocks: until it is resumed it is in the queue, in the hand of one
\* unlocker or Submitted, once (mutex.cc:18-22, 27-38).
THEOREM WaiterKnownOnceHolds == Spec => []WaiterKnownOnce
<1>1. Init => WaitersInv
  <2> SUFFICES ASSUME Init PROVE WaitersInv
    OBVIOUS
  <2>1. Distinct(waitQueue_) /\ Elems(waitQueue_) = {}
    BY DEF Init, Distinct, Elems
  <2>2. Taken = {} /\ ready = {}
    BY DEF Init, Taken
  <2> QED
    BY <2>1, <2>2 DEF Init, WaitersInv
<1>2. ASSUME TypeInv, WaitersInv PROVE WaiterKnownOnce
  <2> SUFFICES ASSUME NEW f \in Fibers
               PROVE  Cardinality({i \in 1 .. Len(waitQueue_) : waitQueue_[i] = f})
                      + Cardinality({g \in Fibers : hand[g] = f}) + Cardinality(ready \cap {f})
                      = IF pc[f] \in {"yield", "hold"} THEN 1 ELSE 0
    BY DEF WaiterKnownOnce
  <2> DEFINE Q == {i \in 1 .. Len(waitQueue_) : waitQueue_[i] = f}
             H == {g \in Fibers : hand[g] = f}
             R == ready \cap {f}
  <2>0. f # NoFiber
    BY CoMutexAssumption
  <2>1. (Q # {} <=> f \in Elems(waitQueue_)) /\ \A i, j \in Q : i = j
    BY <1>2 DEF WaitersInv, Distinct, Elems
  <2>2. (H # {} <=> f \in Taken) /\ \A g, h \in H : g = h
    BY <1>2, <2>0 DEF WaitersInv, Taken
  <2>3. (R # {} <=> f \in ready) /\ \A g, h \in R : g = h
    OBVIOUS
  <2>4. /\ Cardinality(Q) = IF f \in Elems(waitQueue_) THEN 1 ELSE 0
        /\ Cardinality(H) = IF f \in Taken THEN 1 ELSE 0
        /\ Cardinality(R) = IF f \in ready THEN 1 ELSE 0
    <3> HIDE DEF Q, H, R
    <3> QED
      BY <2>1, <2>2, <2>3, AtMostOne
  <2>5. /\ ~(f \in Elems(waitQueue_) /\ f \in Taken) /\ ~(f \in Elems(waitQueue_) /\ f \in ready)
        /\ ~(f \in Taken /\ f \in ready)
        /\ f \in Elems(waitQueue_) \cup Taken \cup ready <=> pc[f] \in {"yield", "hold"}
    BY <1>2 DEF WaitersInv
  <2> HIDE DEF Q, H, R
  <2>6. Cardinality(Q) + Cardinality(H) + Cardinality(R) =
          IF pc[f] \in {"yield", "hold"} THEN 1 ELSE 0
    BY <2>4, <2>5
  <2> QED
    BY <2>6 DEF Q, H, R
<1> QED
  BY <1>1, <1>2, TypeInit, TypeStep, WaitersStep, PTL DEF Spec
=============================================================================
