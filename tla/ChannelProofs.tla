--------------------------- MODULE ChannelProofs ---------------------------
(***************************************************************************)
(* Machine-checked proofs about Channel, for any producers and consumers,   *)
(* any capacity and any timed pops: it implements BoundedQueue, delivers    *)
(* the messages of a producer in order and none twice, keeps its mutex      *)
(* exclusive over every wait, and forgets no fiber that waits.              *)
(***************************************************************************)
EXTENDS Channel, FiniteSetTheorems, TLAPS

\* Where a producer still has the message of its call to push.
Pushing == {"lock", "enqueue", "asleep", "body", "hold"}

\* What a producer inside push() has left to push, and what the queue holds.
ChannelInv ==
    /\ timed \subseteq Consumers
    /\ sent \in [Producers -> 0 .. MaxPushes]
    /\ msg_queue_ \in Seq(Messages)
    /\ pc \in [Fibers -> {"idle", "lock", "enqueue", "asleep", "body", "hold",
                          "cvlock", "notify", "unlock"}]
    /\ \A f \in Producers : pc[f] # "cvlock"
    /\ \A f \in Producers : pc[f] \in Pushing => sent[f] < MaxPushes

\* The channel starts in ChannelInv.
LEMMA ChannelInit == Init => ChannelInv
  BY ChannelAssumption DEF Init, ChannelInv, Pushing, Fibers, Messages

\* Every step keeps ChannelInv.
LEMMA ChannelStep == ChannelInv /\ [Next]_vars => ChannelInv'
<1> SUFFICES ASSUME ChannelInv, [Next]_vars PROVE ChannelInv'
  OBVIOUS
<1> USE ChannelAssumption DEF ChannelInv, Goto, Fibers, Pushing, lockVars, cvVars, timerVars
<1>1. ASSUME NEW f \in Fibers, Call(f) PROVE ChannelInv'
  BY <1>1 DEF Call
<1>2. ASSUME NEW f \in Fibers, Lock(f) PROVE ChannelInv'
  BY <1>2 DEF Lock
<1>3. ASSUME NEW f \in Fibers, Return(f) PROVE ChannelInv'
  BY <1>3 DEF Return, Release
<1>4. ASSUME NEW f \in Fibers, Refuse(f) PROVE ChannelInv'
  BY <1>4 DEF Refuse
<1>5. ASSUME NEW f \in Fibers, Resumed(f) PROVE ChannelInv'
  BY <1>5 DEF Resumed
<1>6. ASSUME NEW f \in Fibers, NotifyPeer(f) PROVE ChannelInv'
  BY <1>6 DEF NotifyPeer
<1>7. ASSUME NEW f \in Fibers, PushWait(f) PROVE ChannelInv'
  BY <1>7 DEF PushWait, WaitOn, Release
<1>8. ASSUME NEW f \in Fibers, PushMessage(f) PROVE ChannelInv'
  <2>1. <<f, sent[f] + 1>> \in Messages
    BY <1>8 DEF PushMessage, Messages
  <2>2. msg_queue_' \in Seq(Messages)
    BY <1>8, <2>1 DEF PushMessage
  <2> QED
    BY <1>8, <2>2 DEF PushMessage
<1>9. ASSUME NEW f \in Fibers, PopWait(f) PROVE ChannelInv'
  BY <1>9 DEF PopWait, WaitOn, Release
<1>10. ASSUME NEW f \in Fibers, PopMessage(f) PROVE ChannelInv'
  <2>1. msg_queue_' \in Seq(Messages)
    BY <1>10 DEF PopMessage
  <2> QED
    BY <1>10, <2>1 DEF PopMessage
<1>11. ASSUME NEW f \in Fibers, WaitForWoken(f) PROVE ChannelInv'
  BY <1>11 DEF WaitForWoken
<1>12. ASSUME NEW f \in Fibers, WaitForReturns(f) PROVE ChannelInv'
  BY <1>12 DEF WaitForReturns
<1>13. ASSUME NEW f \in Fibers, CloseChannel(f) PROVE ChannelInv'
  BY <1>13 DEF CloseChannel
<1>14. ASSUME NEW f \in Consumers, TimerStep(f) PROVE ChannelInv'
  BY <1>14 DEF TimerStep, TimerExpires, TimerStarts, TimerCallback
<1>15. CASE UNCHANGED vars
  BY <1>15 DEF vars
<1>16. ASSUME NEW f \in Fibers, TryFails(f) PROVE ChannelInv'
  BY <1>16 DEF TryFails
<1>17. ASSUME NEW f \in Fibers, Enqueue(f) PROVE ChannelInv'
  BY <1>17 DEF Enqueue
<1> QED
  BY <1>1, <1>2, <1>3, <1>4, <1>5, <1>6, <1>7, <1>8, <1>9, <1>10, <1>11, <1>12, <1>13,
     <1>14, <1>15, <1>16, <1>17 DEF Next, Step

\* Every step of the channel is a push, a pop, the close or no step of the queue.
LEMMA ChannelSimulates == ChannelInv /\ [Next]_vars => [Q!Next]_<<msg_queue_, isClosed_>>
<1> SUFFICES ASSUME ChannelInv, [Next]_vars, ~UNCHANGED <<msg_queue_, isClosed_>>
             PROVE  Q!Next
  OBVIOUS
<1> USE DEF lockVars, cvVars, timerVars
<1>1. ASSUME NEW f \in Fibers, PushMessage(f) PROVE Q!Next
  <2>1. <<f, sent[f] + 1>> \in Messages
    BY <1>1, ChannelAssumption DEF PushMessage, Messages, ChannelInv, Goto, Pushing
  <2>2. Q!Push(<<f, sent[f] + 1>>)
    BY <1>1 DEF PushMessage, Room, Q!Push
  <2> QED
    BY <2>1, <2>2 DEF Q!Next
<1>2. ASSUME NEW f \in Fibers, PopMessage(f) PROVE Q!Next
  BY <1>2 DEF PopMessage, Q!Next, Q!Pop
<1>3. ASSUME NEW f \in Fibers, CloseChannel(f) PROVE Q!Next
  BY <1>3 DEF CloseChannel, Q!Next, Q!Close
<1>4. ASSUME NEW f \in Fibers,
             \/ Call(f) \/ Lock(f) \/ TryFails(f) \/ Enqueue(f) \/ Return(f) \/ Refuse(f)
             \/ Resumed(f) \/ NotifyPeer(f) \/ PushWait(f) \/ PopWait(f) \/ WaitForWoken(f) \/ WaitForReturns(f)
      PROVE  FALSE
  BY <1>4 DEF Call, Lock, TryFails, Enqueue, Return, Refuse, Resumed, NotifyPeer, PushWait, PopWait,
     WaitForWoken, WaitForReturns
<1>5. ASSUME NEW f \in Consumers, TimerStep(f) PROVE FALSE
  BY <1>5 DEF TimerStep, TimerExpires, TimerStarts, TimerCallback
<1>6. CASE UNCHANGED vars
  BY <1>6 DEF vars
<1> QED
  BY <1>1, <1>2, <1>3, <1>4, <1>5, <1>6 DEF Next, Step

\* ChannelImpl is a bounded first-in first-out queue that refuses everything once it
\* is closed, for any producers, consumers, capacity and timed pops (channel.h:13-78).
THEOREM ChannelImplementsQueue == Spec => ImplementsBoundedQueue
<1>1. Init => Q!Init
  BY DEF Init, Q!Init
<1> QED
  BY <1>1, ChannelInit, ChannelStep, ChannelSimulates, PTL
     DEF Spec, ImplementsBoundedQueue, Q!Spec

-----------------------------------------------------------------------------
\* The queue as its users see it: never more than capacity_ messages, those of one
\* producer in the order it pushed them and therefore none twice, and none of a push
\* that has not happened.
InOrder ==
    /\ Len(msg_queue_) <= Capacity
    /\ \A i \in 1 .. Len(msg_queue_) : msg_queue_[i][2] <= sent[msg_queue_[i][1]]
    /\ \A i, j \in 1 .. Len(msg_queue_) :
          i < j /\ msg_queue_[i][1] = msg_queue_[j][1] => msg_queue_[i][2] < msg_queue_[j][2]

\* A push at the end of the queue, of a message later than all its producer pushed,
\* keeps the order.
LEMMA PushInOrder ==
    ASSUME ChannelInv, InOrder, NEW f \in Fibers, PushMessage(f)
    PROVE  InOrder'
<1> USE ChannelAssumption DEF InOrder
<1>0. sent \in [Producers -> 0 .. MaxPushes] /\ msg_queue_ \in Seq(Messages)
  BY DEF ChannelInv
<1> DEFINE q == msg_queue_
           n == Len(q)
<1>1. /\ f \in Producers /\ n < Capacity /\ n \in Nat
      /\ sent' = [sent EXCEPT ![f] = sent[f] + 1] /\ sent[f] \in Nat
      /\ q' = Append(q, <<f, sent[f] + 1>>)
  BY <1>0 DEF PushMessage, Room
<1>2. /\ Len(q') = n + 1 /\ q'[n + 1] = <<f, sent[f] + 1>>
      /\ \A i \in 1 .. n : q'[i] = q[i]
  BY <1>0, <1>1
<1>3. \A i \in 1 .. n : q[i][1] \in Producers /\ q[i][2] \in Nat /\ q[i] \in Messages
  BY <1>0 DEF Messages
<1>4. \A i \in 1 .. n + 1 : q'[i][2] <= sent'[q'[i][1]]
  <2> SUFFICES ASSUME NEW i \in 1 .. n + 1 PROVE q'[i][2] <= sent'[q'[i][1]]
    OBVIOUS
  <2>1. CASE i = n + 1
    BY <1>0, <1>1, <1>2, <2>1
  <2>2. CASE i \in 1 .. n
    <3>1. q'[i] = q[i] /\ q[i][1] \in Producers /\ q[i][2] \in Nat /\ q[i][2] <= sent[q[i][1]]
      BY <1>2, <1>3, <2>2
    <3> QED
      BY <1>0, <3>1, <1>1
  <2> QED
    BY <1>1, <2>1, <2>2
<1>5. ASSUME NEW i \in 1 .. n + 1, NEW j \in 1 .. n + 1, i < j, q'[i][1] = q'[j][1]
      PROVE  q'[i][2] < q'[j][2]
  <2>1. i \in 1 .. n /\ q'[i] = q[i]
    BY <1>1, <1>2, <1>5
  <2>2. CASE j \in 1 .. n
    BY <1>2, <1>5, <2>1, <2>2
  <2>3. CASE j = n + 1
    <3>1. q[i][1] = f /\ q'[j][2] = sent[f] + 1
      BY <1>2, <1>5, <2>1, <2>3
    <3>2. q[i][2] <= sent[f] /\ q[i][2] \in Nat
      BY <1>3, <2>1, <3>1
    <3>3. q'[i][2] = q[i][2] /\ sent[f] \in Nat
      BY <1>1, <2>1
    <3> HIDE DEF q, n, InOrder
    <3> QED
      BY <3>1, <3>2, <3>3
  <2> QED
    BY <1>1, <2>2, <2>3
<1>6. Len(q') <= Capacity
  BY <1>1, <1>2
<1> HIDE DEF InOrder
<1>7. /\ \A i \in 1 .. Len(q') : q'[i][2] <= sent'[q'[i][1]]
      /\ \A i, j \in 1 .. Len(q') : i < j /\ q'[i][1] = q'[j][1] => q'[i][2] < q'[j][2]
  BY <1>2, <1>4, <1>5
<1> QED
  BY <1>6, <1>7 DEF InOrder

\* A pop at the head keeps the order.
LEMMA PopInOrder ==
    ASSUME ChannelInv, InOrder, NEW f \in Fibers, PopMessage(f)
    PROVE  InOrder'
<1> USE ChannelAssumption DEF ChannelInv, InOrder
<1> DEFINE q == msg_queue_
           n == Len(q)
<1>1. q # <<>> /\ q' = Tail(q) /\ sent' = sent
  BY DEF PopMessage
<1>2. n \in Nat \ {0} /\ Len(q') = n - 1 /\ \A i \in 1 .. n - 1 : q'[i] = q[i + 1]
  BY <1>1
<1>3. \A i \in 1 .. n - 1 : i + 1 \in 1 .. n
  BY <1>2
<1> QED
  BY <1>1, <1>2, <1>3

\* Every step keeps the order.
LEMMA InOrderStep == ChannelInv /\ InOrder /\ [Next]_vars => InOrder'
<1> SUFFICES ASSUME ChannelInv, InOrder, [Next]_vars PROVE InOrder'
  OBVIOUS
<1> USE DEF lockVars, cvVars, timerVars
<1>1. ASSUME NEW f \in Fibers, PushMessage(f) PROVE InOrder'
  BY <1>1, PushInOrder
<1>2. ASSUME NEW f \in Fibers, PopMessage(f) PROVE InOrder'
  BY <1>2, PopInOrder
<1>3. ASSUME NEW f \in Fibers, CloseChannel(f) PROVE InOrder'
  BY <1>3, ChannelAssumption DEF CloseChannel, InOrder
<1>4. ASSUME NEW f \in Fibers, Refuse(f) PROVE InOrder'
  <2>1. UNCHANGED msg_queue_ /\ \A p \in Producers : sent'[p] >= sent[p] /\ sent'[p] \in Nat
    BY <1>4, ChannelAssumption DEF Refuse, ChannelInv
  <2>2. \A i \in 1 .. Len(msg_queue_) : msg_queue_[i][1] \in Producers /\ msg_queue_[i][2] \in Nat
    BY DEF ChannelInv, Messages
  <2>3. \A p \in Producers : sent[p] \in Nat
    BY ChannelAssumption DEF ChannelInv
  <2>4. \A i \in 1 .. Len(msg_queue_) : msg_queue_[i][2] <= sent'[msg_queue_[i][1]]
    BY <2>1, <2>2, <2>3 DEF InOrder
  <2> QED
    BY <2>1, <2>4 DEF InOrder
<1>5. CASE UNCHANGED <<msg_queue_, sent>>
  BY <1>5 DEF InOrder
<1>6. ASSUME NEW f \in Fibers,
             \/ Call(f) \/ Lock(f) \/ TryFails(f) \/ Enqueue(f) \/ Return(f) \/ Resumed(f)
             \/ NotifyPeer(f) \/ PushWait(f) \/ PopWait(f) \/ WaitForWoken(f) \/ WaitForReturns(f)
      PROVE  UNCHANGED <<msg_queue_, sent>>
  BY <1>6 DEF Call, Lock, TryFails, Enqueue, Return, Resumed, NotifyPeer, PushWait, PopWait,
     WaitForWoken, WaitForReturns
<1>7. ASSUME NEW f \in Consumers, TimerStep(f) PROVE UNCHANGED <<msg_queue_, sent>>
  BY <1>7 DEF TimerStep, TimerExpires, TimerStarts, TimerCallback
<1>8. CASE UNCHANGED vars
  BY <1>8, <1>5 DEF vars
<1> QED
  BY <1>1, <1>2, <1>3, <1>4, <1>5, <1>6, <1>7, <1>8 DEF Next, Step

\* However pushes, waits, timeouts, pops and the close interleave, the messages of a
\* producer stay in the order of its pushes, none is there twice, and the queue never
\* outgrows capacity_ (channel.h:13-35).
THEOREM MessagesInOrder == Spec => []InOrder
<1>1. Init => InOrder
  BY ChannelAssumption DEF Init, InOrder
<1> QED
  BY <1>1, ChannelInit, ChannelStep, InOrderStep, PTL DEF Spec

-----------------------------------------------------------------------------
\* The owner of mutex_ is the fiber inside the critical section and the keeper of
\* popCv_'s spin lock the one in waitFor that takes the mutex again.
LockExact ==
    /\ owner \in Fibers \cup {None} /\ popLock \in Fibers \cup {None}
    /\ \A f \in Fibers : (owner = f) <=> pc[f] \in {"body", "notify", "unlock"}
    /\ \A f \in Fibers : popLock = f => pc[f] \in {"lock", "enqueue", "asleep"}

\* At most one fiber is inside the critical section of a channel: the queue is never
\* tested by one and changed by another (channel.h:14,25,46,70).
Exclusive ==
    \A f, g \in Fibers :
        {pc[f], pc[g]} \subseteq {"body", "notify", "unlock"} => f = g

\* Every step keeps the two locks and the positions of the fibers together.
LEMMA LockExactStep == ChannelInv /\ LockExact /\ [Next]_vars => LockExact'
<1> SUFFICES ASSUME ChannelInv, LockExact, [Next]_vars PROVE LockExact'
  OBVIOUS
<1> USE ChannelAssumption DEF LockExact, Goto, lockVars, cvVars, timerVars
<1>0. pc \in [Fibers -> {"idle", "lock", "enqueue", "asleep", "body", "hold", "cvlock", "notify",
                       "unlock"}]
      /\ None \notin Fibers
  BY DEF ChannelInv
<1>1. ASSUME NEW f \in Fibers, Call(f) PROVE LockExact'
  BY <1>0, <1>1 DEF Call
<1>2. ASSUME NEW f \in Fibers, Lock(f) PROVE LockExact'
  BY <1>0, <1>2 DEF Lock
<1>3. ASSUME NEW f \in Fibers, Return(f) PROVE LockExact'
  BY <1>0, <1>3 DEF Return, Release
<1>4. ASSUME NEW f \in Fibers, Refuse(f) PROVE LockExact'
  BY <1>0, <1>4 DEF Refuse
<1>5. ASSUME NEW f \in Fibers, Resumed(f) PROVE LockExact'
  BY <1>0, <1>5 DEF Resumed
<1>6. ASSUME NEW f \in Fibers, NotifyPeer(f) PROVE LockExact'
  BY <1>0, <1>6 DEF NotifyPeer
<1>7. ASSUME NEW f \in Fibers, PushWait(f) PROVE LockExact'
  BY <1>0, <1>7 DEF PushWait, WaitOn, Release
<1>8. ASSUME NEW f \in Fibers, PushMessage(f) PROVE LockExact'
  BY <1>0, <1>8 DEF PushMessage
<1>9. ASSUME NEW f \in Fibers, PopWait(f) PROVE LockExact'
  BY <1>0, <1>9 DEF PopWait, WaitOn, Release
<1>10. ASSUME NEW f \in Fibers, PopMessage(f) PROVE LockExact'
  BY <1>0, <1>10 DEF PopMessage
<1>11. ASSUME NEW f \in Fibers, WaitForWoken(f) PROVE LockExact'
  BY <1>0, <1>11 DEF WaitForWoken
<1>12. ASSUME NEW f \in Fibers, WaitForReturns(f) PROVE LockExact'
  BY <1>0, <1>12 DEF WaitForReturns
<1>13. ASSUME NEW f \in Fibers, CloseChannel(f) PROVE LockExact'
  BY <1>0, <1>13 DEF CloseChannel
<1>14. ASSUME NEW f \in Consumers, TimerStep(f) PROVE LockExact'
  BY <1>14 DEF TimerStep, TimerExpires, TimerStarts, TimerCallback
<1>15. CASE UNCHANGED vars
  BY <1>15 DEF vars
<1>16. ASSUME NEW f \in Fibers, TryFails(f) PROVE LockExact'
  BY <1>0, <1>16 DEF TryFails
<1>17. ASSUME NEW f \in Fibers, Enqueue(f) PROVE LockExact'
  BY <1>0, <1>17 DEF Enqueue
<1> QED
  BY <1>1, <1>2, <1>3, <1>4, <1>5, <1>6, <1>7, <1>8, <1>9, <1>10, <1>11, <1>12, <1>13,
     <1>14, <1>15, <1>16, <1>17 DEF Next, Step

\* The critical sections of push, pop, waitFor and close exclude each other, the ones
\* that wait() and waitFor() leave and enter again included.
THEOREM ChannelExclusive == Spec => []Exclusive
<1>1. Init => LockExact
  BY ChannelAssumption DEF Init, LockExact
<1>2. LockExact => Exclusive
  BY DEF LockExact, Exclusive
<1> QED
  BY <1>1, <1>2, ChannelInit, ChannelStep, LockExactStep, PTL DEF Spec
-----------------------------------------------------------------------------
\* The fibers that wait in a condition variable.
Queued == waitQueue["push"] \cup waitQueue["pop"]

\* The fibers in the queue of mutex_.
InLockQueue(f) == \E i \in 1 .. Len(lockQueue) : lockQueue[i] = f

\* No fiber that is suspended in wait(), waitFor() or lock() is forgotten: a condition
\* variable or mutex_ still has it or it is Submitted.
NotForgotten ==
    \A f \in Fibers :
        /\ pc[f] = "hold" => f \in Queued \/ ready[f] > 0
        /\ pc[f] = "asleep" => InLockQueue(f) \/ ready[f] > 0

\* A fiber that uses no timeout is known exactly once while it is suspended, to a
\* condition variable, to mutex_ or to the scheduler, and not at all while it runs: it is
\* never resumed twice for one wait.
KnownOnce ==
    \A f \in Fibers \ timed :
        /\ f \in Queued => pc[f] = "hold"
        /\ InLockQueue(f) => pc[f] = "asleep"
        /\ \A i, j \in 1 .. Len(lockQueue) : lockQueue[i] = f /\ lockQueue[j] = f => i = j
        /\ ready[f] = IF \/ pc[f] = "hold" /\ f \notin Queued
                         \/ pc[f] = "asleep" /\ ~InLockQueue(f) THEN 1 ELSE 0

\* Types of what the condition variables hold; producers wait on pushCv_, consumers on
\* popCv_, and only a timed wait has a timer.
WaitTypes ==
    /\ waitQueue \in [{"push", "pop"} -> SUBSET Fibers]
    /\ waitQueue["push"] \subseteq Producers /\ waitQueue["pop"] \subseteq Consumers
    /\ ready \in [Fibers -> Nat] /\ lockQueue \in Seq(Fibers)
    /\ timer \in [Consumers -> {"none", "armed", "fired", "running"}]
    /\ \A f \in Consumers \ timed : timer[f] = "none"

WaitInv == WaitTypes /\ NotForgotten /\ KnownOnce

\* notifyAll of both condition variables Submits each fiber that waits, once.
LEMMA ClosedCount ==
    ASSUME WaitTypes, NEW g \in Fibers
    PROVE  Cardinality({cv \in ClosedCvs : g \in waitQueue[cv]}) = IF g \in Queued THEN 1 ELSE 0
<1> DEFINE C == {cv \in ClosedCvs : g \in waitQueue[cv]}
<1>1. CASE g \in waitQueue["push"]
  <2>1. C = {"push"}
    BY <1>1, ChannelAssumption DEF ClosedCvs, WaitTypes
  <2> QED
    BY <1>1, <2>1, FS_Singleton DEF Queued
<1>2. CASE g \in waitQueue["pop"]
  <2>1. C = {"pop"}
    BY <1>2, ChannelAssumption DEF ClosedCvs, WaitTypes
  <2> QED
    BY <1>2, <2>1, FS_Singleton DEF Queued
<1>3. CASE g \notin Queued
  <2>1. C = {}
    BY <1>3 DEF Queued, ClosedCvs
  <2> QED
    BY <1>3, <2>1, FS_EmptySet
<1> QED
  BY <1>1, <1>2, <1>3 DEF Queued

\* unlock() takes the first fiber off the queue of mutex_, if there is one, and Submits
\* it; the others stay.
LEMMA ReleaseTakes ==
    ASSUME WaitTypes, Release, lockQueue # <<>>
    PROVE  LET w == lockQueue[1]
           IN  /\ w \in Fibers /\ InLockQueue(w) /\ lockQueue' \in Seq(Fibers)
               /\ ready' = [ready EXCEPT ![w] = @ + 1]
               /\ \A g \in Fibers \ {w} : InLockQueue(g)' <=> InLockQueue(g)
               /\ \A g \in Fibers :
                     (\A i, j \in 1 .. Len(lockQueue) :
                            lockQueue[i] = g /\ lockQueue[j] = g => i = j)
                     => /\ g = w => ~InLockQueue(g)'
                        /\ \A i, j \in 1 .. Len(lockQueue') :
                              lockQueue'[i] = g /\ lockQueue'[j] = g => i = j
<1> DEFINE n == Len(lockQueue)
           w == lockQueue[1]
<1>1. /\ n \in Nat \ {0} /\ lockQueue' = Tail(lockQueue) /\ Head(lockQueue) = w
      /\ ready' = [ready EXCEPT ![w] = @ + 1] /\ w \in Fibers /\ lockQueue' \in Seq(Fibers)
  <2>1. lockQueue \in Seq(Fibers) /\ lockQueue # <<>>
    BY DEF WaitTypes
  <2>2. n \in Nat \ {0} /\ Head(lockQueue) = w /\ w \in Fibers
    BY <2>1
  <2>3. /\ lockQueue' = Tail(lockQueue)
        /\ ready' = [ready EXCEPT ![Head(lockQueue)] = @ + 1]
    BY <2>1 DEF Release
  <2>4. lockQueue' \in Seq(Fibers)
    BY <2>1, <2>3
  <2> QED
    BY <2>2, <2>3, <2>4
<1>2. Len(lockQueue') = n - 1 /\ \A i \in 1 .. n - 1 : lockQueue'[i] = lockQueue[i + 1]
  BY <1>1 DEF WaitTypes
<1>3. \A i \in 1 .. n - 1 : i + 1 \in 2 .. n /\ i + 1 \in 1 .. n
  BY <1>1
<1>4. InLockQueue(w)
  BY <1>1 DEF InLockQueue
<1>5. ASSUME NEW g \in Fibers \ {w} PROVE InLockQueue(g)' <=> InLockQueue(g)
  <2>1. ASSUME NEW i \in 1 .. n, lockQueue[i] = g
        PROVE  i - 1 \in 1 .. n - 1 /\ lockQueue'[i - 1] = g
    <3>1. i # 1 /\ i - 1 \in 1 .. n - 1 /\ (i - 1) + 1 = i
      BY <1>1, <1>5, <2>1
    <3> QED
      BY <1>2, <2>1, <3>1
  <2>2. ASSUME NEW i \in 1 .. n - 1, lockQueue'[i] = g
        PROVE  i + 1 \in 1 .. n /\ lockQueue[i + 1] = g
    BY <1>2, <1>3, <2>2
  <2> QED
    BY <1>2, <2>1, <2>2 DEF InLockQueue
<1>6. ASSUME NEW g \in Fibers,
             \A i, j \in 1 .. n : lockQueue[i] = g /\ lockQueue[j] = g => i = j
      PROVE  /\ g = w => ~InLockQueue(g)'
             /\ \A i, j \in 1 .. n - 1 : lockQueue'[i] = g /\ lockQueue'[j] = g => i = j
  <2>1. ASSUME g = w, NEW i \in 1 .. n - 1, lockQueue'[i] = g PROVE FALSE
    <3>1. i + 1 \in 1 .. n /\ 1 \in 1 .. n /\ i + 1 # 1
      BY <1>1, <1>3
    <3>2. lockQueue[i + 1] = g /\ lockQueue[1] = g
      BY <1>2, <2>1
    <3> QED
      BY <1>6, <3>1, <3>2
  <2>2. ASSUME NEW i \in 1 .. n - 1, NEW j \in 1 .. n - 1,
               lockQueue'[i] = g, lockQueue'[j] = g
        PROVE  i = j
    <3>1. i + 1 = j + 1
      BY <1>2, <1>3, <1>6, <2>2
    <3> QED
      BY <1>1, <3>1
  <2> QED
    BY <1>2, <2>1, <2>2 DEF InLockQueue
<1>7. \A g \in Fibers :
         (\A i, j \in 1 .. n : lockQueue[i] = g /\ lockQueue[j] = g => i = j)
         => /\ g = w => ~InLockQueue(g)'
            /\ \A i, j \in 1 .. Len(lockQueue') : lockQueue'[i] = g /\ lockQueue'[j] = g => i = j
  BY <1>2, <1>6
<1> HIDE DEF w, n
<1>8. /\ w \in Fibers /\ InLockQueue(w) /\ lockQueue' \in Seq(Fibers)
      /\ ready' = [ready EXCEPT ![w] = @ + 1]
      /\ \A g \in Fibers \ {w} : InLockQueue(g)' <=> InLockQueue(g)
  BY <1>1, <1>4, <1>5
<1> QED
  BY <1>7, <1>8 DEF w, n

\* The owner of mutex_ returns or waits: the queue of mutex_ stays exact.
LEMMA ReleaseKeeps ==
    ASSUME ChannelInv, WaitInv, NEW f \in Fibers, pc[f] \in {"body", "unlock"}, Release,
           NEW to \in {"idle", "hold"}, pc' = [pc EXCEPT ![f] = to], timed' = timed,
           WaitTypes', Queued' = IF to = "hold" THEN Queued \cup {f} ELSE Queued
    PROVE  NotForgotten' /\ KnownOnce'
<1> USE DEF ChannelInv, WaitInv
<1>0. pc[f] \notin {"hold", "asleep"} /\ \A g \in Fibers : ready[g] \in Nat
  BY DEF WaitTypes
<1>1. CASE lockQueue = <<>>
  <2>1. UNCHANGED <<lockQueue, ready>> /\ \A g \in Fibers : InLockQueue(g)' <=> InLockQueue(g)
    BY <1>1 DEF Release, InLockQueue
  <2>2. NotForgotten'
    BY <1>0, <2>1 DEF NotForgotten
  <2>3. KnownOnce'
    BY <1>0, <2>1 DEF KnownOnce
  <2> QED
    BY <2>2, <2>3
<1>2. CASE lockQueue # <<>>
  <2> DEFINE w == lockQueue[1]
  <2>1. /\ w \in Fibers /\ InLockQueue(w) /\ ready' = [ready EXCEPT ![w] = @ + 1]
        /\ \A g \in Fibers \ {w} : InLockQueue(g)' <=> InLockQueue(g)
        /\ \A g \in Fibers :
              (\A i, j \in 1 .. Len(lockQueue) :
                     lockQueue[i] = g /\ lockQueue[j] = g => i = j)
              => /\ g = w => ~InLockQueue(g)'
                 /\ \A i, j \in 1 .. Len(lockQueue') :
                       lockQueue'[i] = g /\ lockQueue'[j] = g => i = j
    BY <1>2, ReleaseTakes
  <2> HIDE DEF w
  <2>2. /\ ready'[w] = ready[w] + 1 /\ \A g \in Fibers \ {w} : ready'[g] = ready[g]
        /\ \A g \in Fibers \ {f} : pc'[g] = pc[g]
        /\ pc'[f] = to /\ ready'[w] > 0
    BY <1>0, <2>1 DEF WaitTypes
  <2>3. NotForgotten'
    BY <1>0, <2>1, <2>2 DEF NotForgotten
  <2>4. ASSUME NEW g \in Fibers \ timed
        PROVE  /\ g \in Queued' => pc'[g] = "hold"
               /\ InLockQueue(g)' => pc'[g] = "asleep"
               /\ \A i, j \in 1 .. Len(lockQueue') :
                     lockQueue'[i] = g /\ lockQueue'[j] = g => i = j
               /\ ready'[g] = IF \/ pc'[g] = "hold" /\ g \notin Queued'
                                 \/ pc'[g] = "asleep" /\ ~InLockQueue(g)' THEN 1 ELSE 0
    <3>1. /\ g \in Queued => pc[g] = "hold"
          /\ InLockQueue(g) => pc[g] = "asleep"
          /\ \A i, j \in 1 .. Len(lockQueue) : lockQueue[i] = g /\ lockQueue[j] = g => i = j
          /\ ready[g] = IF \/ pc[g] = "hold" /\ g \notin Queued
                           \/ pc[g] = "asleep" /\ ~InLockQueue(g) THEN 1 ELSE 0
      BY <2>4 DEF KnownOnce
    <3>2. /\ g = w => ~InLockQueue(g)'
          /\ \A i, j \in 1 .. Len(lockQueue') :
                lockQueue'[i] = g /\ lockQueue'[j] = g => i = j
      BY <2>1, <3>1
    <3>3. CASE g = w
      <4>1. pc[g] = "asleep" /\ ready[g] = 0 /\ g # f /\ g \notin Queued
        BY <1>0, <2>1, <3>1, <3>3
      <4>2. pc'[g] = "asleep" /\ ready'[g] = 1 /\ g \notin Queued' /\ ~InLockQueue(g)'
        BY <2>2, <3>2, <3>3, <4>1
      <4> QED
        BY <3>2, <4>2
    <3>4. CASE g # w
      <4>1. (InLockQueue(g)' <=> InLockQueue(g)) /\ ready'[g] = ready[g]
        BY <2>1, <2>2, <3>4
      <4>2. CASE g = f
        BY <1>0, <2>2, <3>1, <3>2, <4>1, <4>2
      <4>3. CASE g # f
        <5>1. pc'[g] = pc[g] /\ (g \in Queued' <=> g \in Queued)
          BY <2>2, <4>3
        <5> QED
          BY <3>1, <3>2, <4>1, <5>1
      <4> QED
        BY <4>2, <4>3
    <3> QED
      BY <3>3, <3>4
  <2>5. KnownOnce'
    BY <2>4 DEF KnownOnce
  <2> QED
    BY <2>3, <2>5
<1> QED
  BY <1>1, <1>2

\* A step of a running fiber that stays running and touches no queue.
LEMMA RunningKeeps ==
    ASSUME ChannelInv, WaitInv, NEW f \in Fibers, pc[f] \notin {"hold", "asleep"},
           NEW to, to \notin {"hold", "asleep"}, pc' = [pc EXCEPT ![f] = to],
           UNCHANGED <<timed, lockQueue, cvVars>>
    PROVE  NotForgotten' /\ KnownOnce'
<1>1. \A g \in Fibers : (pc'[g] = "hold" <=> pc[g] = "hold")
                        /\ (pc'[g] = "asleep" <=> pc[g] = "asleep")
  BY DEF ChannelInv
<1>2. UNCHANGED <<timed, lockQueue, waitQueue, ready>>
  BY DEF cvVars
<1> QED
  BY <1>1, <1>2 DEF WaitInv, NotForgotten, KnownOnce, Queued, InLockQueue

\* notify keeps every waiting fiber known.
LEMMA NotifyKeeps ==
    ASSUME ChannelInv, WaitInv, NEW f \in Fibers, NotifyPeer(f)
    PROVE  WaitInv'
<1> USE DEF ChannelInv, WaitInv, WaitTypes, Goto
<1>1. /\ pc[f] = "notify" /\ pc' = [pc EXCEPT ![f] = "unlock"]
      /\ UNCHANGED <<timed, timer, lockQueue>> /\ PeerCv(f) \in {"push", "pop"}
  BY DEF NotifyPeer, lockVars, timerVars, PeerCv
<1>2. CASE UNCHANGED cvVars
  <2>1. NotForgotten' /\ KnownOnce'
    BY <1>1, <1>2, RunningKeeps
  <2> QED
    BY <1>1, <1>2, <2>1 DEF cvVars
<1>3. ASSUME NEW w \in waitQueue[PeerCv(f)],
             waitQueue' = [waitQueue EXCEPT ![PeerCv(f)] = @ \ {w}],
             ready' = [ready EXCEPT ![w] = @ + 1]
      PROVE  WaitInv'
  <2>1. w \in Fibers /\ w \in Queued
    BY <1>1 DEF Queued
  <2>2. Queued' = Queued \ {w}
    BY <1>1, <1>3, ChannelAssumption DEF Queued
  <2>3. WaitTypes'
    BY <1>1, <1>3, <2>1
  <2>4. /\ \A g \in Fibers : (InLockQueue(g)' <=> InLockQueue(g))
              /\ (pc'[g] = "hold" <=> pc[g] = "hold") /\ (pc'[g] = "asleep" <=> pc[g] = "asleep")
        /\ ready'[w] = ready[w] + 1 /\ \A g \in Fibers \ {w} : ready'[g] = ready[g]
        /\ \A g \in Fibers : ready[g] \in Nat
    BY <1>1, <1>3, <2>1 DEF InLockQueue
  <2>5. NotForgotten'
    BY <2>1, <2>2, <2>4 DEF NotForgotten
  <2>6. KnownOnce'
    BY <1>1, <2>1, <2>2, <2>4 DEF KnownOnce
  <2> QED
    BY <2>3, <2>5, <2>6
<1> QED
  BY <1>2, <1>3 DEF NotifyPeer, NotifyOne

\* A fiber that queues itself in mutex_ is known there, once.
LEMMA EnqueueKeeps ==
    ASSUME ChannelInv, WaitInv, NEW f \in Fibers, Enqueue(f)
    PROVE  WaitInv'
<1> DEFINE n == Len(lockQueue)
<1>1. /\ pc[f] = "enqueue" /\ pc' = [pc EXCEPT ![f] = "asleep"]
      /\ lockQueue' = Append(lockQueue, f) /\ lockQueue \in Seq(Fibers)
      /\ UNCHANGED <<timed, waitQueue, ready, timer>>
  BY DEF Enqueue, Goto, cvVars, timerVars, WaitInv, WaitTypes
<1>2. WaitTypes'
  BY <1>1 DEF WaitInv, WaitTypes
<1>3. /\ n \in Nat /\ Len(lockQueue') = n + 1 /\ lockQueue'[n + 1] = f
      /\ \A i \in 1 .. n : lockQueue'[i] = lockQueue[i]
  BY <1>1
<1>4. InLockQueue(f)' /\ \A g \in Fibers \ {f} : InLockQueue(g)' <=> InLockQueue(g)
  <2>1. \A i \in 1 .. n + 1 : i \in 1 .. n \/ i = n + 1
    BY <1>3
  <2>2. 1 .. n \subseteq 1 .. n + 1 /\ n + 1 \in 1 .. n + 1
    BY <1>3
  <2> QED
    BY <1>3, <2>1, <2>2 DEF InLockQueue
<1>5. Queued' = Queued /\ pc'[f] = "asleep"
      /\ \A g \in Fibers \ {f} : pc'[g] = pc[g]
  BY <1>1 DEF Queued, ChannelInv
<1>6. NotForgotten'
  BY <1>1, <1>4, <1>5 DEF WaitInv, NotForgotten
<1>7. ASSUME NEW g \in Fibers \ timed
      PROVE  /\ g \in Queued' => pc'[g] = "hold"
             /\ InLockQueue(g)' => pc'[g] = "asleep"
             /\ \A i, j \in 1 .. Len(lockQueue') :
                   lockQueue'[i] = g /\ lockQueue'[j] = g => i = j
             /\ ready'[g] = IF \/ pc'[g] = "hold" /\ g \notin Queued'
                               \/ pc'[g] = "asleep" /\ ~InLockQueue(g)' THEN 1 ELSE 0
  <2>1. /\ g \in Queued => pc[g] = "hold"
        /\ InLockQueue(g) => pc[g] = "asleep"
        /\ \A i, j \in 1 .. n : lockQueue[i] = g /\ lockQueue[j] = g => i = j
        /\ ready[g] = IF \/ pc[g] = "hold" /\ g \notin Queued
                         \/ pc[g] = "asleep" /\ ~InLockQueue(g) THEN 1 ELSE 0
    BY <1>7 DEF WaitInv, KnownOnce
  <2>2. CASE g = f
    <3>1. ~InLockQueue(g) /\ ready[g] = 0 /\ g \notin Queued
      BY <1>1, <2>1, <2>2
    <3>2. \A i \in 1 .. n : lockQueue'[i] # g
      BY <1>3, <3>1 DEF InLockQueue
    <3>3. \A i \in 1 .. n + 1 : i \in 1 .. n \/ i = n + 1
      BY <1>3
    <3>4. \A i, j \in 1 .. Len(lockQueue') : lockQueue'[i] = g /\ lockQueue'[j] = g => i = j
      BY <1>3, <3>2, <3>3
    <3> QED
      BY <1>1, <1>4, <1>5, <2>2, <3>1, <3>4
  <2>3. CASE g # f
    <3>1. \A i \in 1 .. n + 1 : lockQueue'[i] = g => i \in 1 .. n /\ lockQueue[i] = g
      BY <1>3, <2>3
    <3>2. \A i, j \in 1 .. Len(lockQueue') : lockQueue'[i] = g /\ lockQueue'[j] = g => i = j
      BY <1>3, <2>1, <3>1
    <3> QED
      BY <1>1, <1>4, <1>5, <2>1, <2>3, <3>2
  <2> QED
    BY <2>2, <2>3
<1>8. KnownOnce'
  BY <1>1, <1>7 DEF KnownOnce
<1> QED
  BY <1>2, <1>6, <1>8 DEF WaitInv

\* A resumed fiber takes its Submit with it.
LEMMA ResumedKeeps ==
    ASSUME ChannelInv, WaitInv, NEW f \in Fibers, Resumed(f)
    PROVE  WaitInv'
<1>1. /\ ready[f] > 0 /\ ready' = [ready EXCEPT ![f] = @ - 1]
      /\ UNCHANGED <<timed, lockQueue, waitQueue, timer>>
  BY DEF Resumed, lockVars, timerVars
<1>2. /\ pc[f] \in {"hold", "asleep"} /\ pc'[f] \notin {"hold", "asleep"}
      /\ \A g \in Fibers \ {f} : pc'[g] = pc[g]
  BY DEF Resumed, Goto, ChannelInv
<1>3. ready \in [Fibers -> Nat] /\ WaitTypes'
  BY <1>1 DEF WaitInv, WaitTypes
<1>4. /\ Queued' = Queued /\ \A g \in Fibers : InLockQueue(g)' <=> InLockQueue(g)
      /\ \A g \in Fibers \ {f} : ready'[g] = ready[g]
      /\ ready'[f] = ready[f] - 1 /\ ready[f] \in Nat
  BY <1>1, <1>3 DEF Queued, InLockQueue
<1>5. NotForgotten'
  BY <1>2, <1>4 DEF WaitInv, NotForgotten
<1>6. f \notin timed => f \notin Queued /\ ~InLockQueue(f) /\ ready[f] = 1
  BY <1>1, <1>2, <1>4 DEF WaitInv, KnownOnce
<1>7. KnownOnce'
  BY <1>1, <1>2, <1>4, <1>6 DEF WaitInv, KnownOnce
<1> QED
  BY <1>3, <1>5, <1>7 DEF WaitInv

\* close() Submits everybody that waits on the channel.
LEMMA CloseKeeps ==
    ASSUME ChannelInv, WaitInv, NEW f \in Fibers, CloseChannel(f)
    PROVE  WaitInv'
<1>1. /\ waitQueue' = [cv \in {"push", "pop"} |-> {}] /\ UNCHANGED <<timed, timer, lockQueue>>
      /\ pc[f] = "body" /\ pc' = [pc EXCEPT ![f] = "unlock"]
  BY DEF CloseChannel, ClosedCvs, Goto, lockVars, timerVars
<1>2. ready' = [g \in Fibers |-> ready[g] + (IF g \in Queued THEN 1 ELSE 0)]
  BY ClosedCount DEF CloseChannel, WaitInv
<1>3. /\ Queued' = {} /\ WaitTypes' /\ ready \in [Fibers -> Nat]
      /\ \A g \in Fibers : InLockQueue(g)' <=> InLockQueue(g)
  BY <1>1, <1>2 DEF Queued, WaitInv, WaitTypes, InLockQueue
<1>4. \A g \in Fibers : (pc'[g] = "hold" <=> pc[g] = "hold")
                        /\ (pc'[g] = "asleep" <=> pc[g] = "asleep")
  BY <1>1 DEF ChannelInv
<1>5. NotForgotten'
  BY <1>2, <1>3, <1>4 DEF WaitInv, NotForgotten
<1>6. KnownOnce'
  BY <1>1, <1>2, <1>3, <1>4 DEF WaitInv, KnownOnce
<1> QED
  BY <1>3, <1>5, <1>6 DEF WaitInv

\* The timer of a timed wait Submits its fiber.
LEMMA TimerKeeps ==
    ASSUME ChannelInv, WaitInv, NEW f \in Consumers, TimerStep(f)
    PROVE  WaitInv'
<1>1. f \in timed /\ f \in Fibers /\ UNCHANGED <<timed, pc, lockQueue>>
  BY DEF TimerStep, TimerExpires, TimerStarts, TimerCallback, Fibers, WaitInv, WaitTypes, lockVars
<1>2. CASE TimerExpires(f) \/ TimerStarts(f)
  <2>1. UNCHANGED cvVars /\ WaitTypes'
    BY <1>1, <1>2 DEF TimerExpires, TimerStarts, WaitInv, WaitTypes, cvVars
  <2>2. NotForgotten' /\ KnownOnce'
    BY <1>1, <2>1 DEF WaitInv, NotForgotten, KnownOnce, Queued, InLockQueue, cvVars
  <2> QED
    BY <2>1, <2>2 DEF WaitInv
<1>3. CASE TimerCallback(f)
  <2>1. /\ waitQueue' = [waitQueue EXCEPT !["pop"] = @ \ {f}]
        /\ ready' = [ready EXCEPT ![f] = @ + 1] /\ timer' = [timer EXCEPT ![f] = "none"]
    BY <1>3 DEF TimerCallback
  <2>2. WaitTypes' /\ ready \in [Fibers -> Nat]
    BY <1>1, <2>1 DEF WaitInv, WaitTypes
  <2>3. /\ ready'[f] > 0 /\ \A g \in Fibers \ {f} : ready'[g] = ready[g]
        /\ \A g \in Fibers \ {f} : g \in Queued' <=> g \in Queued
        /\ \A g \in Fibers : InLockQueue(g)' <=> InLockQueue(g)
    BY <1>1, <2>1, <2>2 DEF Queued, InLockQueue, WaitInv, WaitTypes
  <2>4. NotForgotten'
    BY <1>1, <2>3 DEF WaitInv, NotForgotten
  <2>5. KnownOnce'
    BY <1>1, <2>3 DEF WaitInv, KnownOnce
  <2> QED
    BY <2>2, <2>4, <2>5 DEF WaitInv
<1> QED
  BY <1>2, <1>3 DEF TimerStep

\* Every step keeps every waiting fiber known.
LEMMA WaitStep == ChannelInv /\ WaitInv /\ [Next]_vars => WaitInv'
<1> SUFFICES ASSUME ChannelInv, WaitInv, [Next]_vars PROVE WaitInv'
  OBVIOUS
<1> USE ChannelAssumption DEF Goto, lockVars, timerVars
<1>1. ASSUME NEW f \in Fibers,
             \/ Call(f) \/ Lock(f) \/ TryFails(f) \/ Refuse(f) \/ PushMessage(f) \/ PopMessage(f)
             \/ WaitForWoken(f) \/ WaitForReturns(f)
      PROVE  WaitInv'
  <2>1. PICK to \in {"lock", "enqueue", "body", "notify", "unlock"} :
           pc' = [pc EXCEPT ![f] = to]
    BY <1>1 DEF Call, Lock, TryFails, Refuse, PushMessage, PopMessage, WaitForWoken, WaitForReturns
  <2>2. pc[f] \notin {"hold", "asleep"} /\ UNCHANGED <<timed, lockQueue, cvVars>>
    BY <1>1 DEF Call, Lock, TryFails, Refuse, PushMessage, PopMessage, WaitForWoken, WaitForReturns
  <2>3. to \notin {"hold", "asleep"}
    BY <2>1
  <2>4. NotForgotten' /\ KnownOnce'
    BY <2>1, <2>2, <2>3, RunningKeeps
  <2>5. /\ timer' \in [Consumers -> {"none", "armed", "fired", "running"}]
        /\ \A g \in Consumers \ timed : timer'[g] = "none"
    BY <1>1 DEF Call, Lock, TryFails, Refuse, PushMessage, PopMessage, WaitForWoken,
       WaitForReturns, WaitInv, WaitTypes
  <2> QED
    BY <2>2, <2>4, <2>5 DEF WaitInv, WaitTypes, cvVars
<1>2. ASSUME NEW f \in Fibers, Enqueue(f) PROVE WaitInv'
  BY <1>2, EnqueueKeeps
<1>3. ASSUME NEW f \in Fibers, Return(f) PROVE WaitInv'
  <2>1. /\ pc[f] = "unlock" /\ pc' = [pc EXCEPT ![f] = "idle"]
        /\ Release /\ UNCHANGED <<timed, waitQueue, timer>>
    BY <1>3 DEF Return
  <2>2. lockQueue' \in Seq(Fibers) /\ ready' \in [Fibers -> Nat]
    BY <2>1, ReleaseTakes DEF WaitInv, WaitTypes, Release
  <2>3. WaitTypes' /\ Queued' = Queued
    BY <2>1, <2>2 DEF WaitInv, WaitTypes, Queued
  <2>4. NotForgotten' /\ KnownOnce'
    BY <2>1, <2>3, ReleaseKeeps
  <2> QED
    BY <2>3, <2>4 DEF WaitInv
<1>4. ASSUME NEW f \in Fibers, PushWait(f) \/ PopWait(f) PROVE WaitInv'
  <2>1. PICK cv \in {"push", "pop"} :
           /\ pc[f] = "body" /\ pc' = [pc EXCEPT ![f] = "hold"]
           /\ waitQueue' = [waitQueue EXCEPT ![cv] = @ \cup {f}]
           /\ Release /\ UNCHANGED timed
           /\ f \in Producers => cv = "push"
           /\ f \in Consumers => cv = "pop"
    BY <1>4 DEF PushWait, PopWait, WaitOn
  <2>2. lockQueue' \in Seq(Fibers) /\ ready' \in [Fibers -> Nat]
    BY <2>1, ReleaseTakes DEF WaitInv, WaitTypes, Release
  <2>3. /\ timer' \in [Consumers -> {"none", "armed", "fired", "running"}]
        /\ \A g \in Consumers \ timed : timer'[g] = "none"
    BY <1>4 DEF PushWait, PopWait, WaitInv, WaitTypes
  <2>4. f \in Producers \/ f \in Consumers
    BY <1>4 DEF PushWait, PopWait
  <2>5. WaitTypes'
    BY <2>1, <2>2, <2>3, <2>4 DEF WaitInv, WaitTypes
  <2>6. Queued' = Queued \cup {f}
    BY <2>1 DEF Queued, WaitInv, WaitTypes
  <2>7. NotForgotten' /\ KnownOnce'
    BY <2>1, <2>5, <2>6, ReleaseKeeps
  <2> QED
    BY <2>5, <2>7 DEF WaitInv
<1>5. ASSUME NEW f \in Fibers, Resumed(f) PROVE WaitInv'
  BY <1>5, ResumedKeeps
<1>6. ASSUME NEW f \in Fibers, NotifyPeer(f) PROVE WaitInv'
  BY <1>6, NotifyKeeps
<1>7. ASSUME NEW f \in Fibers, CloseChannel(f) PROVE WaitInv'
  BY <1>7, CloseKeeps
<1>8. ASSUME NEW f \in Consumers, TimerStep(f) PROVE WaitInv'
  BY <1>8, TimerKeeps
<1>9. CASE UNCHANGED vars
  BY <1>9 DEF vars, WaitInv, WaitTypes, NotForgotten, KnownOnce, Queued, InLockQueue
<1> QED
  BY <1>1, <1>2, <1>3, <1>4, <1>5, <1>6, <1>7, <1>8, <1>9 DEF Next, Step

\* A fiber suspended on a condition variable or on the mutex of a channel is never lost,
\* whatever is notified, closed or timed out meanwhile, and one that uses no timeout is
\* resumed once per wait (mutex.cc:13-150).
THEOREM WaitersKept == Spec => [](NotForgotten /\ KnownOnce)
<1>1. Init => WaitInv
  BY ChannelAssumption
     DEF Init, WaitInv, WaitTypes, NotForgotten, KnownOnce, Queued, Fibers, InLockQueue
<1>2. WaitInv => NotForgotten /\ KnownOnce
  BY DEF WaitInv
<1> QED
  BY <1>1, <1>2, ChannelInit, ChannelStep, WaitStep, PTL DEF Spec
=============================================================================
