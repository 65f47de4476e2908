------------------------------ MODULE Channel ------------------------------
(***************************************************************************)
(* ChannelImpl (include/channel.h) over CoCondVar (src/mutex.cc): fibers   *)
(* that push, pop, pop with a timeout and close, the two condition         *)
(* variables with their spin locks, and the timer of waitFor.              *)
(*                                                                         *)
(* mutex_ has one owner (CoMutex, CoLock) and a queue.  As in CoMutex, a   *)
(* fiber that found it taken queues itself later, perhaps after the owner  *)
(* has looked for somebody to wake, and then sleeps beside the free mutex. *)
(* What the owner does without suspending is one step, except where it     *)
(* takes the spin lock of a condition variable.  A Submitted fiber is      *)
(* resumed once per Submit, when it is suspended.                          *)
(***************************************************************************)
EXTENDS Integers, Sequences, FiniteSets

CONSTANTS
    Producers, Consumers, Closer,   \* the fibers that use the channel
    Timed,          \* the consumers that may call waitFor instead of pop
    Capacity,       \* capacity_
    MaxPushes,      \* bound: how many messages each producer pushes
    MaxSubmits,     \* bound: pending Submits of a fiber whose timer expires
    None

Fibers == Producers \cup Consumers \cup {Closer}

Messages == Producers \X (1 .. MaxPushes)

ASSUME ChannelAssumption ==
    /\ Timed \subseteq Consumers
    /\ Producers \cap Consumers = {} /\ Closer \notin Producers \cup Consumers
    /\ Capacity \in Nat \ {0} /\ MaxPushes \in Nat /\ MaxSubmits \in Nat
    /\ None \notin Fibers

VARIABLES
    timed,      \* the consumers that do call waitFor
    owner,      \* owner of mutex_
    lockQueue,  \* waitQueue_ of mutex_
    popLock,    \* the fiber that keeps popCv_.mutex_ over a suspension
    waitQueue,  \* waitQueue_ of pushCv_ and of popCv_
    ready,      \* how often each fiber is Submitted and not resumed yet
    msg_queue_, isClosed_,
    pc,         \* where each fiber is
    sent,       \* messages each producer has pushed or had refused
    timer,      \* the waitFor timer: "none", "armed", "fired", "running"
    timedOut    \* *timeCondtion of the fiber's waitFor

vars == <<timed, owner, lockQueue, popLock, waitQueue, ready, msg_queue_, isClosed_, pc, sent,
          timer, timedOut>>

lockVars == <<timed, owner, lockQueue, popLock>>
cvVars == <<waitQueue, ready>>
timerVars == <<timer, timedOut>>

Init ==
    /\ timed \in {{}, Timed}
    /\ owner = None /\ lockQueue = <<>>
    /\ popLock = None
    /\ waitQueue = [cv \in {"push", "pop"} |-> {}]
    /\ ready = [f \in Fibers |-> 0]
    /\ msg_queue_ = <<>>
    /\ isClosed_ = FALSE
    /\ pc = [f \in Fibers |-> "idle"]
    /\ sent = [f \in Producers |-> 0]
    /\ timer = [f \in Consumers |-> "none"]
    /\ timedOut = [f \in Consumers |-> FALSE]

Goto(f, from, to) == pc[f] = from /\ pc' = [pc EXCEPT ![f] = to]

\* The spin lock of a condition variable can be taken.
CvFree(cv) == cv = "push" \/ popLock = None

-----------------------------------------------------------------------------
\* The calls and the lock

\* Bound: on a closed channel only producers call, the others would be refused as well.
Call(f) ==
    /\ IF f \in Producers THEN sent[f] < MaxPushes ELSE ~isClosed_
    /\ Goto(f, "idle", "lock")
    /\ UNCHANGED <<lockVars, cvVars, msg_queue_, isClosed_, sent, timerVars>>

\* mutex_.lock(): one of the two trylocks succeeds.
Lock(f) ==
    /\ owner = None /\ popLock # f
    /\ Goto(f, "lock", "body")
    /\ owner' = f
    /\ UNCHANGED <<timed, lockQueue, popLock, cvVars, msg_queue_, isClosed_, sent, timerVars>>

\* Both fail, ...
TryFails(f) ==
    /\ owner # None
    /\ Goto(f, "lock", "enqueue")
    /\ UNCHANGED <<lockVars, cvVars, msg_queue_, isClosed_, sent, timerVars>>

\* ... and the fiber queues itself and is suspended, whatever has become of the
\* mutex meanwhile.
Enqueue(f) ==
    /\ Goto(f, "enqueue", "asleep")
    /\ lockQueue' = Append(lockQueue, f)
    /\ UNCHANGED <<timed, owner, popLock, cvVars, msg_queue_, isClosed_, sent, timerVars>>

\* mutex_.unlock(): the first of the queue is Submitted.
Release ==
    /\ owner' = None
    /\ IF lockQueue = <<>> THEN UNCHANGED <<lockQueue, ready>>
       ELSE /\ lockQueue' = Tail(lockQueue)
            /\ ready' = [ready EXCEPT ![Head(lockQueue)] = @ + 1]

\* The ScopedLock ends: the call returns.
Return(f) ==
    /\ Goto(f, "unlock", "idle")
    /\ Release
    /\ UNCHANGED <<timed, popLock, waitQueue, msg_queue_, isClosed_, sent, timerVars>>

\* push, pop and waitFor return false on a closed channel.
Refuse(f) ==
    /\ isClosed_ /\ Goto(f, "body", "unlock")
    /\ sent' = IF f \in Producers THEN [sent EXCEPT ![f] = @ + 1] ELSE sent
    /\ UNCHANGED <<lockVars, cvVars, msg_queue_, isClosed_, timerVars>>

-----------------------------------------------------------------------------
\* CoCondVar

\* notify: takes one fiber, any one since the set is ordered by address, and
\* Submits it.
NotifyOne(cv) ==
    /\ CvFree(cv)
    /\ IF waitQueue[cv] = {} THEN UNCHANGED cvVars
       ELSE \E w \in waitQueue[cv] :
               /\ waitQueue' = [waitQueue EXCEPT ![cv] = @ \ {w}]
               /\ ready' = [ready EXCEPT ![w] = @ + 1]

\* wait(lock) up to YieldToHold: under the spin lock the fiber is queued and the
\* mutex released.
WaitOn(f, cv) ==
    /\ CvFree(cv)
    /\ Goto(f, "body", "hold")
    /\ waitQueue' = [waitQueue EXCEPT ![cv] = @ \cup {f}]
    /\ Release

\* The scheduler resumes a Submitted fiber, in wait() or in lock().
Resumed(f) ==
    /\ ready[f] > 0
    /\ \/ Goto(f, "hold", IF f \in timed THEN "cvlock" ELSE "lock")
       \/ Goto(f, "asleep", "lock")
    /\ ready' = [ready EXCEPT ![f] = @ - 1]
    /\ UNCHANGED <<lockVars, waitQueue, msg_queue_, isClosed_, sent, timerVars>>

\* waitFor after YieldToHold: it takes the spin lock, cancels the timer ...
WaitForWoken(f) ==
    /\ f \in Consumers /\ popLock = None
    /\ Goto(f, "cvlock", "lock")
    /\ popLock' = f
    /\ timer' = IF ~timedOut[f] /\ timer[f] = "armed"
                THEN [timer EXCEPT ![f] = "none"] ELSE timer
    /\ UNCHANGED <<timed, owner, lockQueue, cvVars, msg_queue_, isClosed_, sent, timedOut>>

\* ... and takes the mutex before it gives the spin lock back.  A timer callback
\* that has not begun finds its condition gone.
WaitForReturns(f) ==
    /\ f \in Consumers /\ owner = None /\ popLock = f
    /\ Goto(f, "lock", IF timedOut[f] THEN "unlock" ELSE "body")
    /\ owner' = f
    /\ popLock' = None
    /\ timedOut' = [timedOut EXCEPT ![f] = FALSE]
    /\ timer' = IF timer[f] = "fired" THEN [timer EXCEPT ![f] = "none"] ELSE timer
    /\ UNCHANGED <<timed, lockQueue, cvVars, msg_queue_, isClosed_, sent>>

\* The timer expires: its callback becomes a task.
TimerExpires(f) ==
    /\ timer[f] = "armed" /\ ready[f] < MaxSubmits /\ Len(lockQueue) <= Cardinality(Fibers)
    /\ timer' = [timer EXCEPT ![f] = "fired"]
    /\ UNCHANGED <<lockVars, cvVars, msg_queue_, isClosed_, pc, sent, timedOut>>

\* onTimer locks the weak pointer: the callback runs.
TimerStarts(f) ==
    /\ timer[f] = "fired"
    /\ timer' = [timer EXCEPT ![f] = "running"]
    /\ UNCHANGED <<lockVars, cvVars, msg_queue_, isClosed_, pc, sent, timedOut>>

\* The callback takes the spin lock; onTimer's pointer keeps the condition alive,
\* so it goes on even if waitFor has returned meanwhile.
TimerCallback(f) ==
    /\ timer[f] = "running" /\ popLock = None
    /\ timer' = [timer EXCEPT ![f] = "none"]
    /\ timedOut' = IF pc[f] \in {"hold", "cvlock"}
                   THEN [timedOut EXCEPT ![f] = TRUE] ELSE timedOut
    /\ waitQueue' = [waitQueue EXCEPT !["pop"] = @ \ {f}]
    /\ ready' = [ready EXCEPT ![f] = @ + 1]
    /\ UNCHANGED <<lockVars, msg_queue_, isClosed_, pc, sent>>

-----------------------------------------------------------------------------
\* push, pop, waitFor and close inside the lock

\* Mutant: the capacity test is off by one.
RoomForOneMore == Len(msg_queue_) <= Capacity

Room == Len(msg_queue_) < Capacity

PushWait(f) ==
    /\ f \in Producers /\ ~isClosed_ /\ ~Room
    /\ WaitOn(f, "push")
    /\ UNCHANGED <<timed, popLock, msg_queue_, isClosed_, sent, timerVars>>

PushMessage(f) ==
    /\ f \in Producers /\ ~isClosed_ /\ Room
    /\ Goto(f, "body", "notify")
    /\ msg_queue_' = Append(msg_queue_, <<f, sent[f] + 1>>)
    /\ sent' = [sent EXCEPT ![f] = @ + 1]
    /\ UNCHANGED <<lockVars, cvVars, isClosed_, timerVars>>

\* pop and waitFor find the queue empty.  Bound: a fiber starts no timed wait while
\* the callback of its last one still runs.
PopWait(f) ==
    /\ f \in Consumers /\ ~isClosed_ /\ msg_queue_ = <<>>
    /\ f \in timed => timer[f] = "none"
    /\ WaitOn(f, "pop")
    /\ timer' = IF f \in timed THEN [timer EXCEPT ![f] = "armed"] ELSE timer
    /\ UNCHANGED <<timed, popLock, msg_queue_, isClosed_, sent, timedOut>>

PopMessage(f) ==
    /\ f \in Consumers /\ ~isClosed_ /\ msg_queue_ # <<>>
    /\ Goto(f, "body", "notify")
    /\ msg_queue_' = Tail(msg_queue_)
    /\ UNCHANGED <<lockVars, cvVars, isClosed_, sent, timerVars>>

\* Mutant: a call notifies the condition variable it waits on itself.
OwnCv(f) == IF f \in Producers THEN "push" ELSE "pop"

\* A push notifies popCv_, a pop notifies pushCv_.
PeerCv(f) == IF f \in Producers THEN "pop" ELSE "push"

NotifyPeer(f) ==
    /\ Goto(f, "notify", "unlock")
    /\ NotifyOne(PeerCv(f))
    /\ UNCHANGED <<lockVars, msg_queue_, isClosed_, sent, timerVars>>

\* Mutant: close wakes the consumers only.
ClosePopCvOnly == {"pop"}

\* The condition variables close() calls notifyAll on.
ClosedCvs == {"push", "pop"}

\* close: both notifyAlls run under the lock, then the queue is emptied.
CloseChannel(f) ==
    /\ f = Closer /\ ~isClosed_ /\ CvFree("pop")
    /\ Goto(f, "body", "unlock")
    /\ isClosed_' = TRUE
    /\ ready' = [g \in Fibers |->
                    ready[g] + Cardinality({cv \in ClosedCvs : g \in waitQueue[cv]})]
    /\ waitQueue' = [cv \in {"push", "pop"} |-> IF cv \in ClosedCvs THEN {} ELSE waitQueue[cv]]
    /\ msg_queue_' = <<>>
    /\ UNCHANGED <<lockVars, sent, timerVars>>

-----------------------------------------------------------------------------
Step(f) ==
    \/ Lock(f) \/ TryFails(f) \/ Enqueue(f) \/ Return(f) \/ Refuse(f) \/ Resumed(f) \/ NotifyPeer(f)
    \/ PushWait(f) \/ PushMessage(f)
    \/ PopWait(f) \/ PopMessage(f) \/ WaitForWoken(f) \/ WaitForReturns(f)
    \/ CloseChannel(f)

TimerStep(f) == TimerExpires(f) \/ TimerStarts(f) \/ TimerCallback(f)

Next ==
    \/ \E f \in Fibers : Call(f) \/ Step(f)
    \/ \E f \in Consumers : TimerStep(f)

Spec == Init /\ [][Next]_vars

\* Fibers that can run do, timers expire and their callbacks run.  Nothing is assumed
\* about who gets the mutex.
FairSpec ==
    /\ Spec
    /\ \A f \in Fibers : WF_vars(Step(f))
    /\ \A f \in Consumers : WF_vars(TimerStep(f))

-----------------------------------------------------------------------------
\* Properties

Q == INSTANCE BoundedQueue WITH queue <- msg_queue_, closed <- isClosed_

\* The channel is a bounded first-in first-out queue that refuses everything once it
\* is closed, however pushes, pops, timeouts and the close interleave around the
\* waits (channel.h:13-78).
ImplementsBoundedQueue == Q!Spec

\* A fiber sleeps in the queue of mutex_, which is free, and nobody has Submitted it:
\* it queued itself after the last unlock() (mutex.cc:13-22).
LockLost == owner = None /\ \E f \in Fibers : pc[f] = "asleep" /\ ready[f] = 0

\* No consumer suspended in pop() sleeps beside a message and no producer suspended in
\* push() beside a free slot: no notify is lost between the test of the queue and the
\* wait, or taken by a fiber that has no use for it (channel.h:16-35).  For channels
\* without timed pops.  The one way to strand a message is the lost wake-up of CoMutex,
\* which then lasts for ever.
NoStranded ==
    \/ <>[]LockLost
    \/ /\ \A f \in Consumers :
            (timed = {} /\ pc[f] = "hold" /\ msg_queue_ # <<>>) ~>
                (pc[f] # "hold" \/ msg_queue_ = <<>>)
       /\ \A f \in Producers :
            (timed = {} /\ pc[f] = "hold" /\ Len(msg_queue_) < Capacity) ~>
                (pc[f] # "hold" \/ Len(msg_queue_) = Capacity)

\* close() ends every call: nobody stays suspended on a closed channel
\* (channel.h:69-78), timed pops excepted, unless CoMutex has lost a wake-up for good.
CloseReleasesAll ==
    \/ <>[]LockLost
    \/ \A f \in Fibers : (timed = {} /\ isClosed_) ~> (pc[f] = "idle")

\* waitFor returns: channel.h:38 says that it waits time_ms and reads the channel.  The
\* lost wake-up of CoMutex apart, which the property excuses.
WaitForEnds ==
    \/ <>[]LockLost
    \/ \A f \in Consumers : (f \in timed /\ pc[f] = "hold") ~> (pc[f] = "idle")
=============================================================================
