----------------------------- MODULE Scheduler -----------------------------
(***************************************************************************)
(* The fiber scheduler: Scheduler::Run on every worker thread, the shared  *)
(* tasks_ list, the Fiber state machine that Resume / YieldToHold /        *)
(* YieldToReady / MainFunc drive, the idle fiber (IOManager::Wait), the    *)
(* wake-up pipe (IOManager::Notify) and the shutdown of ~IOManager.        *)
(*                                                                         *)
(* One step is one critical section or one access to shared state.  The    *)
(* body of a task is abstract: it may suspend (someone else holds a        *)
(* pointer to the fiber and Submits it later), give up the thread, end or  *)
(* throw.  The yield of the code is two steps, as in fiber.cc: state_ is   *)
(* assigned first, the stack leaves the thread later, in swapcontext.      *)
(***************************************************************************)
EXTENDS Integers, Sequences, FiniteSets, SequencesExt

CONSTANTS
    Workers,        \* the threads a scheduler may be constructed with
    Callbacks,      \* the std::function tasks clients submit, each one once
    MaxFibers,      \* bound: Fiber objects constructed for callbacks
    MaxYields,      \* bound: how often the body of one callback yields
    WaitKinds,      \* what bodies wait for: the "queue" of a CoMutex, a "condvar",
                    \* an epoll "event" or a "timer"
    None            \* nullptr, and thread -1 of a task

ASSUME SchedulerAssumption ==
    /\ IsFiniteSet(Workers) /\ Workers # {}
    /\ IsFiniteSet(Callbacks)
    /\ MaxFibers \in Nat
    /\ MaxYields \in Nat
    /\ WaitKinds \subseteq {"queue", "condvar", "event", "timer"}
    /\ None \notin Workers \cup Callbacks \cup Nat

VARIABLES
    workers,    \* the threads Start() created: threadCount_ of them
    stop_,      \* Scheduler::stop_
    tasks_,     \* Scheduler::tasks_
    state_,     \* Fiber::state_: INIT, HOLD, EXEC, TERM, READY or EXCEPT; "NEW"
                \* before the construction
    func_,      \* Fiber::func_, None when empty
    s_fiber_id, \* the last Fiber::id_ given out
    waiting,    \* what a waker that holds a pointer to the fiber holds it for
    pc,         \* where each worker is in Run
    task,       \* Run's local task
    cached,     \* Run's local fiber: reused for callbacks
    cur,        \* the fiber whose stack the worker executes on
    idleTerm,   \* the worker's idle fiber has reached TERM
    pipe,       \* the pipe has an edge that epoll_wait has not reported yet
    phase,      \* progress of every callback
    yields,     \* how often its body has yielded
    dtor,       \* progress of ~IOManager on the owning thread
    aborted     \* which assertion ended the process, "no" while none has

vars == <<workers, stop_, tasks_, state_, func_, s_fiber_id, waiting, pc, task,
          cached, cur, idleTerm, pipe, phase, yields, dtor, aborted>>

Fibers == 1 .. MaxFibers

\* ScheduleTask: a fiber or a function, and the thread it is pinned to.
Tasks == [fiber : Fibers \cup {None}, func : Callbacks \cup {None},
          thread : Workers \cup {None}]

\* What SubmitNoLock lets into tasks_ and Run's RPC_ASSERT( *it ) relies on.
RealTasks == {k \in Tasks : k.fiber # None \/ k.func # None}

NoTask == [fiber |-> None, func |-> None, thread |-> None]

FiberTask(f) == [fiber |-> f, func |-> None, thread |-> None]

CallbackTask(c, th) == [fiber |-> None, func |-> c, thread |-> th]

-----------------------------------------------------------------------------
\* Derived state

\* activeThreads_: between ++activeThreads_ and --activeThreads_.
ActiveThreads == {t \in Workers : pc[t] \in {"resume", "run", "armed", "swap"}}

\* idleThreads_: inside the idle fiber.
IdleThreads == {t \in Workers : pc[t] \in {"epoll", "epollForever"}}

\* The fiber the worker is about to resume, runs, or has just run.
Target(t) == IF task[t].fiber # None THEN task[t].fiber ELSE cached[t]

InQueue(f) == \E i \in 1 .. Len(tasks_) : tasks_[i].fiber = f

OnCpu(f) == \E t \in Workers : cur[t] = f

WaitsFor(kind) == \E f \in Fibers : waiting[f] = kind

\* A condition variable with a waiter owns a timer UINT32_MAX ms away; every fiber
\* that waits here waits on a condition variable of its own.
KeepAliveTimer == WaitsFor("condvar")

\* One stack executed by two threads, or re-initialised under a thread that
\* executes on it: behaviour is undefined from here on.
Corrupted ==
    \/ \E t, u \in Workers : t # u /\ cur[t] # None /\ cur[t] = cur[u]
    \/ \E t \in Workers : cur[t] # None /\ state_[cur[t]] = "INIT"

Running == aborted = "no" /\ ~Corrupted

\* The worker is at a point of Run, and the process is still running.
At(t, where) == pc[t] = where /\ Running

\* What keeps IOManager::Stopping false besides the scheduler: pendingEventCount_ is
\* not 0 or there is a timer.
EventOrTimer == WaitsFor("event") \/ WaitsFor("timer") \/ KeepAliveTimer

\* IOManager::Stopping.
Stopping == stop_ /\ tasks_ = <<>> /\ ActiveThreads = {} /\ ~EventOrTimer

-----------------------------------------------------------------------------
Init ==
    /\ workers \in (SUBSET Workers) \ {{}}
    /\ stop_ = FALSE
    /\ tasks_ = <<>>
    /\ state_ = [f \in Fibers |-> "NEW"]
    /\ func_ = [f \in Fibers |-> None]
    /\ s_fiber_id = 0
    /\ waiting = [f \in Fibers |-> "no"]
    /\ pc = [t \in Workers |-> IF t \in workers THEN "scan" ELSE "unused"]
    /\ task = [t \in Workers |-> NoTask]
    /\ cached = [t \in Workers |-> None]
    /\ cur = [t \in Workers |-> None]
    /\ idleTerm = [t \in Workers |-> FALSE]
    /\ pipe = FALSE
    /\ phase = [c \in Callbacks |-> "unsubmitted"]
    /\ yields = [c \in Callbacks |-> 0]
    /\ dtor = "alive"
    /\ aborted = "no"

\* IOManager::Notify: a byte is written only when some thread is idle.
Notify == pipe' = (pipe \/ IdleThreads # {})

\* Scheduler::Submit of an existing fiber or a function: the push under mutex_ and
\* the Notify that follows when tasks_ was empty.
Enqueue(k) ==
    /\ tasks_' = Append(tasks_, k)
    /\ IF tasks_ = <<>> THEN Notify ELSE UNCHANGED pipe

\* A client thread or a running body submits a function.
Submit(c, th) ==
    /\ phase[c] = "unsubmitted" /\ dtor = "alive" /\ Running
    /\ phase' = [phase EXCEPT ![c] = "submitted"]
    /\ Enqueue(CallbackTask(c, th))
    /\ UNCHANGED <<workers, stop_, state_, func_, s_fiber_id, waiting, pc, task,
                   cached, cur, idleTerm, yields, dtor, aborted>>

\* Whoever holds the pointer of a suspending fiber takes it out of its queue
\* and Submits it.  (CoCondVar::notify cancels the keep-alive timer as well.)  Events
\* and timers are seen by the workers only.
Wake(f) ==
    /\ waiting[f] # "no" /\ dtor # "done" /\ Running
    /\ waiting[f] \in {"event", "timer"} => \E t \in workers : pc[t] # "exited"
    /\ waiting' = [waiting EXCEPT ![f] = "no"]
    /\ Enqueue(FiberTask(f))
    /\ UNCHANGED <<workers, stop_, state_, func_, s_fiber_id, pc, task, cached,
                   cur, idleTerm, phase, yields, dtor, aborted>>

-----------------------------------------------------------------------------
\* The worker loop

PinnedElsewhere(t, k) == k.thread \notin {None, t}

\* Mutant: only fibers that were never resumed are taken.
SkippedSuspended(t, k) ==
    PinnedElsewhere(t, k) \/ (k.fiber # None /\ state_[k.fiber] \in {"EXEC", "HOLD"})

Skipped(t, k) ==
    PinnedElsewhere(t, k) \/ (k.fiber # None /\ state_[k.fiber] = "EXEC")

\* Run leaves its loop: stop_ is set.
Leave(t) ==
    /\ At(t, "scan") /\ stop_
    /\ pc' = [pc EXCEPT ![t] = "exited"]
    /\ UNCHANGED <<workers, stop_, tasks_, state_, func_, s_fiber_id, waiting,
                   task, cached, cur, idleTerm, pipe, phase, yields, dtor, aborted>>

\* Mutant: pop_front in place of erase(it).
EraseFront(i) == Tail(tasks_)

Erase(i) == RemoveAt(tasks_, i)

\* Under mutex_, the first task that is not skipped is copied and erased; the
\* iterator then differs from end(), so the next thread is tickled.
TakeTask(t) ==
    /\ At(t, "scan") /\ ~stop_
    /\ \E i \in 1 .. Len(tasks_) :
          /\ ~Skipped(t, tasks_[i])
          /\ \A j \in 1 .. i - 1 : Skipped(t, tasks_[j])
          /\ task' = [task EXCEPT ![t] = tasks_[i]]
          /\ tasks_' = Erase(i)
    /\ pc' = [pc EXCEPT ![t] = "tickle"]
    /\ UNCHANGED <<workers, stop_, state_, func_, s_fiber_id, waiting, cached,
                   cur, idleTerm, pipe, phase, yields, dtor, aborted>>

\* Nothing for this thread: it tickles when it passed over a pinned task.
FindNothing(t) ==
    /\ At(t, "scan") /\ ~stop_
    /\ \A i \in 1 .. Len(tasks_) : Skipped(t, tasks_[i])
    /\ pc' = [pc EXCEPT ![t] =
                 IF \E i \in 1 .. Len(tasks_) : PinnedElsewhere(t, tasks_[i])
                 THEN "tickle" ELSE "dispatch"]
    /\ UNCHANGED <<workers, stop_, tasks_, state_, func_, s_fiber_id, waiting,
                   task, cached, cur, idleTerm, pipe, phase, yields, dtor, aborted>>

Tickle(t) ==
    /\ At(t, "tickle")
    /\ Notify
    /\ pc' = [pc EXCEPT ![t] = "dispatch"]
    /\ UNCHANGED <<workers, stop_, tasks_, state_, func_, s_fiber_id, waiting,
                   task, cached, cur, idleTerm, phase, yields, dtor, aborted>>

\* A fiber task that has not ended is resumed; one that has is dropped and the
\* worker goes idle.
DispatchFiber(t) ==
    /\ At(t, "dispatch") /\ task[t].fiber # None
    /\ IF state_[task[t].fiber] \in {"TERM", "EXCEPT"}
       THEN /\ pc' = [pc EXCEPT ![t] = "idle"]
            /\ task' = [task EXCEPT ![t] = NoTask]
       ELSE /\ pc' = [pc EXCEPT ![t] = "resume"]
            /\ UNCHANGED task
    /\ UNCHANGED <<workers, stop_, tasks_, state_, func_, s_fiber_id, waiting,
                   cached, cur, idleTerm, pipe, phase, yields, dtor, aborted>>

\* A function runs on the thread's cached fiber (Fiber::Reset, which asserts
\* that it is not in use), or on a fiber constructed for it.
DispatchCallback(t) ==
    /\ At(t, "dispatch") /\ task[t].func # None
    /\ \/ /\ cached[t] = None /\ s_fiber_id < MaxFibers
          /\ s_fiber_id' = s_fiber_id + 1
          /\ cached' = [cached EXCEPT ![t] = s_fiber_id']
          /\ UNCHANGED aborted
       \/ /\ cached[t] # None
          /\ aborted' = IF state_[cached[t]] \in {"INIT", "TERM", "EXCEPT"}
                        THEN aborted ELSE "reset"
          /\ UNCHANGED <<s_fiber_id, cached>>
    /\ state_' = [state_ EXCEPT ![cached'[t]] = "INIT"]
    /\ func_' = [func_ EXCEPT ![cached'[t]] = task[t].func]
    /\ task' = [task EXCEPT ![t] = NoTask]
    /\ pc' = [pc EXCEPT ![t] = "resume"]
    /\ UNCHANGED <<workers, stop_, tasks_, waiting, cur, idleTerm, pipe, phase,
                   yields, dtor>>

DispatchNothing(t) ==
    /\ At(t, "dispatch") /\ task[t] = NoTask
    /\ pc' = [pc EXCEPT ![t] = "idle"]
    /\ UNCHANGED <<workers, stop_, tasks_, state_, func_, s_fiber_id, waiting,
                   task, cached, cur, idleTerm, pipe, phase, yields, dtor, aborted>>

\* Fiber::Resume: asserts state_ # EXEC, marks the fiber EXEC and switches to
\* its stack.  The first resumption enters the body.  A fiber without a function
\* has ended, or was Reset(nullptr): MainFunc returns with no uc_link, or calls an
\* empty function; neither survives.
Resume(t) ==
    /\ At(t, "resume")
    /\ LET f == Target(t) IN
       IF state_[f] = "EXEC" \/ func_[f] = None
       THEN /\ aborted' = IF state_[f] = "EXEC" THEN "resume" ELSE "ended"
            /\ UNCHANGED <<pc, state_, cur, phase>>
       ELSE /\ state_' = [state_ EXCEPT ![f] = "EXEC"]
            /\ cur' = [cur EXCEPT ![t] = f]
            /\ phase' = [phase EXCEPT ![func_[f]] = "started"]
            /\ pc' = [pc EXCEPT ![t] = "run"]
            /\ UNCHANGED aborted
    /\ UNCHANGED <<workers, stop_, tasks_, func_, s_fiber_id, waiting, task,
                   cached, idleTerm, pipe, yields, dtor>>

\* A timer that is inserted in front notifies.  The keep-alive timer is behind all
\* others, an ordinary one may be.
Notifies(why) ==
    CASE why = "condvar" -> {~KeepAliveTimer /\ ~WaitsFor("timer")}
      [] why = "timer"   -> {TRUE, ~WaitsFor("timer")}
      [] OTHER           -> {FALSE}

\* The body hands a pointer to its fiber to a waker: the queue of a CoMutex, a
\* CoCondVar, whose first waiter adds the keep-alive timer, the context of an epoll
\* event (a hooked socket call) or the callback of a timer (a hooked sleep).
Arm(t, why) ==
    /\ At(t, "run") /\ yields[func_[cur[t]]] < MaxYields
    /\ waiting' = [waiting EXCEPT ![cur[t]] = why]
    /\ pc' = [pc EXCEPT ![t] = "armed"]
    /\ yields' = [yields EXCEPT ![func_[cur[t]]] = @ + 1]
    /\ \E notifies \in Notifies(why) : IF notifies THEN Notify ELSE UNCHANGED pipe
    /\ UNCHANGED <<workers, stop_, tasks_, state_, func_, s_fiber_id, task, cached,
                   cur, idleTerm, phase, dtor, aborted>>

\* Fiber::YieldToHold up to swapcontext: state_ changes, the stack stays.
YieldToHold(t) ==
    /\ At(t, "armed")
    /\ state_' = [state_ EXCEPT ![cur[t]] = "HOLD"]
    /\ pc' = [pc EXCEPT ![t] = "swap"]
    /\ UNCHANGED <<workers, stop_, tasks_, func_, s_fiber_id, waiting, task, cached,
                   cur, idleTerm, pipe, phase, yields, dtor, aborted>>

\* Fiber::YieldToReady up to swapcontext.
YieldToReady(t) ==
    /\ At(t, "run") /\ yields[func_[cur[t]]] < MaxYields
    /\ state_' = [state_ EXCEPT ![cur[t]] = "READY"]
    /\ yields' = [yields EXCEPT ![func_[cur[t]]] = @ + 1]
    /\ pc' = [pc EXCEPT ![t] = "swap"]
    /\ UNCHANGED <<workers, stop_, tasks_, func_, s_fiber_id, waiting, task, cached,
                   cur, idleTerm, pipe, phase, dtor, aborted>>

\* The body returns to MainFunc, which clears func_, sets TERM and yields.
Finish(t) ==
    /\ At(t, "run")
    /\ state_' = [state_ EXCEPT ![cur[t]] = "TERM"]
    /\ func_' = [func_ EXCEPT ![cur[t]] = None]
    /\ phase' = [phase EXCEPT ![func_[cur[t]]] = "finished"]
    /\ pc' = [pc EXCEPT ![t] = "swap"]
    /\ UNCHANGED <<workers, stop_, tasks_, s_fiber_id, waiting, task, cached, cur,
                   idleTerm, pipe, yields, dtor, aborted>>

\* The body throws: MainFunc sets EXCEPT and fails its own assertion.
Throw(t) ==
    /\ At(t, "run")
    /\ state_' = [state_ EXCEPT ![cur[t]] = "EXCEPT"]
    /\ aborted' = "exception"
    /\ UNCHANGED <<workers, stop_, tasks_, func_, s_fiber_id, waiting, pc, task,
                   cached, cur, idleTerm, pipe, phase, yields, dtor>>

\* swapcontext back to the thread's main fiber: Resume returns into Run.
SwapOut(t) ==
    /\ At(t, "swap")
    /\ cur' = [cur EXCEPT ![t] = None]
    /\ pc' = [pc EXCEPT ![t] = "after"]
    /\ UNCHANGED <<workers, stop_, tasks_, state_, func_, s_fiber_id, waiting, task,
                   cached, idleTerm, pipe, phase, yields, dtor, aborted>>

\* Mutant: only a fiber that ended is submitted again.
ResubmitsEnded(f) == state_[f] = "TERM"

Resubmits(f) == state_[f] = "READY"

\* Mutant: the cached fiber is not let go when it is suspended.
KeepsCached(t) == TRUE

\* A callback's fiber stays cached when it has ended; otherwise it is let go, and
\* whoever wakes it submits it as a fiber of its own.
Recycles(t) == state_[cached[t]] \in {"TERM", "EXCEPT"}

\* Run reads state_ again after Resume: a READY fiber is submitted again, a
\* callback's ended fiber is Reset(nullptr) for reuse.
AfterResume(t) ==
    /\ At(t, "after")
    /\ LET f == Target(t)
           own == task[t].fiber = None IN
       /\ IF Resubmits(f) THEN Enqueue(FiberTask(f)) ELSE UNCHANGED <<tasks_, pipe>>
       /\ cached' = IF own /\ ~Recycles(t) THEN [cached EXCEPT ![t] = None] ELSE cached
       /\ IF own /\ state_[f] \in {"TERM", "EXCEPT"}
          THEN /\ state_' = [state_ EXCEPT ![f] = "INIT"]
               /\ func_' = [func_ EXCEPT ![f] = None]
          ELSE UNCHANGED <<state_, func_>>
    /\ task' = [task EXCEPT ![t] = NoTask]
    /\ pc' = [pc EXCEPT ![t] = "scan"]
    /\ UNCHANGED <<workers, stop_, s_fiber_id, waiting, cur, idleTerm, phase,
                   yields, dtor, aborted>>

\* Mutant: epoll_wait without the MAX_TIMEROUT cap.
EpollUncapped == "epollForever"

\* The timeout of epoll_wait.  UINT32_MAX ms, narrowed to int, is negative, so with
\* the keep-alive timer alone there is none.
EpollKind == IF KeepAliveTimer /\ ~WaitsFor("timer") THEN "epollForever" ELSE "epoll"

\* The idle branch: a thread whose idle fiber ended leaves; otherwise the idle
\* fiber runs IOManager::Wait up to epoll_wait.
Idle(t) ==
    /\ At(t, "idle")
    /\ pc' = [pc EXCEPT ![t] = CASE idleTerm[t] -> "exited"
                                 [] Stopping    -> "scan"
                                 [] OTHER       -> EpollKind]
    /\ idleTerm' = [idleTerm EXCEPT ![t] = @ \/ Stopping]
    /\ UNCHANGED <<workers, stop_, tasks_, state_, func_, s_fiber_id, waiting, task,
                   cached, cur, pipe, phase, yields, dtor, aborted>>

\* epoll_wait reports the pipe's edge; the thread drains the pipe and yields.
EpollWoken(t) ==
    /\ (At(t, "epoll") \/ At(t, "epollForever")) /\ pipe
    /\ pipe' = FALSE
    /\ pc' = [pc EXCEPT ![t] = "scan"]
    /\ UNCHANGED <<workers, stop_, tasks_, state_, func_, s_fiber_id, waiting, task,
                   cached, cur, idleTerm, phase, yields, dtor, aborted>>

\* Mutant: Wait polls again and does not yield to Run.
EpollTimeoutNoYield(t) ==
    /\ At(t, "epoll")
    /\ pc' = [pc EXCEPT ![t] = "idle"]
    /\ UNCHANGED <<workers, stop_, tasks_, state_, func_, s_fiber_id, waiting, task,
                   cached, cur, idleTerm, pipe, phase, yields, dtor, aborted>>

\* epoll_wait times out: at most MAX_TIMEROUT ms have passed.
EpollTimeout(t) ==
    /\ At(t, "epoll")
    /\ pc' = [pc EXCEPT ![t] = "scan"]
    /\ UNCHANGED <<workers, stop_, tasks_, state_, func_, s_fiber_id, waiting, task,
                   cached, cur, idleTerm, pipe, phase, yields, dtor, aborted>>

-----------------------------------------------------------------------------
\* ~IOManager: stop_ is set, Stopping() is polled, then Stop() notifies every
\* thread and joins them.

DtorBegin ==
    /\ Running /\ dtor = "alive"
    /\ stop_' = TRUE
    /\ dtor' = "polling"
    /\ UNCHANGED <<workers, tasks_, state_, func_, s_fiber_id, waiting, pc, task,
                   cached, cur, idleTerm, pipe, phase, yields, aborted>>

DtorStop ==
    /\ Running /\ dtor = "polling" /\ Stopping
    /\ dtor' = "joining"
    /\ Notify
    /\ UNCHANGED <<workers, stop_, tasks_, state_, func_, s_fiber_id, waiting, pc,
                   task, cached, cur, idleTerm, phase, yields, aborted>>

DtorJoined ==
    /\ Running /\ dtor = "joining" /\ \A t \in workers : pc[t] = "exited"
    /\ dtor' = "done"
    /\ UNCHANGED <<workers, stop_, tasks_, state_, func_, s_fiber_id, waiting, pc,
                   task, cached, cur, idleTerm, pipe, phase, yields, aborted>>

-----------------------------------------------------------------------------
\* Run's own steps, from one task to the next.
RunStep(t) ==
    \/ Leave(t) \/ TakeTask(t) \/ FindNothing(t) \/ Tickle(t)
    \/ DispatchFiber(t) \/ DispatchCallback(t) \/ DispatchNothing(t)
    \/ Resume(t) \/ SwapOut(t) \/ AfterResume(t) \/ Idle(t)

\* The steps of the body that runs on the worker.
BodyStep(t) ==
    \/ \E why \in WaitKinds : Arm(t, why)
    \/ YieldToHold(t) \/ YieldToReady(t) \/ Finish(t) \/ Throw(t)

Next ==
    \/ \E c \in Callbacks, th \in workers \cup {None} : Submit(c, th)
    \/ \E f \in Fibers : Wake(f)
    \/ \E t \in Workers : RunStep(t) \/ BodyStep(t) \/ EpollWoken(t) \/ EpollTimeout(t)
    \/ DtorBegin \/ DtorStop \/ DtorJoined

Spec == Init /\ [][Next]_vars

\* Threads are scheduled by the kernel, bodies return, and epoll_wait returns
\* when it has an event or its timeout has passed.  Wakers and clients owe
\* nothing.
FairSpec ==
    /\ Spec
    /\ \A t \in Workers :
          /\ WF_vars(RunStep(t))
          /\ WF_vars(BodyStep(t))
          /\ WF_vars(EpollWoken(t) \/ EpollTimeout(t))
    /\ WF_vars(DtorStop \/ DtorJoined)

-----------------------------------------------------------------------------
\* Properties

\* No submitted work vanishes: a callback that has not started is in tasks_, in a
\* worker's hands or bound to a fiber about to be resumed; the fiber of one that has
\* started is running, queued, taken, known to a waker, or about to be submitted
\* again.  About Submit, Run's copy-and-erase, the READY re-submission and the
\* hand-over of callbacks to cached fibers (scheduler.cc:78-133).  What is in tasks_
\* is a fiber or a function, as RPC_ASSERT( *it ) in Run's scan demands (line 86).
NoTaskLost ==
    /\ tasks_ \in Seq(RealTasks)
    /\ \A c \in Callbacks :
           /\ phase[c] = "submitted" =>
                 \/ \E i \in 1 .. Len(tasks_) : tasks_[i].func = c
                 \/ \E t \in Workers : task[t].func = c
                 \/ \E t \in Workers : pc[t] = "resume" /\ func_[Target(t)] = c
           /\ phase[c] = "started" =>
                 \E f \in Fibers :
                    /\ func_[f] = c
                    /\ \/ OnCpu(f) \/ InQueue(f) \/ waiting[f] # "no"
                       \/ \E t \in Workers : Target(t) = f /\ pc[t] \in
                             {"tickle", "dispatch", "resume"}
                       \/ \E t \in Workers : Target(t) = f /\ pc[t] = "after"
                                            /\ state_[f] = "READY"

\* A submitted function is run by one fiber only, whichever workers race for it: the
\* places that may still start it (queue entries, workers' hands, fibers bound to it)
\* never number more than one.  About the erase under mutex_ and the Reset of cached
\* fibers.
CallbackOnce ==
    \A c \in Callbacks :
        Cardinality({i \in 1 .. Len(tasks_) : tasks_[i].func = c})
      + Cardinality({t \in Workers : task[t].func = c})
      + Cardinality({f \in Fibers : func_[f] = c}) <= 1

\* On a scheduler with one worker thread the yield protocol is sound: no stack is
\* entered twice, no ended fiber is resumed, and no assertion of Resume or Reset fails, however wake-ups
\* from other threads interleave with the yield (fiber.cc:95, 115, 131-135).
SingleWorkerSafe ==
    Cardinality(workers) = 1 => ~Corrupted /\ aborted \notin {"resume", "reset", "ended"}

\* With any number of workers a fiber's stack is executed by one thread at a time:
\* fiber.h:28 asks that a fiber be resumed only while it is not executing.
OneThreadPerStack == ~Corrupted

\* Every submitted function starts, unless the manager is destroyed or the process
\* ends: pinned tasks, skipped tasks and tasks submitted while a worker is between
\* its empty scan and epoll_wait included (scheduler.cc:80-141, io_manager.cc:325).
CallbackRuns ==
    \A c \in Callbacks :
        phase[c] = "submitted" ~> (phase[c] # "submitted" \/ stop_ \/ ~Running)

\* A fiber that was woken gets a thread again, unless it has ended meanwhile.
WokenFiberRuns ==
    \A f \in Fibers :
        InQueue(f) ~> (OnCpu(f) \/ state_[f] \in {"TERM", "INIT"} \/ stop_ \/ ~Running)

\* The workers leave as soon as stop_ is set, so tasks may be left behind, and fibers
\* whose event or timer nobody is left to see.
Stranded ==
    /\ tasks_ # <<>> \/ EventOrTimer
    /\ \A t \in workers : pc[t] = "exited"

\* ~IOManager returns, or polls Stopping() for ever over a task, a pending event or a
\* timer that no worker is left to take care of (io_manager.cc:32-36, 333-337,
\* scheduler.cc:48-58, 73).  What it may leave undone when it returns, a READY fiber that
\* is Submitted after the last Stopping(), is not the subject.
DtorReturnsOrStrands ==
    (dtor = "polling") ~> (dtor = "done" \/ Stranded \/ ~Running)
=============================================================================
