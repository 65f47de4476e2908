---------------------------- MODULE TimerManager ----------------------------
(***************************************************************************)
(* TimerManager and Timer (src/timer.cc), the threads that sleep in        *)
(* IOManager::Wait until the next timer is due, and the pipe that wakes    *)
(* one of them when a nearer timer is inserted.                            *)
(*                                                                         *)
(* What is done under mutex_ is one step.  The clock advances between any  *)
(* two steps, so a value read from it may be stale when it is used.        *)
(* Periods stay below 2^31 ms: what becomes of the UINT32_MAX ms of the    *)
(* keep-alive timer is part of Scheduler (EpollKind).                      *)
(***************************************************************************)
EXTENDS Integers, FiniteSets, FiniteSetsExt

CONSTANTS
    Timers,         \* the timer objects, named by their addresses
    Threads,        \* the worker threads
    Recurring,      \* those that are constructed with recurring = true
    Periods,        \* the values of ms clients pass
    ResetPeriods,   \* the values of ms and of from_now they pass to reset()
    FromNow,
    Cap,            \* MAX_TIMEROUT of Wait
    MaxTime,        \* bound: the clock stops here
    MaxNotifies     \* bound: onTimerInsertedAtFront calls under way at once

ASSUME TimerAssumption ==
    /\ Timers \subseteq Nat /\ IsFiniteSet(Timers)
    /\ Recurring \subseteq Timers
    /\ IsFiniteSet(Threads)
    /\ ResetPeriods \subseteq Periods /\ FromNow \subseteq BOOLEAN
    /\ Periods \subseteq Nat /\ Periods # {} /\ IsFiniteSet(Periods)
    /\ Cap \in Nat /\ MaxTime \in Nat /\ MaxNotifies \in Nat

VARIABLES
    now,        \* GetCurrentMS()
    timers_,    \* TimerManager::timers_
    ms_, next_, callback_,  \* the members; callback_: it is not null
    phase,      \* "none", "made" (constructed, still private), "known"
    notifying,  \* threads between the unlock of mutex_ and Notify
    pipe,       \* the pipe has an edge that epoll_wait has not reported yet
    pc,         \* where each thread is in Run and Wait
    curr,       \* local of listOverTimeCallback
    deadline,   \* when the epoll_wait of the thread times out
    fired,      \* history: how often its callback was handed to Submit
    cancelled   \* history: cancel() has returned true

timerVars == <<timers_, ms_, next_, callback_, phase, cancelled>>
threadVars == <<pc, curr, deadline>>
vars == <<now, timerVars, notifying, pipe, threadVars, fired>>

Init ==
    /\ now = 0
    /\ timers_ = {}
    /\ ms_ = [t \in Timers |-> 0]
    /\ next_ = [t \in Timers |-> 0]
    /\ callback_ = [t \in Timers |-> FALSE]
    /\ phase = [t \in Timers |-> "none"]
    /\ notifying = 0
    /\ pipe = FALSE
    /\ pc = [p \in Threads |-> "run"]
    /\ curr = [p \in Threads |-> 0]
    /\ deadline = [p \in Threads |-> 0]
    /\ fired = [t \in Timers |-> 0]
    /\ cancelled = [t \in Timers |-> FALSE]

\* Threads inside the idle fiber.
IdleThreads == {p \in Threads : pc[p] \in {"idle", "epoll", "clock", "list"}}

\* Timer::Comparator, for the values next_ is about to have.
Before(next, t, u) == next[t] < next[u] \/ (next[t] = next[u] /\ t < u)

\* Mutant: only the first timer of all is announced.
OnlyOne(next, t) == timers_ \ {t} = {}

\* it == timers_.begin() after the insertion of t.
AtFront(next, t) == \A u \in timers_ \ {t} : Before(next, t, u)

\* addTimer(timer, lock): insert, unlock, then Notify if the timer is in front.
Insert(t, next) ==
    /\ timers_' = timers_ \cup {t}
    /\ notifying' = notifying + (IF AtFront(next, t) THEN 1 ELSE 0)
    /\ notifying' <= MaxNotifies

-----------------------------------------------------------------------------
\* The operations of clients

\* addTimer(ms, callback, recurring): the constructor reads the clock ...
Construct(t, ms) ==
    /\ phase[t] = "none"
    /\ phase' = [phase EXCEPT ![t] = "made"]
    /\ ms_' = [ms_ EXCEPT ![t] = ms]
    /\ next_' = [next_ EXCEPT ![t] = now + ms]
    /\ callback_' = [callback_ EXCEPT ![t] = TRUE]
    /\ UNCHANGED <<now, timers_, notifying, pipe, threadVars, fired, cancelled>>

\* ... and the timer is inserted under the lock.
AddTimer(t) ==
    /\ phase[t] = "made"
    /\ phase' = [phase EXCEPT ![t] = "known"]
    /\ Insert(t, next_)
    /\ UNCHANGED <<now, ms_, next_, callback_, pipe, threadVars,
                   fired, cancelled>>

\* Timer::cancel.  Without a callback it returns false.
Cancel(t) ==
    /\ phase[t] = "known" /\ callback_[t]
    /\ callback_' = [callback_ EXCEPT ![t] = FALSE]
    /\ timers_' = timers_ \ {t}
    /\ cancelled' = [cancelled EXCEPT ![t] = TRUE]
    /\ UNCHANGED <<now, ms_, next_, phase, notifying, pipe,
                   threadVars, fired>>

\* Timer::refresh: counts from now again, and notifies nobody.
Refresh(t) ==
    /\ phase[t] = "known" /\ callback_[t] /\ t \in timers_
    /\ next_' = [next_ EXCEPT ![t] = now + ms_[t]]
    /\ UNCHANGED <<now, timers_, ms_, callback_, phase, notifying,
                   pipe, threadVars, fired, cancelled>>

\* Mutant: a timer that has fired or was cancelled is reset as well.
Resettable(t, ms, from_now) == ms_[t] # ms \/ from_now

\* Timer::reset goes past its two early returns.
Resets(t, ms, from_now) == (ms_[t] # ms \/ from_now) /\ callback_[t]

\* Timer::reset.  Counted from the old start, which is computed with the new ms, the
\* deadline stays what it was.
Reset(t, ms, from_now) ==
    /\ phase[t] = "known" /\ Resets(t, ms, from_now)
    /\ LET start == IF from_now THEN now ELSE next_[t] - ms IN
       next_' = [next_ EXCEPT ![t] = start + ms]
    /\ ms_' = [ms_ EXCEPT ![t] = ms]
    /\ Insert(t, next_')
    /\ UNCHANGED <<now, callback_, phase, pipe, threadVars, fired,
                   cancelled>>

\* IOManager::Notify: a byte is written only when some thread is idle.
Notify == pipe' = (pipe \/ IdleThreads # {})

\* onTimerInsertedAtFront, after the lock was given back.
NotifyFront ==
    /\ notifying > 0
    /\ notifying' = notifying - 1
    /\ Notify
    /\ UNCHANGED <<now, timerVars, threadVars, fired>>

-----------------------------------------------------------------------------
\* The threads

Goto(p, from, to) == pc[p] = from /\ pc' = [pc EXCEPT ![p] = to]

\* Run takes a task, wakes another thread and runs the task.
Take(p) ==
    /\ Goto(p, "run", "tickle")
    /\ UNCHANGED <<now, timerVars, notifying, pipe, curr, deadline, fired>>

Tickle(p) ==
    /\ Goto(p, "tickle", "busy")
    /\ Notify
    /\ UNCHANGED <<now, timerVars, notifying, curr, deadline, fired>>

Done(p) ==
    /\ Goto(p, "busy", "run")
    /\ UNCHANGED <<now, timerVars, notifying, pipe, curr, deadline, fired>>

\* Run finds no task: ++idleThreads_.
GoIdle(p) ==
    /\ Goto(p, "run", "idle")
    /\ UNCHANGED <<now, timerVars, notifying, pipe, curr, deadline, fired>>

\* Mutant: the ~0ull of an empty set is not tested for and is -1 as an int.
WaitTimeUntested ==
    IF timers_ = {} THEN -1
    ELSE Min({Cap, Max({0, Min({next_[t] : t \in timers_}) - now})})

\* getNextTimerTime, capped: how long epoll_wait may sleep.
WaitTime ==
    IF timers_ = {} THEN Cap
    ELSE Min({Cap, Max({0, Min({next_[t] : t \in timers_}) - now})})

Sleep(p) ==
    /\ Goto(p, "idle", "epoll")
    /\ deadline' = [deadline EXCEPT ![p] = now + WaitTime]
    /\ UNCHANGED <<now, timerVars, notifying, pipe, curr, fired>>

\* epoll_wait reports the pipe.  (The pipe is drained after the timers are listed;
\* the edge is consumed here.)
Woken(p) ==
    /\ pipe /\ Goto(p, "epoll", "clock")
    /\ pipe' = FALSE
    /\ deadline' = [deadline EXCEPT ![p] = 0]
    /\ UNCHANGED <<now, timerVars, notifying, curr, fired>>

TimedOut(p) ==
    /\ now >= deadline[p] /\ Goto(p, "epoll", "clock")
    /\ deadline' = [deadline EXCEPT ![p] = 0]
    /\ UNCHANGED <<now, timerVars, notifying, pipe, curr, fired>>

\* Mutant: the clock value of the first round is kept.
ClockOfStart(p) ==
    /\ Goto(p, "clock", "list")
    /\ UNCHANGED <<now, timerVars, notifying, pipe, curr, deadline, fired>>

\* listOverTimeCallback reads the clock before it takes the lock.
ReadClock(p) ==
    /\ Goto(p, "clock", "list")
    /\ curr' = [curr EXCEPT ![p] = now]
    /\ UNCHANGED <<now, timerVars, notifying, pipe, deadline, fired>>

\* Mutant: a recurring timer goes in again where it was.
NotMoved(p, t) == next_[t]

\* Where a recurring timer goes.
Again(p, t) == curr[p] + ms_[t]

\* Mutant: a one-shot timer keeps its callback.
StaysArmed(t) == TRUE

\* A one-shot timer loses its callback.
KeepsCallback(t) == t \in Recurring

\* The timers before a probe with next_ = curr, whose address decides about ties,
\* leave the set; their callbacks are Submitted, and recurring ones go in again.
ListOverTime(p) ==
    /\ Goto(p, "list", "run")
    /\ \E probe \in Timers \cup {0} :
       LET expired == {t \in timers_ : \/ next_[t] < curr[p]
                                       \/ next_[t] = curr[p] /\ t <= probe} IN
       /\ timers_' = timers_ \ {t \in expired : t \notin Recurring}
       /\ fired' = [t \in Timers |-> fired[t] + (IF t \in expired THEN 1 ELSE 0)]
       /\ next_' = [t \in Timers |->
                       IF t \in expired /\ t \in Recurring THEN Again(p, t) ELSE next_[t]]
       /\ callback_' = [t \in Timers |->
                           callback_[t] /\ (t \in expired => KeepsCallback(t))]
    /\ curr' = [curr EXCEPT ![p] = 0]
    /\ UNCHANGED <<now, ms_, phase, cancelled, notifying, pipe,
                   deadline>>

Tick ==
    /\ now < MaxTime
    /\ now' = now + 1
    /\ UNCHANGED <<timerVars, notifying, pipe, threadVars, fired>>

-----------------------------------------------------------------------------
IdleStep(p) ==
    \/ Sleep(p) \/ Woken(p) \/ TimedOut(p) \/ ReadClock(p) \/ ListOverTime(p)

ThreadStep(p) == Take(p) \/ Tickle(p) \/ Done(p) \/ GoIdle(p) \/ IdleStep(p)

ClientStep(t) ==
    \/ \E ms \in Periods : Construct(t, ms)
    \/ AddTimer(t) \/ Cancel(t) \/ Refresh(t)
    \/ \E ms \in ResetPeriods, from_now \in FromNow : Reset(t, ms, from_now)

Next ==
    \/ Tick \/ NotifyFront
    \/ \E p \in Threads : ThreadStep(p)
    \/ \E t \in Timers : ClientStep(t)

Spec == Init /\ [][Next]_vars

\* Time passes, threads and inserters run, and tasks_ runs empty again and again, so that a thread
\* that comes back to Run goes idle in the end.
FairSpec ==
    /\ Spec
    /\ WF_vars(Tick) /\ WF_vars(NotifyFront)
    /\ \A p \in Threads : /\ WF_vars(Tickle(p) \/ Done(p) \/ IdleStep(p))
                          /\ SF_vars(GoIdle(p))

-----------------------------------------------------------------------------
\* Properties

\* Every variable keeps its type; epoll_wait never gets a negative timeout, which would
\* be none (io_manager.cc:253-258).
TypeOK ==
    /\ now \in Nat
    /\ timers_ \subseteq Timers
    /\ ms_ \in [Timers -> Nat]
    /\ next_ \in [Timers -> Nat]
    /\ callback_ \in [Timers -> BOOLEAN]
    /\ phase \in [Timers -> {"none", "made", "known"}]
    /\ notifying \in 0 .. MaxNotifies
    /\ pipe \in BOOLEAN
    /\ pc \in [Threads -> {"run", "tickle", "busy", "idle", "epoll", "clock", "list"}]
    /\ curr \in [Threads -> Nat]
    /\ deadline \in [Threads -> Nat]
    /\ fired \in [Timers -> Nat]
    /\ cancelled \in [Timers -> BOOLEAN]

\* A timer that clients know has a callback exactly while it is in the set.  cancel()
\* erases what find() returns without comparing it with end() (timer.cc:15-18), which
\* is sound only because of this.
ArmedIffListed ==
    \A t \in Timers : phase[t] = "known" => (callback_[t] <=> t \in timers_)

\* A one-shot timer runs its callback once or is cancelled, never both and never
\* twice, whichever threads list it and whoever resets or refreshes it meanwhile
\* (timer.cc:13-61, 127-141).
FiresOnceOrCancelled ==
    \A t \in Timers : t \notin Recurring =>
        fired[t] + (IF cancelled[t] THEN 1 ELSE 0) <= 1

\* A timer never runs ahead of the clock: k firings, recurring or after resets, come no
\* earlier than after k of the shortest period, although several threads list the timers with
\* clock values that may be stale (timer.cc:118, 136).
NotTooOften ==
    \A t \in Timers : fired[t] * Min(Periods) <= now

\* A thread that is not asleep and not running a task: it looks at the timers next.
Awake(p) == pc[p] \notin {"epoll", "busy"}

\* No timer is overslept: for every timer in the set there is a thread that wakes up
\* in time, or is awake, or is about to be woken, unless every thread runs a task.
\* About onTimerInsertedAtFront, Notify, the tickle of Run and the timeout of
\* epoll_wait (timer.cc:85-92, io_manager.cc:249-262, scheduler.cc:94-100).
NobodyOversleeps ==
    (\E p \in Threads : pc[p] # "busy") =>
        \A t \in timers_ :
            \/ pipe \/ notifying > 0
            \/ \E p \in Threads :
                  Awake(p) \/ (pc[p] = "epoll" /\ deadline[p] <= Max({now, next_[t]}))

\* A timer that is due before the clock stops leaves the set or is moved beyond:
\* IOManager::Wait lists it after every wait (io_manager.cc:269-274).
DueTimerFires ==
    \A t \in Timers :
        (t \in timers_ /\ next_[t] < MaxTime) ~> (t \notin timers_ \/ next_[t] >= MaxTime)
=============================================================================
