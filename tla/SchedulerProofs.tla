-------------------------- MODULE SchedulerProofs --------------------------
(***************************************************************************)
(* Machine-checked proofs about Scheduler, for any number of worker        *)
(* threads, callbacks, fibers and yields: a submitted function is run by   *)
(* one fiber only, no submitted work vanishes before the process ends, and *)
(* a scheduler with one thread never enters a stack twice.                 *)
(***************************************************************************)
EXTENDS Scheduler, FiniteSetTheorems, SequenceTheorems, TLAPS

States == {"NEW", "INIT", "HOLD", "EXEC", "TERM", "READY", "EXCEPT"}

\* Where a worker has no task in its hands, and where it deals with a fiber.
Empty == {"unused", "scan", "idle", "epoll", "epollForever", "exited"}
Flight == {"resume", "run", "armed", "swap", "after"}

\* A task of tasks_ is a fiber or a function, never both.
PlainTasks == {k \in Tasks : (k.fiber = None) # (k.func = None)}

\* The types of what Run works on.
RunTypes ==
    /\ workers \subseteq Workers
    /\ tasks_ \in Seq(PlainTasks)
    /\ state_ \in [Fibers -> States]
    /\ func_ \in [Fibers -> Callbacks \cup {None}]
    /\ s_fiber_id \in 0 .. MaxFibers
    /\ waiting \in [Fibers -> {"no", "queue", "condvar", "event", "timer"}]
    /\ pc \in [Workers -> Empty \cup Flight \cup {"tickle", "dispatch"}]
    /\ task \in [Workers -> PlainTasks \cup {NoTask}]
    /\ cached \in [Workers -> Fibers \cup {None}]
    /\ cur \in [Workers -> Fibers \cup {None}]
    /\ phase \in [Callbacks -> {"unsubmitted", "submitted", "started", "finished"}]

\* The worker runs a function of its own on its cached fiber.
Own(t) == pc[t] \in Flight /\ task[t].fiber = None

\* What a worker holds at each point of Run.
Hands(t) ==
    /\ pc[t] \in Empty => task[t] = NoTask
    /\ pc[t] \in Flight => task[t].func = None /\ Target(t) \in Fibers
    /\ cur[t] = IF pc[t] \in {"run", "armed", "swap"} THEN Target(t) ELSE None
    /\ pc[t] = "unused" => cached[t] = None

\* A cached fiber is in one worker's cache only, and unless that worker runs a function on it, it
\* has none.
Caches ==
    /\ \A t, u \in Workers : cached[t] # None /\ cached[t] = cached[u] => t = u
    /\ \A t \in Workers : cached[t] # None =>
          cached[t] <= s_fiber_id /\ (~Own(t) => func_[cached[t]] = None)
    /\ \A f \in Fibers : f > s_fiber_id => func_[f] = None

\* A fiber that ended has no function, and one that threw has ended the process.
Ended ==
    \A f \in Fibers : /\ state_[f] = "TERM" => func_[f] = None
                      /\ state_[f] = "EXCEPT" => aborted # "no"

\* While stacks are sound, a fiber whose body executes says so and has its function.
Executing ==
    Running => \A t \in Workers : pc[t] \in {"run", "armed"} =>
                  state_[cur[t]] = "EXEC" /\ func_[cur[t]] # None

RunInv == RunTypes /\ (\A t \in Workers : Hands(t)) /\ Caches /\ Ended /\ Executing

\* What a queue of tasks holds, and that it holds it once.
HasFunc(q, c) == \E i \in 1 .. Len(q) : q[i].func = c
HasFiber(q, f) == \E i \in 1 .. Len(q) : q[i].fiber = f
FuncOnce(q, c) == \A i, j \in 1 .. Len(q) : q[i].func = c /\ q[j].func = c => i = j
FibersOnce(q) ==
    \A i, j \in 1 .. Len(q) : q[i].fiber # None /\ q[i].fiber = q[j].fiber => i = j

\* The places that may still start a function exclude one another.
Queued(c) == HasFunc(tasks_, c)
Taken(c) == \E t \in Workers : task[t].func = c
Bound(c) == \E f \in Fibers : func_[f] = c

OnceInv ==
    \A c \in Callbacks :
        /\ FuncOnce(tasks_, c)
        /\ \A t, u \in Workers : task[t].func = c /\ task[u].func = c => t = u
        /\ \A f, g \in Fibers : func_[f] = c /\ func_[g] = c => f = g
        /\ ~(Queued(c) /\ Taken(c)) /\ ~(Queued(c) /\ Bound(c)) /\ ~(Taken(c) /\ Bound(c))
        /\ Queued(c) \/ Taken(c) => phase[c] = "submitted"
        /\ Bound(c) => phase[c] \in {"submitted", "started"}
        /\ phase[c] = "submitted" => Queued(c) \/ Taken(c) \/ Bound(c)
        /\ phase[c] = "started" => Bound(c)

\* The worker has the fiber and will resume it or submit it again.
Has(t, f) ==
    /\ Target(t) = f
    /\ \/ pc[t] \in {"tickle", "dispatch", "resume", "run"}
       \/ pc[t] \in {"swap", "after"} /\ state_[f] = "READY"

\* Somebody has the fiber.
Located(f) == waiting[f] # "no" \/ HasFiber(tasks_, f) \/ \E t \in Workers : Has(t, f)

\* What is due to a fiber: a function that has not started is about to be started by the
\* owner of the fiber, and of one that has started somebody has the fiber.
Due(f) ==
    func_[f] # None =>
        /\ phase[func_[f]] = "submitted" =>
              \E t \in Workers : Own(t) /\ pc[t] = "resume" /\ cached[t] = f
        /\ phase[func_[f]] = "started" => Located(f)

LocatedInv == \A f \in Fibers : Due(f)

\* The only worker has the fiber in its hands.
Held(w, f) == Has(w, f) /\ (pc[w] \in {"tickle", "dispatch"} => task[w].fiber = f)

\* Whoever has a fiber is the only one, and it can be resumed.
Solo(w, f) ==
    /\ HasFiber(tasks_, f) \/ waiting[f] # "no" \/ Held(w, f) => func_[f] # None
    /\ ~(HasFiber(tasks_, f) /\ waiting[f] # "no")
    /\ ~(HasFiber(tasks_, f) /\ Held(w, f))
    /\ ~(waiting[f] # "no" /\ Held(w, f))
    /\ state_[f] = "EXEC" => cur[w] = f /\ pc[w] \in {"run", "armed"}

SoloInv(w) ==
    /\ workers = {w}
    /\ \A t \in Workers \ {w} : pc[t] = "unused"
    /\ aborted \in {"no", "exception"}
    /\ cur[w] # None => state_[cur[w]] # "INIT"
    /\ aborted = "no" =>
          /\ FibersOnce(tasks_)
          /\ \A f \in Fibers : Solo(w, f)
          /\ pc[w] \in {"swap", "after"} => state_[Target(w)] \in {"HOLD", "READY", "TERM"}
          /\ cached[w] # None /\ ~Own(w) => state_[cached[w]] = "INIT"

-----------------------------------------------------------------------------
\* What a task appended to a queue, or removed from it, leaves of the queue.
LEMMA AppendFacts ==
    ASSUME NEW S, NEW s \in Seq(S), NEW x \in S
    PROVE  /\ Append(s, x) \in Seq(S) /\ Len(Append(s, x)) = Len(s) + 1
           /\ \A i \in 1 .. Len(s) : Append(s, x)[i] = s[i]
           /\ Append(s, x)[Len(s) + 1] = x
  OBVIOUS

\* What erasing one element leaves of a sequence: the rest, in its order.
LEMMA RemoveFacts ==
    ASSUME NEW S, NEW s \in Seq(S), NEW i \in 1 .. Len(s)
    PROVE  /\ RemoveAt(s, i) \in Seq(S) /\ Len(RemoveAt(s, i)) = Len(s) - 1
           /\ \A k \in 1 .. Len(s) - 1 :
                 RemoveAt(s, i)[k] = IF k < i THEN s[k] ELSE s[k + 1]
<1> DEFINE a == SubSeq(s, 1, i - 1)
           b == SubSeq(s, i + 1, Len(s))
<1>1. /\ a \in Seq(S) /\ Len(a) = i - 1 /\ \A k \in 1 .. i - 1 : a[k] = s[k]
  OBVIOUS
<1>2. /\ b \in Seq(S) /\ Len(b) = Len(s) - i
      /\ \A k \in 1 .. Len(s) - i : b[k] = s[i + k]
  OBVIOUS
<1>3. RemoveAt(s, i) = a \o b
  BY DEF RemoveAt
<1> HIDE DEF a, b
<1>4. /\ a \o b \in Seq(S) /\ Len(a \o b) = Len(a) + Len(b)
      /\ \A k \in 1 .. Len(a) + Len(b) :
            (a \o b)[k] = IF k <= Len(a) THEN a[k] ELSE b[k - Len(a)]
  BY <1>1, <1>2, ConcatProperties
<1>5. ASSUME NEW k \in 1 .. Len(s) - 1 PROVE (a \o b)[k] = IF k < i THEN s[k] ELSE s[k + 1]
  <2>1. CASE k < i
    BY <1>1, <1>2, <1>4, <2>1
  <2>2. CASE ~(k < i)
    <3>0. Len(s) \in Nat /\ Len(a) = i - 1 /\ k \in 1 .. Len(a) + Len(b) /\ ~(k <= Len(a))
      BY <1>1, <1>2, <2>2
    <3>1. PICK m \in 1 .. Len(s) - i : m = k - (i - 1) /\ i + m = k + 1
      BY <3>0, <2>2
    <3>2. (a \o b)[k] = b[m]
      BY <1>4, <3>0, <3>1
    <3>3. b[m] = s[k + 1]
      BY <1>2, <3>1
    <3> QED
      BY <2>2, <3>2, <3>3
  <2> QED
    BY <2>1, <2>2
<1>6. Len(a) + Len(b) = Len(s) - 1
  BY <1>1, <1>2
<1> QED
  BY <1>3, <1>4, <1>5, <1>6

-----------------------------------------------------------------------------
\* What the steps leave of the state the invariants are about.
runVars == <<workers, tasks_, state_, func_, s_fiber_id, waiting, pc, task, cached, cur,
             phase, aborted>>

\* Steps in which a worker moves on in Run and changes nothing else of it.
Moved(t, l) ==
    /\ Running /\ pc[t] \notin Flight /\ pc[t] # "unused"
    /\ l \in (Empty \cup {"tickle", "dispatch"}) \ {"unused"}
    /\ l \notin {"tickle", "dispatch"} => task[t] = NoTask
    /\ pc' = [pc EXCEPT ![t] = l]
    /\ UNCHANGED <<workers, tasks_, state_, func_, s_fiber_id, waiting, task, cached, cur,
                   phase, aborted>>

\* These are the moves.
LEMMA Moves ==
    ASSUME RunInv, NEW t \in Workers,
           \/ Leave(t) \/ FindNothing(t) \/ Tickle(t) \/ DispatchNothing(t) \/ Idle(t)
           \/ EpollWoken(t) \/ EpollTimeout(t)
    PROVE  \E l : Moved(t, l)
<1> USE DEF RunInv, Hands, At, Empty, Flight
<1>1. CASE Leave(t)
  BY <1>1 DEF Leave, Moved
<1>2. CASE FindNothing(t)
  BY <1>2 DEF FindNothing, Moved
<1>3. CASE Tickle(t)
  BY <1>3 DEF Tickle, Moved
<1>4. CASE DispatchNothing(t)
  BY <1>4 DEF DispatchNothing, Moved
<1>5. CASE Idle(t)
  <2>1. PICK l \in {"exited", "scan", "epoll", "epollForever"} : pc' = [pc EXCEPT ![t] = l]
    <3> DEFINE ll == CASE idleTerm[t] -> "exited" [] Stopping -> "scan" [] OTHER -> EpollKind
    <3>1. pc' = [pc EXCEPT ![t] = ll]
      BY <1>5 DEF Idle
    <3>2. ll \in {"exited", "scan", "epoll", "epollForever"}
      BY DEF EpollKind
    <3> HIDE DEF ll
    <3> QED
      BY <3>1, <3>2
  <2>2. Moved(t, l)
    BY <1>5, <2>1 DEF Idle, Moved
  <2> QED
    BY <2>2
<1>6. CASE EpollWoken(t) \/ EpollTimeout(t)
  BY <1>6 DEF EpollWoken, EpollTimeout, Moved
<1> QED
  BY <1>1, <1>2, <1>3, <1>4, <1>5, <1>6

\* The other steps leave all of it alone, or are one of those named.
LEMMA StepCases ==
    ASSUME RunInv, [Next]_vars
    PROVE  \/ UNCHANGED runVars
           \/ \E c \in Callbacks, th \in workers \cup {None} : Submit(c, th)
           \/ \E f \in Fibers : Wake(f)
           \/ \E t \in Workers :
                 \/ \E l : Moved(t, l)
                 \/ TakeTask(t) \/ DispatchFiber(t) \/ DispatchCallback(t) \/ Resume(t)
                 \/ SwapOut(t) \/ AfterResume(t) \/ (\E why \in WaitKinds : Arm(t, why))
                 \/ YieldToHold(t) \/ YieldToReady(t) \/ Finish(t) \/ Throw(t)
<1>1. CASE UNCHANGED vars \/ DtorBegin \/ DtorStop \/ DtorJoined
  BY <1>1 DEF vars, runVars, DtorBegin, DtorStop, DtorJoined
<1>2. ASSUME NEW t \in Workers, RunStep(t) \/ BodyStep(t) \/ EpollWoken(t) \/ EpollTimeout(t)
      PROVE  \/ \E l : Moved(t, l)
             \/ TakeTask(t) \/ DispatchFiber(t) \/ DispatchCallback(t) \/ Resume(t)
             \/ SwapOut(t) \/ AfterResume(t) \/ (\E why \in WaitKinds : Arm(t, why))
             \/ YieldToHold(t) \/ YieldToReady(t) \/ Finish(t) \/ Throw(t)
  BY <1>2, Moves DEF RunStep, BodyStep
<1> QED
  BY <1>1, <1>2 DEF Next

-----------------------------------------------------------------------------
\* Initially nothing is in anybody's hands.
LEMMA RunInit == Init => RunInv
<1> SUFFICES ASSUME Init PROVE RunInv
  OBVIOUS
<1>1. tasks_ \in Seq(PlainTasks)
  BY DEF Init
<1>2. /\ s_fiber_id \in 0 .. MaxFibers
      /\ \A f \in Fibers : func_[f] = None
  BY SchedulerAssumption DEF Init
<1>3. RunTypes
  BY <1>1, <1>2 DEF RunTypes, Init, Empty, Flight, States
<1>4. \A t \in Workers : Hands(t)
  BY DEF Init, Hands, Target, NoTask, Empty, Flight
<1>5. Caches /\ Ended /\ Executing
  BY <1>2 DEF Init, Caches, Ended, Executing
<1> QED
  BY <1>3, <1>4, <1>5 DEF RunInv

\* The tasks that are appended to tasks_.
LEMMA NewTasks ==
    /\ \A f \in Fibers : FiberTask(f) \in PlainTasks
    /\ \A c \in Callbacks, th \in Workers \cup {None} : CallbackTask(c, th) \in PlainTasks
    /\ NoTask.fiber = None /\ NoTask.func = None
    /\ \A f \in Fibers : FiberTask(f).fiber = f /\ FiberTask(f).func = None /\ f # None
    /\ \A c \in Callbacks, th \in Workers \cup {None} :
          CallbackTask(c, th).fiber = None /\ CallbackTask(c, th).func = c /\ c # None
<1>1. \A f \in Fibers : f # None
  BY SchedulerAssumption DEF Fibers
<1>2. \A c \in Callbacks : c # None
  BY SchedulerAssumption
<1> QED
  BY <1>1, <1>2 DEF FiberTask, CallbackTask, NoTask, PlainTasks, Tasks

\* A task in a worker's hands is a fiber, a function or nothing.
LEMMA TaskKinds ==
    ASSUME NEW k \in PlainTasks \cup {NoTask}
    PROVE  /\ k.fiber \in Fibers \cup {None} /\ k.func \in Callbacks \cup {None}
           /\ k.fiber # None => k.func = None
           /\ k.fiber = None /\ k.func = None => k = NoTask
<1>1. CASE k \in PlainTasks
  BY <1>1 DEF PlainTasks, Tasks
<1>2. CASE k = NoTask
  BY <1>2 DEF NoTask
<1> QED
  BY <1>1, <1>2

\* Steps outside Run change nothing of what a worker holds.
LEMMA RunOutside ==
    ASSUME RunInv, UNCHANGED <<workers, state_, func_, s_fiber_id, pc, task, cached, cur, aborted>>,
           tasks_' \in Seq(PlainTasks),
           waiting' \in [Fibers -> {"no", "queue", "condvar", "event", "timer"}],
           phase' \in [Callbacks -> {"unsubmitted", "submitted", "started", "finished"}]
    PROVE  RunInv'
<1>1. RunTypes'
  BY DEF RunInv, RunTypes
<1>2. (\A t \in Workers : Hands(t)')
  BY DEF RunInv, Hands, Target
<1>3. Caches' /\ Ended'
  BY DEF RunInv, Caches, Ended, Own
<1>4. Executing'
  BY DEF RunInv, Executing, Running, Corrupted
<1> QED
  BY <1>1, <1>2, <1>3, <1>4 DEF RunInv

\* A worker that moves on keeps what it holds.
LEMMA RunMoved == ASSUME RunInv, NEW t \in Workers, NEW l, Moved(t, l) PROVE RunInv'
<1>0. /\ pc' = [pc EXCEPT ![t] = l] /\ pc[t] \notin Flight
      /\ l \in (Empty \cup {"tickle", "dispatch"}) \ {"unused"}
      /\ l \in Empty => task[t] = NoTask
      /\ pc \in [Workers -> Empty \cup Flight \cup {"tickle", "dispatch"}]
      /\ UNCHANGED <<workers, tasks_, state_, func_, s_fiber_id, waiting, task, cached, cur,
                     phase, aborted>>
  BY DEF Moved, RunInv, RunTypes, Empty
<1>1. RunTypes'
  BY <1>0 DEF RunInv, RunTypes
<1>2. ASSUME NEW u \in Workers PROVE Hands(u)'
  <2>1. Hands(u)
    BY DEF RunInv
  <2>2. CASE u = t
    <3>1. pc'[u] = l /\ l \notin Flight /\ l # "unused" /\ l \notin {"run", "armed", "swap"}
          /\ pc[u] \notin {"run", "armed", "swap"}
      BY <1>0, <2>2 DEF Flight, Empty
    <3> QED
      BY <1>0, <2>1, <2>2, <3>1 DEF Hands, Target
  <2>3. CASE u # t
    BY <1>0, <2>1, <2>3 DEF Hands, Target
  <2> QED
    BY <2>2, <2>3
<1>3. \A u \in Workers : Own(u)' <=> Own(u)
  <2>1. l \notin Flight
    BY <1>0 DEF Empty, Flight
  <2> QED
    BY <1>0, <2>1 DEF Own
<1>4. Caches' /\ Ended'
  BY <1>0, <1>3 DEF RunInv, Caches, Ended
<1>5. Executing'
  <2>1. l \notin {"run", "armed"}
    BY <1>0 DEF Empty
  <2> QED
    BY <1>0, <2>1 DEF RunInv, Executing, Running, Corrupted
<1> QED
  BY <1>1, <1>2, <1>4, <1>5 DEF RunInv

\* A worker takes a task, or drops one whose fiber has ended, or turns to a fiber.
LEMMA RunTask ==
    ASSUME RunInv, NEW t \in Workers, TakeTask(t) \/ DispatchFiber(t) PROVE RunInv'
<1>0. /\ pc \in [Workers -> Empty \cup Flight \cup {"tickle", "dispatch"}]
      /\ task \in [Workers -> PlainTasks \cup {NoTask}] /\ tasks_ \in Seq(PlainTasks)
      /\ UNCHANGED <<workers, state_, func_, s_fiber_id, waiting, cached, cur, phase, aborted>>
      /\ pc[t] \notin Flight /\ pc[t] # "unused"
  BY DEF TakeTask, DispatchFiber, RunInv, RunTypes, At, Flight
<1>1. PICK l \in {"tickle", "idle", "resume"}, k \in PlainTasks \cup {NoTask} :
         /\ pc' = [pc EXCEPT ![t] = l] /\ task' = [task EXCEPT ![t] = k]
         /\ l = "idle" => k = NoTask
         /\ l = "resume" => k.fiber \in Fibers /\ k.func = None
         /\ tasks_' \in Seq(PlainTasks)
  <2>1. CASE TakeTask(t)
    <3>1. PICK i \in 1 .. Len(tasks_) :
             task' = [task EXCEPT ![t] = tasks_[i]] /\ tasks_' = RemoveAt(tasks_, i)
      BY <2>1 DEF TakeTask, Erase
    <3>2. tasks_' \in Seq(PlainTasks) /\ tasks_[i] \in PlainTasks
      BY <1>0, <3>1, RemoveFacts
    <3>3. pc' = [pc EXCEPT ![t] = "tickle"]
      BY <2>1 DEF TakeTask
    <3> QED
      BY <3>1, <3>2, <3>3
  <2>2. CASE DispatchFiber(t)
    <3>1. task[t].fiber \in Fibers /\ task[t].func = None /\ tasks_' = tasks_
      BY <1>0, <2>2, TaskKinds DEF DispatchFiber
    <3>2. \/ pc' = [pc EXCEPT ![t] = "idle"] /\ task' = [task EXCEPT ![t] = NoTask]
          \/ pc' = [pc EXCEPT ![t] = "resume"] /\ task' = [task EXCEPT ![t] = task[t]]
      BY <1>0, <2>2 DEF DispatchFiber
    <3> QED
      BY <1>0, <3>1, <3>2
  <2> QED
    BY <2>1, <2>2
<1>2. RunTypes'
  BY <1>0, <1>1 DEF RunInv, RunTypes, Empty, Flight
<1>3. ASSUME NEW u \in Workers PROVE Hands(u)'
  <2>1. Hands(u)
    BY DEF RunInv
  <2>2. CASE u = t
    <3>1. pc'[u] = l /\ task'[u] = k
      BY <1>0, <1>1, <2>2
    <3>2. cur[u] = None
      BY <1>0, <2>1, <2>2 DEF Hands, Flight
    <3>3. l = "resume" => k.fiber # None
      BY <1>1, NewTasks
    <3> QED
      BY <1>0, <1>1, <2>2, <3>1, <3>2, <3>3 DEF Hands, Target, Empty, Flight
  <2>3. CASE u # t
    BY <1>0, <1>1, <2>1, <2>3 DEF Hands, Target
  <2> QED
    BY <2>2, <2>3
<1>4. \A u \in Workers : Own(u)' <=> Own(u)
  <2>1. l \in Flight => k.fiber # None
    BY <1>1, NewTasks DEF Flight
  <2> QED
    BY <1>0, <1>1, <2>1 DEF Own
<1>5. Caches' /\ Ended'
  BY <1>0, <1>4 DEF RunInv, Caches, Ended
<1>6. Executing'
  BY <1>0, <1>1 DEF RunInv, Executing, Running, Corrupted
<1> QED
  BY <1>2, <1>3, <1>5, <1>6 DEF RunInv

\* A worker binds a function to its cached fiber, or to a new one, that has no function.
Bind(t, f, c) ==
    /\ Running /\ pc[t] = "dispatch" /\ task[t].func = c /\ task[t].fiber = None
    /\ func_[f] = None /\ f # None /\ c # None
    /\ \A u \in Workers \ {t} : cached[u] # f
    /\ \/ cached[t] = f /\ s_fiber_id' = s_fiber_id /\ f <= s_fiber_id
       \/ cached[t] = None /\ f = s_fiber_id + 1 /\ s_fiber_id' = s_fiber_id + 1
    /\ aborted' = IF cached[t] = f /\ state_[f] \notin {"INIT", "TERM", "EXCEPT"}
                  THEN "reset" ELSE aborted
    /\ cached' = [cached EXCEPT ![t] = f]
    /\ state_' = [state_ EXCEPT ![f] = "INIT"]
    /\ func_' = [func_ EXCEPT ![f] = c]
    /\ task' = [task EXCEPT ![t] = NoTask]
    /\ pc' = [pc EXCEPT ![t] = "resume"]
    /\ UNCHANGED <<workers, tasks_, waiting, cur, phase>>

\* DispatchCallback binds the callback of the task to the cached or to a new fiber.
LEMMA DispatchBinds ==
    ASSUME RunInv, NEW t \in Workers, DispatchCallback(t)
    PROVE  \E f \in Fibers, c \in Callbacks : Bind(t, f, c)
<1>0. /\ task[t].func \in Callbacks /\ task[t].func # None /\ task[t].fiber = None
      /\ cached \in [Workers -> Fibers \cup {None}] /\ s_fiber_id \in 0 .. MaxFibers
      /\ MaxFibers \in Nat /\ pc[t] = "dispatch" /\ Running
  <2>1. task[t] \in PlainTasks \cup {NoTask} /\ task[t].func # None
    BY DEF RunInv, RunTypes, DispatchCallback
  <2> QED
    BY <2>1, TaskKinds, SchedulerAssumption DEF RunInv, RunTypes, DispatchCallback, At
<1>1. \A f \in Fibers : f # None /\ f \in Nat
  BY NewTasks, SchedulerAssumption DEF Fibers
<1>2. ~Own(t)
  BY <1>0 DEF Own, Flight
<1>3. CASE cached[t] = None /\ s_fiber_id < MaxFibers /\ s_fiber_id' = s_fiber_id + 1
           /\ cached' = [cached EXCEPT ![t] = s_fiber_id'] /\ UNCHANGED aborted
  <2>1. PICK f \in Fibers : f = s_fiber_id + 1
    BY <1>0, <1>3 DEF Fibers
  <2>2. func_[f] = None /\ \A u \in Workers \ {t} : cached[u] # f
    <3>1. f > s_fiber_id
      BY <1>0, <2>1
    <3>2. ASSUME NEW u \in Workers, cached[u] = f PROVE FALSE
      <4>1. f <= s_fiber_id
        BY <1>1, <3>2 DEF RunInv, Caches
      <4> QED
        BY <1>0, <2>1, <4>1
    <3> QED
      BY <3>1, <3>2 DEF RunInv, Caches
  <2>3. cached'[t] = f /\ cached' = [cached EXCEPT ![t] = f]
    BY <1>0, <1>3, <2>1
  <2>4. /\ state_' = [state_ EXCEPT ![f] = "INIT"]
        /\ func_' = [func_ EXCEPT ![f] = task[t].func]
    BY <2>3 DEF DispatchCallback
  <2>5. Bind(t, f, task[t].func)
    BY <1>0, <1>1, <1>3, <2>1, <2>2, <2>3, <2>4 DEF Bind, DispatchCallback
  <2> QED
    BY <1>0, <2>5
<1>4. CASE /\ cached[t] # None
           /\ aborted' = IF state_[cached[t]] \in {"INIT", "TERM", "EXCEPT"}
                         THEN aborted ELSE "reset"
           /\ UNCHANGED <<s_fiber_id, cached>>
  <2>1. PICK f \in Fibers : f = cached[t]
    BY <1>0, <1>4
  <2>2. f <= s_fiber_id /\ func_[f] = None /\ \A u \in Workers \ {t} : cached[u] # f
    BY <1>1, <1>2, <2>1 DEF RunInv, Caches
  <2>3. cached'[t] = f /\ cached' = [cached EXCEPT ![t] = f]
    BY <1>0, <1>4, <2>1
  <2>4. /\ state_' = [state_ EXCEPT ![f] = "INIT"]
        /\ func_' = [func_ EXCEPT ![f] = task[t].func]
    BY <2>3 DEF DispatchCallback
  <2>5. Bind(t, f, task[t].func)
    BY <1>0, <1>1, <1>4, <2>1, <2>2, <2>3, <2>4 DEF Bind, DispatchCallback
  <2> QED
    BY <1>0, <2>5
<1> QED
  BY <1>3, <1>4 DEF DispatchCallback

\* Binding a callback to a fiber nobody else has keeps RunInv.
LEMMA RunBind ==
    ASSUME RunInv, NEW t \in Workers, NEW f \in Fibers, NEW c \in Callbacks, Bind(t, f, c)
    PROVE  RunInv'
<1>0. /\ pc \in [Workers -> Empty \cup Flight \cup {"tickle", "dispatch"}]
      /\ task \in [Workers -> PlainTasks \cup {NoTask}] /\ state_ \in [Fibers -> States]
      /\ func_ \in [Fibers -> Callbacks \cup {None}] /\ s_fiber_id \in 0 .. MaxFibers
      /\ cached \in [Workers -> Fibers \cup {None}] /\ MaxFibers \in Nat
      /\ \A g \in Fibers : g \in 1 .. MaxFibers /\ g # None
  BY SchedulerAssumption, NewTasks DEF RunInv, RunTypes, Fibers
<1>1. RunTypes'
  <2>1. s_fiber_id' \in 0 .. MaxFibers
    BY <1>0 DEF Bind
  <2>2. pc' \in [Workers -> Empty \cup Flight \cup {"tickle", "dispatch"}]
    BY <1>0 DEF Bind, Flight
  <2>3. state_' \in [Fibers -> States] /\ func_' \in [Fibers -> Callbacks \cup {None}]
    BY <1>0 DEF Bind, States
  <2> QED
    BY <1>0, <2>1, <2>2, <2>3 DEF Bind, RunInv, RunTypes
<1>2. ASSUME NEW u \in Workers PROVE Hands(u)'
  <2>1. Hands(u)
    BY DEF RunInv
  <2>2. CASE u = t
    <3>1. pc'[u] = "resume" /\ task'[u] = NoTask /\ cached'[u] = f
      BY <1>0, <2>2 DEF Bind
    <3>2. cur'[u] = None
      BY <2>1, <2>2 DEF Hands, Bind
    <3> QED
      BY <3>1, <3>2, NewTasks DEF Hands, Target, Empty, Flight
  <2>3. CASE u # t
    BY <1>0, <2>1, <2>3 DEF Hands, Target, Bind
  <2> QED
    BY <2>2, <2>3
<1>3. Own(t)' /\ \A u \in Workers \ {t} : Own(u)' <=> Own(u)
  BY <1>0, NewTasks DEF Own, Bind, Flight
<1>4. Caches'
  <2>1. \A u \in Workers : cached'[u] = IF u = t THEN f ELSE cached[u]
    BY <1>0 DEF Bind
  <2>2. \A g \in Fibers : func_'[g] = IF g = f THEN c ELSE func_[g]
    BY <1>0 DEF Bind
  <2>3. s_fiber_id' \in Nat /\ s_fiber_id <= s_fiber_id' /\ f <= s_fiber_id'
    BY <1>0 DEF Bind
  <2>4. \A u, v \in Workers : cached'[u] # None /\ cached'[u] = cached'[v] => u = v
    BY <2>1 DEF RunInv, Caches, Bind
  <2>5. ASSUME NEW u \in Workers, cached'[u] # None
        PROVE  cached'[u] <= s_fiber_id' /\ (~Own(u)' => func_'[cached'[u]] = None)
    <3>1. CASE u = t
      BY <1>3, <2>1, <2>3, <3>1
    <3>2. CASE u # t
      <4>1. /\ cached'[u] = cached[u] /\ cached[u] \in Fibers /\ cached[u] # f
            /\ cached[u] <= s_fiber_id /\ (~Own(u) => func_[cached[u]] = None)
        BY <1>0, <2>1, <2>5, <3>2 DEF RunInv, Caches, Bind
      <4>2. cached[u] <= s_fiber_id'
        BY <1>0, <2>3, <4>1
      <4> QED
        BY <1>3, <2>2, <3>2, <4>1, <4>2
    <3> QED
      BY <3>1, <3>2
  <2>6. ASSUME NEW g \in Fibers, g > s_fiber_id' PROVE func_'[g] = None
    <3>1. g # f /\ g > s_fiber_id
      BY <1>0, <2>3, <2>6
    <3> QED
      BY <2>2, <3>1 DEF RunInv, Caches
  <2> QED
    BY <2>4, <2>5, <2>6 DEF Caches
<1>5. Ended'
  <2>1. aborted # "no" => aborted' # "no"
    BY DEF Bind
  <2>2. \A g \in Fibers : state_'[g] = IF g = f THEN "INIT" ELSE state_[g]
    BY <1>0 DEF Bind
  <2>3. \A g \in Fibers : g # f => func_'[g] = func_[g]
    BY <1>0 DEF Bind
  <2> QED
    BY <2>1, <2>2, <2>3 DEF Ended, RunInv
<1>6. Executing'
  <2>1. ASSUME NEW u \in Workers, pc'[u] \in {"run", "armed"}
        PROVE  state_'[cur'[u]] = "EXEC" /\ func_'[cur'[u]] # None
    <3>1. u # t /\ pc[u] \in {"run", "armed"} /\ cur'[u] = cur[u]
      BY <1>0, <2>1 DEF Bind
    <3>2. state_[cur[u]] = "EXEC" /\ func_[cur[u]] # None
      BY <3>1 DEF RunInv, Executing, Bind
    <3>3. cur[u] # f
      BY <3>2 DEF Bind
    <3> QED
      BY <1>0, <3>1, <3>2, <3>3 DEF Bind
  <2> QED
    BY <2>1 DEF Executing
<1> QED
  BY <1>1, <1>2, <1>4, <1>5, <1>6 DEF RunInv

\* A worker resumes a fiber: the process ends, or the worker enters the fiber's stack.
Refused(t) ==
    /\ Running /\ pc[t] = "resume"
    /\ \/ state_[Target(t)] = "EXEC" /\ aborted' = "resume"
       \/ func_[Target(t)] = None /\ aborted' = "ended"
    /\ UNCHANGED <<workers, tasks_, state_, func_, s_fiber_id, waiting, pc, task, cached, cur,
                   phase>>

Enter(t, f, c) ==
    /\ Running /\ pc[t] = "resume" /\ Target(t) = f /\ state_[f] # "EXEC"
    /\ func_[f] = c /\ c # None
    /\ state_' = [state_ EXCEPT ![f] = "EXEC"]
    /\ cur' = [cur EXCEPT ![t] = f]
    /\ phase' = [phase EXCEPT ![c] = "started"]
    /\ pc' = [pc EXCEPT ![t] = "run"]
    /\ UNCHANGED <<workers, tasks_, func_, s_fiber_id, waiting, task, cached, aborted>>

\* Resume enters the stack of a fiber that has work, or fails its assertion.
LEMMA ResumeEnters ==
    ASSUME RunInv, NEW t \in Workers, Resume(t)
    PROVE  Refused(t) \/ \E f \in Fibers, c \in Callbacks : Enter(t, f, c)
<1>1. Target(t) \in Fibers /\ func_[Target(t)] \in Callbacks \cup {None}
  BY DEF Resume, At, RunInv, RunTypes, Hands, Flight
<1>2. CASE state_[Target(t)] = "EXEC" \/ func_[Target(t)] = None
  BY <1>2 DEF Resume, At, Refused
<1>3. CASE ~(state_[Target(t)] = "EXEC" \/ func_[Target(t)] = None)
  <2>1. Enter(t, Target(t), func_[Target(t)])
    BY <1>3 DEF Resume, At, Enter
  <2> QED
    BY <1>1, <1>3, <2>1
<1> QED
  BY <1>2, <1>3

\* A failed assertion ends the process and disturbs nothing else.
LEMMA RunRefused == ASSUME RunInv, NEW t \in Workers, Refused(t) PROVE RunInv'
<1>1. aborted' # "no"
  BY DEF Refused
<1>2. RunTypes'
  BY DEF RunInv, RunTypes, Refused
<1>3. \A u \in Workers : Hands(u)'
  BY DEF RunInv, Hands, Target, Refused
<1>4. Caches' /\ Ended' /\ Executing'
  BY <1>1 DEF RunInv, Caches, Ended, Own, Refused, Executing, Running
<1> QED
  BY <1>2, <1>3, <1>4 DEF RunInv

\* Entering a stack keeps RunInv.
LEMMA RunEnter ==
    ASSUME RunInv, NEW t \in Workers, NEW f \in Fibers, NEW c \in Callbacks, Enter(t, f, c)
    PROVE  RunInv'
<1>0. /\ pc \in [Workers -> Empty \cup Flight \cup {"tickle", "dispatch"}]
      /\ state_ \in [Fibers -> States] /\ cur \in [Workers -> Fibers \cup {None}]
      /\ phase \in [Callbacks -> {"unsubmitted", "submitted", "started", "finished"}]
  BY DEF RunInv, RunTypes
<1>1. RunTypes'
  BY <1>0 DEF RunInv, RunTypes, Enter, Flight, States
<1>2. ASSUME NEW u \in Workers PROVE Hands(u)'
  <2>1. Hands(u) /\ Target(u)' = Target(u)
    BY DEF RunInv, Enter, Target
  <2>2. CASE u = t
    <3>1. pc'[u] = "run" /\ cur'[u] = f /\ pc[u] = "resume" /\ Target(u) = f
      BY <1>0, <2>2 DEF Enter
    <3>2. task'[u] = task[u]
      BY DEF Enter
    <3> QED
      BY <2>1, <3>1, <3>2 DEF Hands, Empty, Flight
  <2>3. CASE u # t
    <3>1. pc'[u] = pc[u] /\ cur'[u] = cur[u] /\ task' = task /\ cached' = cached
      BY <1>0, <2>3 DEF Enter
    <3> QED
      BY <2>1, <3>1 DEF Hands
  <2> QED
    BY <2>2, <2>3
<1>3. \A u \in Workers : Own(u)' <=> Own(u)
  BY <1>0 DEF Own, Enter, Flight
<1>4. Caches'
  BY <1>3 DEF RunInv, Caches, Enter
<1>5. Ended'
  <2>1. \A g \in Fibers : state_'[g] = IF g = f THEN "EXEC" ELSE state_[g]
    BY <1>0 DEF Enter
  <2>2. func_' = func_ /\ aborted' = aborted
    BY DEF Enter
  <2> QED
    BY <2>1, <2>2 DEF RunInv, Ended
<1>6. Executing'
  <2>1. ASSUME NEW u \in Workers, pc'[u] \in {"run", "armed"}
        PROVE  state_'[cur'[u]] = "EXEC" /\ func_'[cur'[u]] # None
    <3>1. CASE u = t
      BY <1>0, <3>1 DEF Enter
    <3>2. CASE u # t
      <4>1. pc[u] \in {"run", "armed"} /\ cur'[u] = cur[u]
        BY <1>0, <2>1, <3>2 DEF Enter
      <4>2. state_[cur[u]] = "EXEC" /\ func_[cur[u]] # None
        BY <4>1 DEF RunInv, Executing, Enter
      <4> QED
        BY <1>0, <4>1, <4>2 DEF Enter
    <3> QED
      BY <3>1, <3>2
  <2> QED
    BY <2>1 DEF Executing
<1> QED
  BY <1>1, <1>2, <1>4, <1>5, <1>6 DEF RunInv

-----------------------------------------------------------------------------
\* The worker executes on the stack of f, alone.
On(t, f) ==
    /\ Running /\ cur[t] = f /\ Target(t) = f /\ f # None
    /\ \A u \in Workers \ {t} : cur[u] # f

\* Between Resume and swapcontext a worker executes its own target, which runs a callback.
LEMMA BodyRunsOn ==
    ASSUME RunInv, NEW t \in Workers, Running, pc[t] \in {"run", "armed", "swap"}
    PROVE  /\ \E f \in Fibers : On(t, f)
           /\ pc[t] \in {"run", "armed"} =>
                 /\ state_[cur[t]] = "EXEC" /\ func_[cur[t]] # None
                 /\ func_[cur[t]] \in Callbacks
<1>1. cur[t] = Target(t) /\ Target(t) \in Fibers
  BY DEF RunInv, Hands, Flight
<1>2. \A f \in Fibers : f # None
  BY NewTasks
<1>3. On(t, cur[t])
  BY <1>1, <1>2 DEF On, Running, Corrupted
<1> QED
  BY <1>1, <1>3 DEF RunInv, RunTypes, Executing

\* What the body does: it arms a waker, yields, ends or throws; and the stack leaves the
\* thread.
Acts(t, f) ==
    /\ On(t, f)
    /\ \/ /\ pc[t] = "run" /\ pc' = [pc EXCEPT ![t] = "armed"]
          /\ (\E why \in {"queue", "condvar", "event", "timer"} : waiting' = [waiting EXCEPT ![f] = why])
          /\ UNCHANGED <<state_, func_, cur, phase, aborted>>
       \/ /\ pc[t] = "armed" /\ pc' = [pc EXCEPT ![t] = "swap"]
          /\ state_' = [state_ EXCEPT ![f] = "HOLD"]
          /\ UNCHANGED <<waiting, func_, cur, phase, aborted>>
       \/ /\ pc[t] = "run" /\ pc' = [pc EXCEPT ![t] = "swap"]
          /\ state_' = [state_ EXCEPT ![f] = "READY"]
          /\ UNCHANGED <<waiting, func_, cur, phase, aborted>>
       \/ /\ pc[t] = "run" /\ pc' = [pc EXCEPT ![t] = "swap"]
          /\ state_' = [state_ EXCEPT ![f] = "TERM"]
          /\ func_' = [func_ EXCEPT ![f] = None]
          /\ phase' = [phase EXCEPT ![func_[f]] = "finished"]
          /\ UNCHANGED <<waiting, cur, aborted>>
       \/ /\ pc[t] = "run" /\ state_' = [state_ EXCEPT ![f] = "EXCEPT"]
          /\ aborted' = "exception"
          /\ UNCHANGED <<waiting, pc, func_, cur, phase>>
       \/ /\ pc[t] = "swap" /\ pc' = [pc EXCEPT ![t] = "after"]
          /\ cur' = [cur EXCEPT ![t] = None]
          /\ UNCHANGED <<waiting, state_, func_, phase, aborted>>
    /\ UNCHANGED <<workers, tasks_, s_fiber_id, task, cached>>

\* Every step of the body of a task is one of the effects of Acts on the fiber it runs on.
LEMMA BodyActs ==
    ASSUME RunInv, NEW t \in Workers,
           \/ (\E why \in WaitKinds : Arm(t, why)) \/ YieldToHold(t) \/ YieldToReady(t)
           \/ Finish(t) \/ Throw(t) \/ SwapOut(t)
    PROVE  \E f \in Fibers : Acts(t, f)
<1>1. Running /\ pc[t] \in {"run", "armed", "swap"}
  BY DEF Arm, YieldToHold, YieldToReady, Finish, Throw, SwapOut, At
<1>2. PICK f \in Fibers : On(t, f)
  BY <1>1, BodyRunsOn
<1>3. cur[t] = f
  BY <1>2 DEF On
<1>4. CASE \E why \in WaitKinds : Arm(t, why)
  <2>1. \E why \in {"queue", "condvar", "event", "timer"} : waiting' = [waiting EXCEPT ![f] = why]
    BY <1>3, <1>4, SchedulerAssumption DEF Arm
  <2> QED
    BY <1>2, <1>3, <1>4, <2>1 DEF Arm, Acts, At
<1>5. CASE YieldToHold(t)
  BY <1>2, <1>3, <1>5 DEF YieldToHold, Acts, At
<1>6. CASE YieldToReady(t)
  BY <1>2, <1>3, <1>6 DEF YieldToReady, Acts, At
<1>7. CASE Finish(t)
  BY <1>2, <1>3, <1>7 DEF Finish, Acts, At
<1>8. CASE Throw(t)
  BY <1>2, <1>3, <1>8 DEF Throw, Acts, At
<1>9. CASE SwapOut(t)
  BY <1>2, <1>3, <1>9 DEF SwapOut, Acts, At
<1> QED
  BY <1>4, <1>5, <1>6, <1>7, <1>8, <1>9

\* The steps of a body keep RunInv.
LEMMA RunActs ==
    ASSUME RunInv, NEW t \in Workers, NEW f \in Fibers, Acts(t, f) PROVE RunInv'
<1>0. /\ pc \in [Workers -> Empty \cup Flight \cup {"tickle", "dispatch"}]
      /\ state_ \in [Fibers -> States] /\ cur \in [Workers -> Fibers \cup {None}]
      /\ func_ \in [Fibers -> Callbacks \cup {None}]
      /\ waiting \in [Fibers -> {"no", "queue", "condvar", "event", "timer"}]
      /\ phase \in [Callbacks -> {"unsubmitted", "submitted", "started", "finished"}]
  BY DEF RunInv, RunTypes
<1>a. /\ pc[t] \in {"run", "armed", "swap"} /\ Running
      /\ cur[t] = f /\ Target(t) = f /\ \A u \in Workers \ {t} : cur[u] # f
      /\ UNCHANGED <<workers, tasks_, s_fiber_id, task, cached>>
  BY DEF Acts, On
<1>b. PICK l \in {"run", "armed", "swap", "after"} :
         /\ pc' = [pc EXCEPT ![t] = l]
         /\ cur' = [cur EXCEPT ![t] = IF l = "after" THEN None ELSE f]
  <2>1. \/ cur' = cur /\ \E l \in {"run", "armed", "swap"} : pc' = [pc EXCEPT ![t] = l]
        \/ pc' = [pc EXCEPT ![t] = "after"] /\ cur' = [cur EXCEPT ![t] = None]
    BY <1>0, <1>a DEF Acts
  <2> QED
    BY <1>0, <1>a, <2>1
<1>c. PICK st \in States :
         /\ state_' = [state_ EXCEPT ![f] = st]
         /\ st = "EXCEPT" => aborted' # "no"
         /\ st = "TERM" => func_'[f] = None
  <2>1. \/ state_' = state_ /\ func_' = func_ /\ aborted' = aborted
        \/ \E st \in {"HOLD", "READY"} : state_' = [state_ EXCEPT ![f] = st]
        \/ state_' = [state_ EXCEPT ![f] = "TERM"] /\ func_' = [func_ EXCEPT ![f] = None]
        \/ state_' = [state_ EXCEPT ![f] = "EXCEPT"] /\ aborted' = "exception"
    BY DEF Acts
  <2>2. CASE state_' = state_ /\ func_' = func_ /\ aborted' = aborted
    BY <1>0, <2>2 DEF RunInv, Ended
  <2> QED
    BY <1>0, <2>1, <2>2 DEF States
<1>d. func_' = func_ \/ func_' = [func_ EXCEPT ![f] = None]
  BY DEF Acts
<1>e. aborted # "no" => aborted' # "no"
  BY DEF Acts
<1>1. RunTypes'
  <2>1. waiting' \in [Fibers -> {"no", "queue", "condvar", "event", "timer"}]
    BY <1>0 DEF Acts
  <2>2. phase' \in [Callbacks -> {"unsubmitted", "submitted", "started", "finished"}]
    BY <1>0 DEF Acts
  <2>3. pc' \in [Workers -> Empty \cup Flight \cup {"tickle", "dispatch"}]
    BY <1>0, <1>b DEF Flight
  <2> QED
    BY <1>0, <1>a, <1>b, <1>c, <1>d, <2>1, <2>2, <2>3 DEF RunInv, RunTypes
<1>2. ASSUME NEW u \in Workers PROVE Hands(u)'
  <2>1. Hands(u) /\ Target(u)' = Target(u)
    BY <1>a DEF RunInv, Target
  <2>2. CASE u = t
    <3>1. /\ pc'[u] = l /\ cur'[u] = (IF l = "after" THEN None ELSE f)
          /\ task'[u] = task[u] /\ Target(u) = f
      BY <1>0, <1>a, <1>b, <2>2
    <3>2. task[u].func = None
      BY <1>a, <2>1, <2>2 DEF Hands, Flight
    <3> QED
      BY <2>1, <3>1, <3>2 DEF Hands, Empty, Flight
  <2>3. CASE u # t
    <3>1. pc'[u] = pc[u] /\ cur'[u] = cur[u] /\ task' = task /\ cached' = cached
      BY <1>0, <1>a, <1>b, <2>3
    <3> QED
      BY <2>1, <3>1 DEF Hands
  <2> QED
    BY <2>2, <2>3
<1>3. \A u \in Workers : Own(u)' <=> Own(u)
  BY <1>0, <1>a, <1>b DEF Own, Flight
<1>4. Caches'
  <2>1. \A g \in Fibers : func_[g] = None => func_'[g] = None
    BY <1>0, <1>d
  <2>2. \A u \in Workers : cached[u] \in Fibers \cup {None}
    BY DEF RunInv, RunTypes
  <2> QED
    BY <1>a, <1>3, <2>1, <2>2 DEF RunInv, Caches
<1>5. Ended'
  <2>1. \A g \in Fibers : g # f => state_'[g] = state_[g] /\ func_'[g] = func_[g]
    BY <1>0, <1>c, <1>d
  <2>2. state_'[f] = st
    BY <1>0, <1>c
  <2> QED
    BY <1>c, <1>e, <2>1, <2>2 DEF RunInv, Ended
<1>6. Executing'
  <2>1. SUFFICES ASSUME aborted' = "no", NEW u \in Workers, pc'[u] \in {"run", "armed"}
                 PROVE  state_'[cur'[u]] = "EXEC" /\ func_'[cur'[u]] # None
    BY DEF Executing, Running
  <2>2. CASE u = t
    <3>1. state_' = state_ /\ func_' = func_ /\ cur' = cur /\ pc[t] = "run"
      BY <1>0, <2>1, <2>2 DEF Acts
    <3>2. state_[cur[t]] = "EXEC" /\ func_[cur[t]] # None
      BY <1>a, <3>1 DEF RunInv, Executing
    <3> QED
      BY <2>2, <3>1, <3>2
  <2>3. CASE u # t
    <3>1. pc[u] \in {"run", "armed"} /\ cur'[u] = cur[u] /\ cur[u] # f /\ cur[u] \in Fibers
      <4>1. pc[u] \in {"run", "armed"} /\ cur'[u] = cur[u] /\ cur[u] # f
        BY <1>0, <1>a, <1>b, <2>1, <2>3
      <4>2. Hands(u)
        BY DEF RunInv
      <4> QED
        BY <4>1, <4>2 DEF Hands, Flight
    <3>2. state_[cur[u]] = "EXEC" /\ func_[cur[u]] # None
      BY <1>a, <3>1 DEF RunInv, Executing
    <3> QED
      BY <1>0, <1>c, <1>d, <3>1, <3>2
  <2> QED
    BY <2>2, <2>3
<1> QED
  BY <1>1, <1>2, <1>4, <1>5, <1>6 DEF RunInv

\* Run looks at the fiber again: a READY one goes back into the queue, and of its own
\* fiber the worker keeps what has ended.
Back(t, f) ==
    /\ Running /\ pc[t] = "after" /\ Target(t) = f /\ f # None /\ state_[f] # "EXCEPT"
    /\ tasks_' = IF state_[f] = "READY" THEN Append(tasks_, FiberTask(f)) ELSE tasks_
    /\ IF Own(t) /\ state_[f] = "TERM"
       THEN cached[t] = f /\ state_' = [state_ EXCEPT ![f] = "INIT"] /\ cached' = cached
       ELSE /\ state_' = state_
            /\ cached' = [cached EXCEPT ![t] = IF Own(t) THEN None ELSE cached[t]]
    /\ task' = [task EXCEPT ![t] = NoTask]
    /\ pc' = [pc EXCEPT ![t] = "scan"]
    /\ UNCHANGED <<workers, func_, s_fiber_id, waiting, cur, phase, aborted>>

\* AfterResume is such a step: a fiber that has ended has no function left to clear.
LEMMA AfterGoesBack ==
    ASSUME RunInv, NEW t \in Workers, AfterResume(t)
    PROVE  \E f \in Fibers : Back(t, f)
<1>0. /\ Running /\ pc[t] = "after" /\ Target(t) \in Fibers /\ Target(t) # None
      /\ cached \in [Workers -> Fibers \cup {None}] /\ func_ \in [Fibers -> Callbacks \cup {None}]
      /\ (Own(t) <=> task[t].fiber = None)
      /\ (Own(t) => Target(t) = cached[t])
  BY NewTasks DEF AfterResume, At, RunInv, RunTypes, Hands, Flight, Own, Target
<1>1. PICK f \in Fibers : f = Target(t)
  BY <1>0
<1>2. state_[f] # "EXCEPT" /\ (state_[f] = "TERM" => func_[f] = None)
  BY <1>0, <1>1 DEF RunInv, Ended, Running
<1>3. tasks_' = IF state_[f] = "READY" THEN Append(tasks_, FiberTask(f)) ELSE tasks_
  BY <1>1 DEF AfterResume, Resubmits, Enqueue
<1>4. CASE Own(t) /\ state_[f] = "TERM"
  <2>1. cached' = cached /\ state_' = [state_ EXCEPT ![f] = "INIT"]
        /\ func_' = [func_ EXCEPT ![f] = None]
    BY <1>0, <1>1, <1>4 DEF AfterResume, Recycles
  <2>2. func_' = func_
    BY <1>0, <1>2, <1>4, <2>1
  <2> QED
    BY <1>0, <1>1, <1>2, <1>3, <1>4, <2>1, <2>2 DEF AfterResume, Back
<1>5. CASE Own(t) /\ state_[f] # "TERM"
  <2>1. cached' = [cached EXCEPT ![t] = None] /\ state_' = state_ /\ func_' = func_
    BY <1>0, <1>1, <1>2, <1>5 DEF AfterResume, Recycles
  <2> QED
    BY <1>0, <1>1, <1>2, <1>3, <1>5, <2>1 DEF AfterResume, Back
<1>6. CASE ~Own(t)
  <2>1. cached' = cached /\ state_' = state_ /\ func_' = func_
    BY <1>0, <1>1, <1>6 DEF AfterResume
  <2>2. cached' = [cached EXCEPT ![t] = cached[t]]
    BY <1>0, <2>1
  <2> QED
    BY <1>0, <1>1, <1>2, <1>3, <1>6, <2>1, <2>2 DEF AfterResume, Back
<1> QED
  BY <1>4, <1>5, <1>6

\* Going back preserves the invariant.
LEMMA RunBack == ASSUME RunInv, NEW t \in Workers, NEW f \in Fibers, Back(t, f) PROVE RunInv'
<1>0. /\ pc \in [Workers -> Empty \cup Flight \cup {"tickle", "dispatch"}]
      /\ task \in [Workers -> PlainTasks \cup {NoTask}] /\ tasks_ \in Seq(PlainTasks)
      /\ state_ \in [Fibers -> States] /\ cached \in [Workers -> Fibers \cup {None}]
  BY DEF RunInv, RunTypes
<1>a. /\ task' = [task EXCEPT ![t] = NoTask] /\ pc' = [pc EXCEPT ![t] = "scan"]
      /\ pc[t] = "after" /\ Running
      /\ UNCHANGED <<workers, func_, s_fiber_id, waiting, cur, phase, aborted>>
  BY DEF Back
<1>b. tasks_' \in Seq(PlainTasks)
  <2>1. FiberTask(f) \in PlainTasks
    BY NewTasks
  <2>2. Append(tasks_, FiberTask(f)) \in Seq(PlainTasks)
    BY <1>0, <2>1, AppendFacts
  <2> QED
    BY <1>0, <2>2 DEF Back
<1>c. PICK d \in Fibers \cup {None} :
         /\ cached' = [cached EXCEPT ![t] = d] /\ (d = None \/ d = cached[t])
         /\ d # None /\ Own(t) => state_[f] = "TERM" /\ d = f
  <2>1. CASE Own(t) /\ state_[f] = "TERM"
    BY <1>0, <2>1 DEF Back
  <2>2. CASE ~(Own(t) /\ state_[f] = "TERM")
    BY <1>0, <2>2 DEF Back
  <2> QED
    BY <2>1, <2>2
<1>d. state_' = state_ \/ (state_[f] = "TERM" /\ state_' = [state_ EXCEPT ![f] = "INIT"])
  BY DEF Back
<1>1. RunTypes'
  <2>1. state_' \in [Fibers -> States] /\ cached' \in [Workers -> Fibers \cup {None}]
    BY <1>0, <1>c, <1>d DEF States
  <2>2. pc' \in [Workers -> Empty \cup Flight \cup {"tickle", "dispatch"}]
    BY <1>0, <1>a DEF Empty
  <2> QED
    BY <1>0, <1>a, <1>b, <2>1, <2>2 DEF RunInv, RunTypes
<1>2. ASSUME NEW u \in Workers PROVE Hands(u)'
  <2>1. Hands(u)
    BY DEF RunInv
  <2>2. CASE u = t
    <3>1. pc'[u] = "scan" /\ task'[u] = NoTask /\ cur'[u] = None
      BY <1>0, <1>a, <2>1, <2>2 DEF Hands
    <3> QED
      BY <3>1 DEF Hands, Empty, Flight
  <2>3. CASE u # t
    BY <1>0, <1>a, <1>c, <2>1, <2>3 DEF Hands, Target
  <2> QED
    BY <2>2, <2>3
<1>3. ~Own(t)' /\ \A u \in Workers \ {t} : Own(u)' <=> Own(u)
  BY <1>0, <1>a DEF Own, Flight
<1>4. Caches'
  <2>1. \A u \in Workers : cached'[u] = IF u = t THEN d ELSE cached[u]
    BY <1>0, <1>c
  <2>2. d # None => func_[d] = None
    <3>1. CASE Own(t)
      BY <1>c, <3>1 DEF RunInv, Ended
    <3>2. CASE ~Own(t)
      BY <1>c, <3>2 DEF RunInv, Caches
    <3> QED
      BY <3>1, <3>2
  <2> QED
    BY <1>a, <1>c, <1>3, <2>1, <2>2 DEF RunInv, Caches
<1>5. Ended'
  BY <1>0, <1>a, <1>d DEF RunInv, Ended
<1>6. Executing'
  <2>1. ASSUME NEW u \in Workers, pc'[u] \in {"run", "armed"}
        PROVE  state_'[cur'[u]] = "EXEC" /\ func_'[cur'[u]] # None
    <3>1. pc[u] \in {"run", "armed"}
      BY <1>0, <1>a, <2>1
    <3>2. state_[cur[u]] = "EXEC" /\ func_[cur[u]] # None
      BY <1>a, <3>1 DEF RunInv, Executing
    <3>3. cur[u] \in Fibers
      <4>1. Hands(u)
        BY DEF RunInv
      <4> QED
        BY <3>1, <4>1 DEF Hands, Flight
    <3>4. state_'[cur[u]] = state_[cur[u]]
      BY <1>0, <1>d, <3>2, <3>3
    <3> QED
      BY <1>a, <3>2, <3>4
  <2> QED
    BY <2>1 DEF Executing
<1> QED
  BY <1>1, <1>2, <1>4, <1>5, <1>6 DEF RunInv

-----------------------------------------------------------------------------
\* Every step, by what it does to the state of Run.
Effects ==
    \/ UNCHANGED runVars
    \/ \E c \in Callbacks, th \in workers \cup {None} : Submit(c, th)
    \/ \E f \in Fibers : Wake(f)
    \/ \E t \in Workers :
          \/ \E l : Moved(t, l)
          \/ TakeTask(t) \/ DispatchFiber(t) \/ Refused(t)
          \/ \E f \in Fibers : \/ \E c \in Callbacks : Bind(t, f, c) \/ Enter(t, f, c)
                               \/ Acts(t, f) \/ Back(t, f)

\* Every step of the scheduler has one of the listed effects.
LEMMA StepEffects == ASSUME RunInv, [Next]_vars PROVE Effects
<1>1. ASSUME NEW t \in Workers, DispatchCallback(t) PROVE Effects
  BY <1>1, DispatchBinds DEF Effects
<1>2. ASSUME NEW t \in Workers, Resume(t) PROVE Effects
  BY <1>2, ResumeEnters DEF Effects
<1>3. ASSUME NEW t \in Workers,
             \/ (\E why \in WaitKinds : Arm(t, why)) \/ YieldToHold(t) \/ YieldToReady(t)
             \/ Finish(t) \/ Throw(t) \/ SwapOut(t)
      PROVE  Effects
  BY <1>3, BodyActs DEF Effects
<1>4. ASSUME NEW t \in Workers, AfterResume(t) PROVE Effects
  BY <1>4, AfterGoesBack DEF Effects
<1>5. ASSUME NEW t \in Workers, (\E l : Moved(t, l)) \/ TakeTask(t) \/ DispatchFiber(t)
      PROVE  Effects
  BY <1>5 DEF Effects
<1> QED
  BY <1>1, <1>2, <1>3, <1>4, <1>5, StepCases DEF Effects

\* Submit and Wake append a task to the queue.
LEMMA RunSubmit ==
    ASSUME RunInv, NEW c \in Callbacks, NEW th \in workers \cup {None}, Submit(c, th)
    PROVE  RunInv'
<1>1. CallbackTask(c, th) \in PlainTasks
  BY NewTasks DEF RunInv, RunTypes
<1>2. tasks_' \in Seq(PlainTasks)
  BY <1>1, AppendFacts DEF Submit, Enqueue, RunInv, RunTypes
<1>3. phase' \in [Callbacks -> {"unsubmitted", "submitted", "started", "finished"}]
  BY DEF Submit, RunInv, RunTypes
<1> QED
  BY <1>2, <1>3, RunOutside DEF Submit, RunInv, RunTypes

\* A wake-up only appends a task: RunInv is kept.
LEMMA RunWake == ASSUME RunInv, NEW f \in Fibers, Wake(f) PROVE RunInv'
<1>1. FiberTask(f) \in PlainTasks
  BY NewTasks
<1>2. tasks_' \in Seq(PlainTasks)
  BY <1>1, AppendFacts DEF Wake, Enqueue, RunInv, RunTypes
<1>3. waiting' \in [Fibers -> {"no", "queue", "condvar", "event", "timer"}]
  BY DEF Wake, RunInv, RunTypes
<1> QED
  BY <1>2, <1>3, RunOutside DEF Wake, RunInv, RunTypes

\* Every step preserves the invariant.
LEMMA RunInvStep == RunInv /\ [Next]_vars => RunInv'
<1> SUFFICES ASSUME RunInv, [Next]_vars PROVE RunInv'
  OBVIOUS
<1>1. CASE UNCHANGED runVars
  BY <1>1, RunOutside DEF runVars, RunInv, RunTypes
<1> QED
  BY <1>1, StepEffects, RunSubmit, RunWake, RunMoved, RunTask, RunRefused, RunBind, RunEnter,
     RunActs, RunBack
     DEF Effects

\* Run's own bookkeeping is right in every reachable state, for any number of workers.
THEOREM RunInvHolds == Spec => []RunInv
  BY RunInit, RunInvStep, PTL DEF Spec

-----------------------------------------------------------------------------
\* The queue, the hands and the fibers after a step, as far as functions go.
LEMMA OnceKept ==
    ASSUME OnceInv, UNCHANGED phase,
           \A c \in Callbacks : /\ Queued(c)' <=> Queued(c)
                                /\ Taken(c)' <=> Taken(c)
                                /\ Bound(c)' <=> Bound(c)
                                /\ FuncOnce(tasks_, c)',
           \A c \in Callbacks : \A t, u \in Workers :
               task'[t].func = c /\ task'[u].func = c => t = u,
           \A c \in Callbacks : \A f, g \in Fibers :
               func_'[f] = c /\ func_'[g] = c => f = g
    PROVE  OnceInv'
  BY DEF OnceInv

\* A fiber appended to the queue is no function.
LEMMA FiberAppended ==
    ASSUME NEW q \in Seq(PlainTasks), NEW f \in Fibers
    PROVE  LET r == Append(q, FiberTask(f)) IN
           /\ \A c \in Callbacks : /\ HasFunc(r, c) <=> HasFunc(q, c)
                                   /\ FuncOnce(q, c) => FuncOnce(r, c)
           /\ \A g \in Fibers : HasFiber(r, g) <=> g = f \/ HasFiber(q, g)
           /\ ~HasFiber(q, f) /\ FibersOnce(q) => FibersOnce(r)
<1> DEFINE r == Append(q, FiberTask(f))
<1>1. /\ FiberTask(f) \in PlainTasks /\ FiberTask(f).fiber = f /\ FiberTask(f).func = None
      /\ \A c \in Callbacks : c # None
  BY NewTasks, SchedulerAssumption
<1>2. /\ Len(r) = Len(q) + 1 /\ Len(q) \in Nat /\ r[Len(q) + 1] = FiberTask(f)
      /\ \A i \in 1 .. Len(q) : r[i] = q[i]
  BY <1>1, AppendFacts
<1> HIDE DEF r
<1>3. \A i \in 1 .. Len(r) : i \in 1 .. Len(q) \/ i = Len(q) + 1
  BY <1>2
<1>4. \A i \in 1 .. Len(q) : i \in 1 .. Len(r) /\ r[i] = q[i]
  BY <1>2
<1>5. Len(q) + 1 \in 1 .. Len(r)
  BY <1>2
<1>6. /\ \A c \in Callbacks : /\ HasFunc(r, c) <=> HasFunc(q, c)
                              /\ FuncOnce(q, c) => FuncOnce(r, c)
      /\ \A g \in Fibers : HasFiber(r, g) <=> g = f \/ HasFiber(q, g)
      /\ ~HasFiber(q, f) /\ FibersOnce(q) => FibersOnce(r)
  BY <1>1, <1>2, <1>3, <1>4, <1>5 DEF HasFunc, HasFiber, FuncOnce, FibersOnce
<1> QED
  BY <1>6 DEF r

\* A function appended to the queue is no fiber.
LEMMA FunctionAppended ==
    ASSUME NEW q \in Seq(PlainTasks), NEW c \in Callbacks, NEW th \in Workers \cup {None}
    PROVE  LET r == Append(q, CallbackTask(c, th)) IN
           /\ \A d \in Callbacks : /\ HasFunc(r, d) <=> d = c \/ HasFunc(q, d)
                                   /\ (d = c => ~HasFunc(q, c)) /\ FuncOnce(q, d)
                                         => FuncOnce(r, d)
           /\ \A g \in Fibers : HasFiber(r, g) <=> HasFiber(q, g)
           /\ FibersOnce(q) => FibersOnce(r)
<1> DEFINE r == Append(q, CallbackTask(c, th))
<1>1. /\ CallbackTask(c, th) \in PlainTasks /\ CallbackTask(c, th).fiber = None
      /\ CallbackTask(c, th).func = c /\ \A f \in Fibers : f # None
  BY NewTasks
<1>2. /\ Len(r) = Len(q) + 1 /\ Len(q) \in Nat /\ r[Len(q) + 1] = CallbackTask(c, th)
      /\ \A i \in 1 .. Len(q) : r[i] = q[i]
  BY <1>1, AppendFacts
<1> HIDE DEF r
<1>3. \A i \in 1 .. Len(r) : i \in 1 .. Len(q) \/ i = Len(q) + 1
  BY <1>2
<1>4. \A i \in 1 .. Len(q) : i \in 1 .. Len(r) /\ r[i] = q[i]
  BY <1>2
<1>5. Len(q) + 1 \in 1 .. Len(r)
  BY <1>2
<1>6. /\ \A d \in Callbacks : /\ HasFunc(r, d) <=> d = c \/ HasFunc(q, d)
                              /\ (d = c => ~HasFunc(q, c)) /\ FuncOnce(q, d) => FuncOnce(r, d)
      /\ \A g \in Fibers : HasFiber(r, g) <=> HasFiber(q, g)
      /\ FibersOnce(q) => FibersOnce(r)
  BY <1>1, <1>2, <1>3, <1>4, <1>5 DEF HasFunc, HasFiber, FuncOnce, FibersOnce
<1> QED
  BY <1>6 DEF r

\* A task taken out of the queue: the others stay.
LEMMA TaskRemoved ==
    ASSUME NEW q \in Seq(PlainTasks), NEW n \in 1 .. Len(q)
    PROVE  LET r == RemoveAt(q, n) IN
           /\ \A c \in Callbacks :
                 /\ FuncOnce(q, c) => FuncOnce(r, c)
                 /\ q[n].func # c => (HasFunc(r, c) <=> HasFunc(q, c))
                 /\ q[n].func = c => HasFunc(q, c) /\ (FuncOnce(q, c) => ~HasFunc(r, c))
           /\ \A f \in Fibers :
                 /\ HasFiber(q, f) => q[n].fiber = f \/ HasFiber(r, f)
                 /\ HasFiber(r, f) => HasFiber(q, f)
                 /\ q[n].fiber = f => HasFiber(q, f) /\ (FibersOnce(q) => ~HasFiber(r, f))
           /\ FibersOnce(q) => FibersOnce(r)
<1> DEFINE r == RemoveAt(q, n)
<1> DEFINE at(j) == IF j < n THEN j ELSE j + 1
<1>1. /\ Len(q) \in Nat /\ Len(r) = Len(q) - 1 /\ n \in Int
      /\ \A k \in 1 .. Len(q) - 1 : r[k] = IF k < n THEN q[k] ELSE q[k + 1]
  <2>1. Len(q) \in Nat /\ n \in Int
    OBVIOUS
  <2>2. /\ Len(RemoveAt(q, n)) = Len(q) - 1
        /\ \A k \in 1 .. Len(q) - 1 : RemoveAt(q, n)[k] = IF k < n THEN q[k] ELSE q[k + 1]
    BY RemoveFacts
  <2> QED
    BY <2>1, <2>2
<1> HIDE DEF r
<1>2. ASSUME NEW j \in 1 .. Len(r) PROVE at(j) \in 1 .. Len(q) /\ at(j) # n /\ r[j] = q[at(j)]
  <2>1. j \in 1 .. Len(q) - 1 /\ j \in Int
    BY <1>1
  <2>2. CASE j < n
    BY <1>1, <2>1, <2>2
  <2>3. CASE ~(j < n)
    BY <1>1, <2>1, <2>3
  <2> QED
    BY <2>2, <2>3
<1>3. ASSUME NEW i \in 1 .. Len(r), NEW j \in 1 .. Len(r), at(i) = at(j) PROVE i = j
  BY <1>1, <1>3
<1>4. ASSUME NEW i \in 1 .. Len(q), i # n PROVE \E j \in 1 .. Len(r) : r[j] = q[i]
  <2>1. CASE i < n
    <3>1. i \in 1 .. Len(r) /\ at(i) = i
      BY <1>1, <2>1
    <3> QED
      BY <1>2, <3>1
  <2>2. CASE ~(i < n)
    <3>1. i - 1 \in 1 .. Len(r) /\ ~(i - 1 < n) /\ (i - 1) + 1 = i
      BY <1>1, <1>4, <2>2
    <3>2. at(i - 1) = i
      BY <3>1
    <3> HIDE DEF at
    <3> QED
      BY <1>2, <3>1, <3>2
  <2> QED
    BY <2>1, <2>2
<1> HIDE DEF at
<1>5. \A j \in 1 .. Len(r) : \E i \in 1 .. Len(q) : i # n /\ r[j] = q[i]
  BY <1>2
<1>6. /\ \A c \in Callbacks :
            /\ FuncOnce(q, c) => FuncOnce(r, c)
            /\ q[n].func # c => (HasFunc(r, c) <=> HasFunc(q, c))
            /\ q[n].func = c => HasFunc(q, c) /\ (FuncOnce(q, c) => ~HasFunc(r, c))
      /\ FibersOnce(q) => FibersOnce(r)
  <2>1. ASSUME NEW c \in Callbacks, FuncOnce(q, c) PROVE FuncOnce(r, c)
    <3>1. SUFFICES ASSUME NEW i \in 1 .. Len(r), NEW j \in 1 .. Len(r),
                          r[i].func = c, r[j].func = c
                   PROVE  i = j
      BY DEF FuncOnce
    <3>2. at(i) = at(j)
      BY <1>2, <2>1, <3>1 DEF FuncOnce
    <3> QED
      BY <1>3, <3>2
  <2>2. ASSUME FibersOnce(q) PROVE FibersOnce(r)
    <3>1. SUFFICES ASSUME NEW i \in 1 .. Len(r), NEW j \in 1 .. Len(r),
                          r[i].fiber # None, r[i].fiber = r[j].fiber
                   PROVE  i = j
      BY DEF FibersOnce
    <3>2. at(i) = at(j)
      BY <1>2, <2>2, <3>1 DEF FibersOnce
    <3> QED
      BY <1>3, <3>2
  <2>3. ASSUME NEW c \in Callbacks
        PROVE  /\ q[n].func # c => (HasFunc(r, c) <=> HasFunc(q, c))
               /\ q[n].func = c => HasFunc(q, c) /\ (FuncOnce(q, c) => ~HasFunc(r, c))
    BY <1>4, <1>5 DEF HasFunc, FuncOnce
  <2> QED
    BY <2>1, <2>2, <2>3
<1>7. \A f \in Fibers : f # None
  BY NewTasks
<1>8. \A f \in Fibers :
         /\ HasFiber(q, f) => q[n].fiber = f \/ HasFiber(r, f)
         /\ HasFiber(r, f) => HasFiber(q, f)
         /\ q[n].fiber = f => HasFiber(q, f) /\ (FibersOnce(q) => ~HasFiber(r, f))
  BY <1>4, <1>5, <1>7 DEF HasFiber, FibersOnce
<1> QED
  BY <1>6, <1>8 DEF r

\* Steps of the queue: a function or a fiber is appended, or a worker takes a task.
LEMMA OnceSubmit ==
    ASSUME RunInv, OnceInv, NEW c \in Callbacks, NEW th \in workers \cup {None}, Submit(c, th)
    PROVE  OnceInv'
<1>0. /\ tasks_ \in Seq(PlainTasks) /\ th \in Workers \cup {None}
      /\ phase \in [Callbacks -> {"unsubmitted", "submitted", "started", "finished"}]
  BY DEF RunInv, RunTypes
<1>1. /\ tasks_' = Append(tasks_, CallbackTask(c, th))
      /\ phase[c] = "unsubmitted" /\ phase' = [phase EXCEPT ![c] = "submitted"]
      /\ UNCHANGED <<task, func_>>
  BY DEF Submit, Enqueue
<1>2. ~Queued(c) /\ ~Taken(c) /\ ~Bound(c)
  BY <1>1 DEF OnceInv
<1>3. \A d \in Callbacks : /\ Queued(d)' <=> d = c \/ Queued(d)
                           /\ Taken(d)' <=> Taken(d)
                           /\ Bound(d)' <=> Bound(d)
  BY <1>0, <1>1, FunctionAppended DEF Queued, Taken, Bound
<1>4. \A d \in Callbacks : FuncOnce(tasks_', d)
  BY <1>0, <1>1, <1>2, FunctionAppended DEF OnceInv, Queued
<1>5. \A d \in Callbacks : phase'[d] = IF d = c THEN "submitted" ELSE phase[d]
  BY <1>0, <1>1
<1>6. /\ \A d \in Callbacks : \A t, u \in Workers :
            task'[t].func = d /\ task'[u].func = d => t = u
      /\ \A d \in Callbacks : \A f, g \in Fibers : func_'[f] = d /\ func_'[g] = d => f = g
  BY <1>1 DEF OnceInv
<1> QED
  BY <1>2, <1>3, <1>4, <1>5, <1>6 DEF OnceInv

\* A wake-up appends a task without a callback: no callback moves.
LEMMA OnceWake == ASSUME RunInv, OnceInv, NEW f \in Fibers, Wake(f) PROVE OnceInv'
<1>0. tasks_ \in Seq(PlainTasks)
  BY DEF RunInv, RunTypes
<1>1. tasks_' = Append(tasks_, FiberTask(f)) /\ UNCHANGED <<task, func_, phase>>
  BY DEF Wake, Enqueue
<1>2. \A d \in Callbacks : /\ Queued(d)' <=> Queued(d)
                           /\ Taken(d)' <=> Taken(d)
                           /\ Bound(d)' <=> Bound(d)
  BY <1>0, <1>1, FiberAppended DEF Queued, Taken, Bound
<1>3. \A d \in Callbacks : FuncOnce(tasks_', d)
  BY <1>0, <1>1, FiberAppended DEF OnceInv
<1>4. /\ \A d \in Callbacks : \A t, u \in Workers :
            task'[t].func = d /\ task'[u].func = d => t = u
      /\ \A d \in Callbacks : \A g, h \in Fibers : func_'[g] = d /\ func_'[h] = d => g = h
  BY <1>1 DEF OnceInv
<1> QED
  BY <1>1, <1>2, <1>3, <1>4, OnceKept

\* A task that is taken moves its callback from tasks_ to one worker.
LEMMA OnceTake == ASSUME RunInv, OnceInv, NEW t \in Workers, TakeTask(t) PROVE OnceInv'
<1>0. /\ tasks_ \in Seq(PlainTasks) /\ task \in [Workers -> PlainTasks \cup {NoTask}]
      /\ \A c \in Callbacks : c # None
  BY SchedulerAssumption DEF RunInv, RunTypes
<1>1. PICK n \in 1 .. Len(tasks_) :
         task' = [task EXCEPT ![t] = tasks_[n]] /\ tasks_' = RemoveAt(tasks_, n)
  BY DEF TakeTask, Erase
<1>2. UNCHANGED <<func_, phase>> /\ task[t].func = None
  BY NewTasks DEF TakeTask, At, RunInv, Hands, Empty
<1>3. \A u \in Workers : task'[u] = IF u = t THEN tasks_[n] ELSE task[u]
  BY <1>0, <1>1
<1>4. \A c \in Callbacks :
         /\ FuncOnce(tasks_, c) => FuncOnce(tasks_', c)
         /\ tasks_[n].func # c => (HasFunc(tasks_', c) <=> HasFunc(tasks_, c))
         /\ tasks_[n].func = c => /\ HasFunc(tasks_, c)
                                  /\ FuncOnce(tasks_, c) => ~HasFunc(tasks_', c)
  BY <1>0, <1>1, TaskRemoved
<1>5. ASSUME NEW c \in Callbacks
      PROVE  /\ FuncOnce(tasks_', c)
             /\ \A u, v \in Workers : task'[u].func = c /\ task'[v].func = c => u = v
             /\ Bound(c)' <=> Bound(c)
             /\ IF tasks_[n].func = c THEN Queued(c) /\ ~Queued(c)' /\ ~Taken(c) /\ Taken(c)'
                ELSE (Queued(c)' <=> Queued(c)) /\ (Taken(c)' <=> Taken(c))
  <2>1. /\ FuncOnce(tasks_, c)
        /\ \A u, v \in Workers : task[u].func = c /\ task[v].func = c => u = v
        /\ ~(Queued(c) /\ Taken(c))
    BY DEF OnceInv
  <2>2. (Bound(c)' <=> Bound(c)) /\ FuncOnce(tasks_', c)
    BY <1>2, <1>4, <2>1 DEF Bound
  <2>3. CASE tasks_[n].func = c
    <3>1. Queued(c) /\ ~Taken(c) /\ ~Queued(c)'
      BY <1>4, <2>1, <2>3 DEF Queued
    <3>3. Taken(c)' /\ \A u \in Workers : task'[u].func = c => u = t
      BY <1>3, <2>3, <3>1 DEF Taken
    <3> QED
      BY <2>2, <2>3, <3>1, <3>3
  <2>4. CASE tasks_[n].func # c
    <3>1. Queued(c)' <=> Queued(c)
      BY <1>4, <2>4 DEF Queued
    <3>2. \A u \in Workers : task'[u].func = c <=> task[u].func = c
      BY <1>0, <1>2, <1>3, <2>4
    <3>3. Taken(c)' <=> Taken(c)
      BY <3>2 DEF Taken
    <3> QED
      BY <2>1, <2>2, <2>4, <3>1, <3>2, <3>3
  <2> QED
    BY <2>3, <2>4
<1>6. \A c \in Callbacks : \A f, g \in Fibers : func_'[f] = c /\ func_'[g] = c => f = g
  BY <1>2 DEF OnceInv
<1> QED
  BY <1>2, <1>5, <1>6 DEF OnceInv

\* Steps in which no function changes its place.
LEMMA OnceStays ==
    ASSUME RunInv, OnceInv, NEW t \in Workers, UNCHANGED <<func_, phase>>,
           NEW k, k.func = task[t].func, task' = [task EXCEPT ![t] = k],
           tasks_' = tasks_ \/ \E f \in Fibers : tasks_' = Append(tasks_, FiberTask(f))
    PROVE  OnceInv'
<1>0. tasks_ \in Seq(PlainTasks) /\ task \in [Workers -> PlainTasks \cup {NoTask}]
  BY DEF RunInv, RunTypes
<1>1. \A u \in Workers : task'[u].func = task[u].func
  BY <1>0
<1>2. \A c \in Callbacks : (Queued(c)' <=> Queued(c)) /\ FuncOnce(tasks_', c)
  <2>1. CASE tasks_' = tasks_
    BY <2>1 DEF Queued, OnceInv
  <2>2. ASSUME NEW f \in Fibers, tasks_' = Append(tasks_, FiberTask(f))
        PROVE  \A c \in Callbacks : (Queued(c)' <=> Queued(c)) /\ FuncOnce(tasks_', c)
    BY <1>0, <2>2, FiberAppended DEF Queued, OnceInv
  <2> QED
    BY <2>1, <2>2
<1>3. \A c \in Callbacks : (Taken(c)' <=> Taken(c)) /\ (Bound(c)' <=> Bound(c))
  BY <1>1 DEF Taken, Bound
<1>4. /\ \A c \in Callbacks : \A u, v \in Workers :
            task'[u].func = c /\ task'[v].func = c => u = v
      /\ \A c \in Callbacks : \A f, g \in Fibers : func_'[f] = c /\ func_'[g] = c => f = g
  BY <1>1 DEF OnceInv
<1> QED
  BY <1>2, <1>3, <1>4, OnceKept

\* A worker binds a function it has taken.
LEMMA OnceBind ==
    ASSUME RunInv, OnceInv, NEW t \in Workers, NEW f \in Fibers, NEW c \in Callbacks, Bind(t, f, c)
    PROVE  OnceInv'
<1>0. /\ task \in [Workers -> PlainTasks \cup {NoTask}] /\ NoTask.func = None
      /\ func_ \in [Fibers -> Callbacks \cup {None}] /\ \A d \in Callbacks : d # None
  BY SchedulerAssumption, NewTasks DEF RunInv, RunTypes
<1>1. /\ UNCHANGED <<tasks_, phase>> /\ task[t].func = c /\ func_[f] = None
      /\ \A u \in Workers : task'[u] = IF u = t THEN NoTask ELSE task[u]
      /\ \A g \in Fibers : func_'[g] = IF g = f THEN c ELSE func_[g]
  BY <1>0 DEF Bind
<1>2. Taken(c) /\ ~Queued(c) /\ ~Bound(c)
  BY <1>1 DEF OnceInv, Taken
<1>3. ~Taken(c)' /\ Bound(c)' /\ \A g \in Fibers : func_'[g] = c => g = f
  BY <1>0, <1>1, <1>2 DEF OnceInv, Taken, Bound
<1>4. ASSUME NEW d \in Callbacks, d # c
      PROVE  (Taken(d)' <=> Taken(d)) /\ (Bound(d)' <=> Bound(d))
  BY <1>0, <1>1, <1>4 DEF Taken, Bound
<1>5. \A d \in Callbacks : FuncOnce(tasks_', d) /\ (Queued(d)' <=> Queued(d))
  BY <1>1 DEF OnceInv, Queued
<1>6. \A d \in Callbacks : \A u, v \in Workers : task'[u].func = d /\ task'[v].func = d => u = v
  BY <1>0, <1>1 DEF OnceInv
<1>7. \A d \in Callbacks : \A g, h \in Fibers : func_'[g] = d /\ func_'[h] = d => g = h
  BY <1>0, <1>1, <1>3 DEF OnceInv
<1>8. phase[c] = "submitted"
  BY <1>2 DEF OnceInv
<1> QED
  BY <1>1, <1>2, <1>3, <1>4, <1>5, <1>6, <1>7, <1>8 DEF OnceInv

\* A fiber's body starts, or ends.
LEMMA OnceEnter ==
    ASSUME RunInv, OnceInv, NEW t \in Workers, NEW f \in Fibers, NEW c \in Callbacks, Enter(t, f, c)
    PROVE  OnceInv'
<1>1. /\ UNCHANGED <<tasks_, task, func_>> /\ func_[f] = c
      /\ \A d \in Callbacks : phase'[d] = IF d = c THEN "started" ELSE phase[d]
  BY DEF Enter, RunInv, RunTypes
<1>2. Bound(c) /\ ~Queued(c) /\ ~Taken(c)
  BY <1>1 DEF OnceInv, Bound
<1>3. \A d \in Callbacks :
         (Queued(d)' <=> Queued(d)) /\ (Taken(d)' <=> Taken(d)) /\ (Bound(d)' <=> Bound(d))
  BY <1>1 DEF Queued, Taken, Bound
<1> QED
  BY <1>1, <1>2, <1>3 DEF OnceInv

\* A body that ends, ends one callback; its other steps move none.
LEMMA OnceActs ==
    ASSUME RunInv, OnceInv, NEW t \in Workers, NEW f \in Fibers, Acts(t, f) PROVE OnceInv'
<1>0. UNCHANGED <<tasks_, task>> /\ func_ \in [Fibers -> Callbacks \cup {None}]
  BY DEF Acts, RunInv, RunTypes
<1>1. CASE UNCHANGED <<func_, phase>>
  BY <1>0, <1>1 DEF OnceInv, Queued, Taken, Bound
<1>2. CASE /\ pc[t] = "run" /\ func_' = [func_ EXCEPT ![f] = None]
           /\ phase' = [phase EXCEPT ![func_[f]] = "finished"]
  <2>1. PICK c \in Callbacks : c = func_[f]
    BY <1>2, BodyRunsOn DEF Acts, On
  <2>2. /\ \A g \in Fibers : func_'[g] = IF g = f THEN None ELSE func_[g]
        /\ \A d \in Callbacks : phase'[d] = IF d = c THEN "finished" ELSE phase[d]
        /\ \A d \in Callbacks : d # None
    BY <1>0, <1>2, <2>1, SchedulerAssumption DEF RunInv, RunTypes
  <2>3. Bound(c) /\ ~Bound(c)' /\ ~Queued(c) /\ ~Taken(c)
    BY <2>1, <2>2 DEF OnceInv, Bound
  <2>4. \A d \in Callbacks : (Queued(d)' <=> Queued(d)) /\ (Taken(d)' <=> Taken(d))
    BY <1>0 DEF Queued, Taken
  <2>5. ASSUME NEW d \in Callbacks, d # c PROVE Bound(d)' <=> Bound(d)
    BY <2>1, <2>2, <2>5 DEF Bound
  <2>6. \A d \in Callbacks : \A g, h \in Fibers : func_'[g] = d /\ func_'[h] = d => g = h
    BY <2>2 DEF OnceInv
  <2>7. \A d \in Callbacks : /\ FuncOnce(tasks_', d)
                             /\ \A u, v \in Workers : task'[u].func = d /\ task'[v].func = d => u = v
    BY <1>0 DEF OnceInv
  <2> QED
    BY <2>2, <2>3, <2>4, <2>5, <2>6, <2>7 DEF OnceInv
<1> QED
  BY <1>1, <1>2 DEF Acts

\* Every step keeps a function in one place.
LEMMA OnceStep == RunInv /\ OnceInv /\ [Next]_vars => OnceInv'
<1> SUFFICES ASSUME RunInv, OnceInv, [Next]_vars PROVE OnceInv'
  OBVIOUS
<1>1. ASSUME UNCHANGED <<tasks_, task, func_, phase>> PROVE OnceInv'
  BY <1>1 DEF OnceInv, Queued, Taken, Bound
<1>2. CASE UNCHANGED runVars
  BY <1>1, <1>2 DEF runVars
<1>3. ASSUME NEW t \in Workers, NEW l, Moved(t, l) PROVE OnceInv'
  BY <1>1, <1>3 DEF Moved
<1>4. ASSUME NEW t \in Workers, Refused(t) PROVE OnceInv'
  BY <1>1, <1>4 DEF Refused
<1>5. ASSUME NEW t \in Workers, DispatchFiber(t) PROVE OnceInv'
  <2>1. task[t].func = None /\ task \in [Workers -> PlainTasks \cup {NoTask}]
    BY <1>5, TaskKinds DEF DispatchFiber, RunInv, RunTypes
  <2>2. PICK k : k.func = task[t].func /\ task' = [task EXCEPT ![t] = k]
    <3>1. task' = [task EXCEPT ![t] = NoTask] \/ task' = [task EXCEPT ![t] = task[t]]
      BY <1>5, <2>1 DEF DispatchFiber
    <3> QED
      BY <2>1, <3>1, NewTasks
  <2> QED
    BY <1>5, <2>2, OnceStays DEF DispatchFiber
<1>6. ASSUME NEW t \in Workers, NEW f \in Fibers, Back(t, f) PROVE OnceInv'
  <2>1. task[t].func = None /\ NoTask.func = None
    BY <1>6, NewTasks DEF Back, RunInv, Hands, Flight
  <2>2. tasks_' = tasks_ \/ tasks_' = Append(tasks_, FiberTask(f))
    BY <1>6 DEF Back
  <2>3. task' = [task EXCEPT ![t] = NoTask] /\ UNCHANGED <<func_, phase>>
    BY <1>6 DEF Back
  <2> QED
    BY <2>1, <2>2, <2>3, OnceStays
<1> QED
  BY <1>2, <1>3, <1>4, <1>5, <1>6, StepEffects, OnceSubmit, OnceWake, OnceTake, OnceBind,
     OnceEnter, OnceActs
     DEF Effects

\* A function that can be started from one place only.
LEMMA OnceIsCallbackOnce == ASSUME RunInv, OnceInv PROVE CallbackOnce
<1>1. SUFFICES ASSUME NEW c \in Callbacks
               PROVE  Cardinality({i \in 1 .. Len(tasks_) : tasks_[i].func = c})
                    + Cardinality({t \in Workers : task[t].func = c})
                    + Cardinality({f \in Fibers : func_[f] = c}) <= 1
  BY DEF CallbackOnce
<1> DEFINE A == {i \in 1 .. Len(tasks_) : tasks_[i].func = c}
           B == {t \in Workers : task[t].func = c}
           C == {f \in Fibers : func_[f] = c}
<1>2. /\ A # {} <=> Queued(c)
      /\ B # {} <=> Taken(c)
      /\ C # {} <=> Bound(c)
  BY DEF Queued, HasFunc, Taken, Bound
<1>3. /\ \A x, y \in A : x = y
      /\ \A x, y \in B : x = y
      /\ \A x, y \in C : x = y
  BY DEF OnceInv, FuncOnce
<1>4. ~(A # {} /\ B # {}) /\ ~(A # {} /\ C # {}) /\ ~(B # {} /\ C # {})
  BY <1>2 DEF OnceInv
<1> HIDE DEF A, B, C
<1>5. ASSUME NEW S, \A x, y \in S : x = y
      PROVE  Cardinality(S) = IF S = {} THEN 0 ELSE 1
  <2>1. CASE S = {}
    BY <2>1, FS_EmptySet
  <2>2. CASE S # {}
    <3>1. PICK x \in S : S = {x}
      BY <1>5, <2>2
    <3> QED
      BY <2>2, <3>1, FS_Singleton
  <2> QED
    BY <2>1, <2>2
<1>6. /\ Cardinality(A) = IF A = {} THEN 0 ELSE 1
      /\ Cardinality(B) = IF B = {} THEN 0 ELSE 1
      /\ Cardinality(C) = IF C = {} THEN 0 ELSE 1
  BY <1>3, <1>5
<1>7. Cardinality(A) + Cardinality(B) + Cardinality(C) <= 1
  BY <1>4, <1>6
<1> QED
  BY <1>7 DEF A, B, C

\* Initially nothing is submitted.
LEMMA OnceInit == Init => OnceInv
<1> SUFFICES ASSUME Init PROVE OnceInv
  OBVIOUS
<1>1. Len(tasks_) = 0 /\ \A c \in Callbacks : c # None /\ phase[c] = "unsubmitted"
  BY SchedulerAssumption DEF Init
<1>2. /\ \A t \in Workers : task[t].func = None
      /\ \A f \in Fibers : func_[f] = None
  BY NewTasks DEF Init
<1> QED
  BY <1>1, <1>2 DEF OnceInv, Queued, HasFunc, FuncOnce, Taken, Bound

\* A submitted function is run by one fiber only, for any number of workers that race for
\* it: it is erased under mutex_ and moves into a fiber that has none (scheduler.cc:80-118).
THEOREM CallbackOnceHolds == Spec => []CallbackOnce
<1>1. RunInv /\ OnceInv => CallbackOnce
  BY OnceIsCallbackOnce
<1> QED
  BY <1>1, OnceInit, OnceStep, RunInvHolds, PTL DEF Spec

-----------------------------------------------------------------------------
\* A step of worker t that leaves the fiber, and its place outside t's hands, alone.
LEMMA DueElsewhere ==
    ASSUME NEW t \in Workers, NEW f \in Fibers, Due(f),
           func_'[f] = func_[f], phase'[func_[f]] = phase[func_[f]],
           waiting[f] # "no" => Located(f)',
           HasFiber(tasks_, f) => Located(f)',
           Has(t, f) => Located(f)',
           state_'[f] = state_[f], ~(Own(t) /\ pc[t] = "resume" /\ cached[t] = f),
           \A u \in Workers \ {t} :
              pc'[u] = pc[u] /\ task'[u] = task[u] /\ cached'[u] = cached[u]
    PROVE  Due(f)'
<1>1. ASSUME NEW u \in Workers \ {t} PROVE (Has(u, f)' <=> Has(u, f)) /\ (Own(u)' <=> Own(u))
  BY <1>1 DEF Has, Target, Own
<1>2. Located(f) => Located(f)'
  BY <1>1 DEF Located
<1> QED
  BY <1>1, <1>2 DEF Due

\* Steps in which a worker moves, takes a task, or turns to a fiber.
LEMMA DueRun ==
    ASSUME RunInv, NEW f \in Fibers, Due(f), NEW t \in Workers,
           (\E l : Moved(t, l)) \/ TakeTask(t) \/ DispatchFiber(t)
    PROVE  Due(f)'
<1>0. /\ pc \in [Workers -> Empty \cup Flight \cup {"tickle", "dispatch"}]
      /\ task \in [Workers -> PlainTasks \cup {NoTask}] /\ tasks_ \in Seq(PlainTasks)
      /\ NoTask.fiber = None /\ f # None
  BY NewTasks DEF RunInv, RunTypes
<1>1. /\ UNCHANGED <<state_, func_, phase, waiting, cached>>
      /\ \A u \in Workers \ {t} : pc'[u] = pc[u] /\ task'[u] = task[u]
      /\ pc[t] \notin Flight
  <2>1. CASE \E l : Moved(t, l)
    BY <1>0, <2>1 DEF Moved
  <2>2. CASE TakeTask(t)
    BY <1>0, <2>2 DEF TakeTask, At, Flight
  <2>3. CASE DispatchFiber(t)
    BY <1>0, <2>3 DEF DispatchFiber, At, Flight
  <2> QED
    BY <2>1, <2>2, <2>3
<1>2. CASE func_[f] = None
  BY <1>1, <1>2 DEF Due
<1>3. CASE func_[f] # None
  <2>1. ~Own(t) /\ (cached[t] = f => FALSE)
    <3>1. ~Own(t)
      BY <1>1 DEF Own
    <3> QED
      BY <1>0, <1>3, <3>1 DEF RunInv, Caches
  <2>2. waiting[f] # "no" => Located(f)'
    BY <1>1 DEF Located
  <2>3. HasFiber(tasks_, f) => Located(f)'
    <3>1. CASE tasks_' = tasks_
      BY <3>1 DEF Located
    <3>2. CASE TakeTask(t)
      <4>1. PICK n \in 1 .. Len(tasks_) :
               task' = [task EXCEPT ![t] = tasks_[n]] /\ tasks_' = RemoveAt(tasks_, n)
        BY <3>2 DEF TakeTask, Erase
      <4>2. HasFiber(tasks_, f) => tasks_[n].fiber = f \/ HasFiber(tasks_', f)
        BY <1>0, <4>1, TaskRemoved
      <4>3. tasks_[n].fiber = f => Has(t, f)'
        BY <1>0, <3>2, <4>1 DEF TakeTask, Has, Target
      <4> QED
        BY <4>2, <4>3 DEF Located
    <3> QED
      BY <3>1, <3>2 DEF Moved, DispatchFiber
  <2>4. ASSUME Has(t, f) PROVE Located(f)'
    <3>0. task[t].fiber = f /\ pc[t] \in {"tickle", "dispatch"}
      BY <1>1, <2>1, <2>4 DEF Has, Target, Flight
    <3>1. ASSUME NEW l, Moved(t, l) PROVE Has(t, f)'
      <4>1. l \in {"tickle", "dispatch"}
        BY <1>0, <3>0, <3>1 DEF Moved
      <4> QED
        BY <1>0, <3>0, <3>1, <4>1 DEF Moved, Has, Target
    <3>2. ~TakeTask(t)
      BY <3>0 DEF TakeTask, At
    <3>3. CASE DispatchFiber(t)
      <4>1. state_[f] \notin {"TERM", "EXCEPT"}
        BY <1>3, <3>3 DEF RunInv, Ended, DispatchFiber, At, Running
      <4>2. pc' = [pc EXCEPT ![t] = "resume"] /\ task' = task
        BY <3>0, <3>3, <4>1 DEF DispatchFiber
      <4>3. Has(t, f)'
        BY <1>0, <3>0, <4>2 DEF Has, Target
      <4> QED
        BY <4>3 DEF Located
    <3> QED
      BY <3>1, <3>2, <3>3 DEF Located
  <2> QED
    BY <1>1, <2>1, <2>2, <2>3, <2>4, DueElsewhere
<1> QED
  BY <1>2, <1>3

\* Steps of the queue.
LEMMA DueQueue ==
    ASSUME RunInv, OnceInv, NEW f \in Fibers, Due(f),
           \/ \E c \in Callbacks, th \in workers \cup {None} : Submit(c, th)
           \/ \E g \in Fibers : Wake(g)
    PROVE  Due(f)'
<1>0. tasks_ \in Seq(PlainTasks) /\ workers \subseteq Workers
      /\ waiting \in [Fibers -> {"no", "queue", "condvar", "event", "timer"}]
  BY DEF RunInv, RunTypes
<1>1. UNCHANGED <<state_, func_, pc, task, cached>>
  BY DEF Submit, Wake
<1>2. \A t \in Workers : (Has(t, f)' <=> Has(t, f)) /\ (Own(t)' <=> Own(t))
  BY <1>1 DEF Has, Target, Own
<1>3. ASSUME NEW c \in Callbacks, NEW th \in workers \cup {None}, Submit(c, th) PROVE Due(f)'
  <2>1. tasks_' = Append(tasks_, CallbackTask(c, th)) /\ waiting' = waiting
        /\ phase' = [phase EXCEPT ![c] = "submitted"] /\ phase[c] = "unsubmitted"
    BY <1>3 DEF Submit, Enqueue
  <2>2. HasFiber(tasks_', f) <=> HasFiber(tasks_, f)
    BY <1>0, <2>1, FunctionAppended
  <2>3. func_[f] # c
    BY <2>1 DEF OnceInv, Bound
  <2>4. phase'[func_[f]] = phase[func_[f]] \/ func_[f] = None
    BY <2>1, <2>3 DEF RunInv, RunTypes
  <2> QED
    BY <1>1, <1>2, <2>1, <2>2, <2>4 DEF Due, Located
<1>4. ASSUME NEW g \in Fibers, Wake(g) PROVE Due(f)'
  <2>1. tasks_' = Append(tasks_, FiberTask(g)) /\ waiting' = [waiting EXCEPT ![g] = "no"]
        /\ phase' = phase
    BY <1>4 DEF Wake, Enqueue
  <2>2. HasFiber(tasks_', f) <=> f = g \/ HasFiber(tasks_, f)
    BY <1>0, <2>1, FiberAppended
  <2>3. Located(f) => Located(f)'
    BY <1>0, <1>2, <2>1, <2>2 DEF Located
  <2> QED
    BY <1>1, <1>2, <2>1, <2>3 DEF Due
<1> QED
  BY <1>3, <1>4

\* A function is bound to a fiber, and started.
LEMMA DueBind ==
    ASSUME RunInv, OnceInv, NEW f \in Fibers, Due(f), NEW t \in Workers, NEW g \in Fibers,
           NEW c \in Callbacks, Bind(t, g, c)
    PROVE  Due(f)'
<1>0. /\ pc \in [Workers -> Empty \cup Flight \cup {"tickle", "dispatch"}]
      /\ task \in [Workers -> PlainTasks \cup {NoTask}] /\ state_ \in [Fibers -> States]
      /\ func_ \in [Fibers -> Callbacks \cup {None}]
      /\ cached \in [Workers -> Fibers \cup {None}] /\ NoTask.fiber = None /\ f # None
  BY NewTasks DEF RunInv, RunTypes
<1>1. CASE f = g
  <2>1. phase[c] = "submitted" /\ phase' = phase
    BY DEF Bind, OnceInv, Taken
  <2>2. func_'[f] = c /\ cached'[t] = f /\ pc'[t] = "resume" /\ task'[t].fiber = None
    BY <1>0, <1>1 DEF Bind
  <2>3. Own(t)'
    BY <2>2 DEF Own, Flight
  <2> QED
    BY <2>1, <2>2, <2>3 DEF Due
<1>2. CASE f # g
  <2>1. /\ func_'[f] = func_[f] /\ state_'[f] = state_[f]
        /\ UNCHANGED <<phase, waiting, tasks_>> /\ pc[t] = "dispatch"
        /\ \A u \in Workers \ {t} :
              pc'[u] = pc[u] /\ task'[u] = task[u] /\ cached'[u] = cached[u]
    BY <1>0, <1>2 DEF Bind
  <2>2. ~Has(t, f)
    BY <1>0, <1>2 DEF Has, Target, Bind
  <2>3. (waiting[f] # "no" => Located(f)') /\ (HasFiber(tasks_, f) => Located(f)')
    BY <2>1 DEF Located
  <2> QED
    BY <2>1, <2>2, <2>3, DueElsewhere
<1> QED
  BY <1>1, <1>2

\* A fiber that is owed a thread is still owed it, or has it, after a stack is entered.
LEMMA DueEnter ==
    ASSUME RunInv, OnceInv, NEW f \in Fibers, Due(f), NEW t \in Workers, NEW g \in Fibers,
           NEW c \in Callbacks, Enter(t, g, c)
    PROVE  Due(f)'
<1>0. /\ pc \in [Workers -> Empty \cup Flight \cup {"tickle", "dispatch"}]
      /\ state_ \in [Fibers -> States]
      /\ phase \in [Callbacks -> {"unsubmitted", "submitted", "started", "finished"}]
      /\ func_ \in [Fibers -> Callbacks \cup {None}]
  BY DEF RunInv, RunTypes
<1>1. CASE f = g
  <2>1. phase'[func_'[f]] = "started"
    BY <1>0, <1>1 DEF Enter
  <2>2. Has(t, f)'
    BY <1>0, <1>1 DEF Enter, Has, Target
  <2> QED
    BY <2>1, <2>2 DEF Due, Located
<1>2. CASE f # g
  <2>1. /\ UNCHANGED <<func_, waiting, tasks_>> /\ state_'[f] = state_[f]
        /\ \A u \in Workers \ {t} :
              pc'[u] = pc[u] /\ task'[u] = task[u] /\ cached'[u] = cached[u]
    BY <1>0, <1>2 DEF Enter
  <2>2. ~Has(t, f) /\ ~(Own(t) /\ cached[t] = f)
    BY <1>2 DEF Enter, Has, Own, Target
  <2>3. func_[f] # None => phase'[func_[f]] = phase[func_[f]]
    <3>1. func_[f] # c
      BY <1>2 DEF Enter, OnceInv
    <3> QED
      BY <1>0, <3>1 DEF Enter
  <2>4. (waiting[f] # "no" => Located(f)') /\ (HasFiber(tasks_, f) => Located(f)')
    BY <2>1 DEF Located
  <2>5. CASE func_[f] = None
    BY <2>1, <2>5 DEF Due
  <2>6. CASE func_[f] # None
    BY <2>1, <2>2, <2>3, <2>4, <2>6, DueElsewhere
  <2> QED
    BY <2>5, <2>6
<1> QED
  BY <1>1, <1>2

\* The body acts.
LEMMA DueActs ==
    ASSUME RunInv, OnceInv, NEW f \in Fibers, Due(f), NEW t \in Workers, NEW g \in Fibers,
           Acts(t, g)
    PROVE  Due(f)'
<1>0. /\ pc \in [Workers -> Empty \cup Flight \cup {"tickle", "dispatch"}]
      /\ state_ \in [Fibers -> States] /\ waiting \in [Fibers -> {"no", "queue", "condvar", "event", "timer"}]
      /\ phase \in [Callbacks -> {"unsubmitted", "submitted", "started", "finished"}]
      /\ func_ \in [Fibers -> Callbacks \cup {None}]
  BY DEF RunInv, RunTypes
<1>1. /\ UNCHANGED <<tasks_, task, cached>> /\ Target(t) = g /\ Running /\ cur[t] = g
      /\ pc[t] \in {"run", "armed", "swap"}
      /\ \A u \in Workers \ {t} : pc'[u] = pc[u]
  BY <1>0 DEF Acts, On
<1>2. \A h \in Fibers : h # g => /\ state_'[h] = state_[h] /\ func_'[h] = func_[h]
                                 /\ waiting'[h] = waiting[h]
  BY <1>0 DEF Acts
<1>3. CASE func_'[f] = None
  BY <1>3 DEF Due
<1>4. CASE f # g /\ func_'[f] # None
  <2>1. phase'[func_[f]] = phase[func_[f]]
    <3>1. phase' = phase \/ (phase' = [phase EXCEPT ![func_[g]] = "finished"])
      BY DEF Acts
    <3>2. func_[f] \in Callbacks /\ func_[f] # func_[g]
      BY <1>0, <1>2, <1>4 DEF OnceInv
    <3> QED
      BY <1>0, <3>1, <3>2
  <2>2. ~Has(t, f) /\ pc[t] # "resume"
    BY <1>1, <1>4 DEF Has
  <2>3. (waiting[f] # "no" => Located(f)') /\ (HasFiber(tasks_, f) => Located(f)')
    BY <1>1, <1>2, <1>4 DEF Located
  <2> QED
    BY <1>1, <1>2, <1>4, <2>1, <2>2, <2>3, DueElsewhere
<1>5. CASE f = g /\ func_'[f] # None
  <2>1. func_' = func_ /\ phase' = phase
    BY <1>0, <1>5 DEF Acts
  <2>2. ASSUME NEW u \in Workers, Own(u), pc[u] = "resume", cached[u] = f
        PROVE  Own(u)' /\ pc'[u] = "resume" /\ cached'[u] = f
    <3>1. u # t
      BY <1>1, <2>2
    <3> QED
      BY <1>1, <2>2, <3>1 DEF Own
  <2>3. Target(t)' = f
    BY <1>1, <1>5 DEF Target
  <2>4. Located(f) => Located(f)'
    <3>1. CASE pc[t] = "run"
      <4>1. \/ \E why \in {"queue", "condvar", "event", "timer"} : waiting' = [waiting EXCEPT ![f] = why]
            \/ pc' = [pc EXCEPT ![t] = "swap"] /\ state_' = [state_ EXCEPT ![f] = "READY"]
            \/ pc' = pc
        BY <1>5, <2>1, <3>1, <1>0 DEF Acts
      <4>2. waiting'[f] # "no" \/ Has(t, f)'
        BY <1>0, <2>3, <3>1, <4>1 DEF Has
      <4> QED
        BY <4>2 DEF Located
    <3>2. CASE pc[t] = "armed"
      <4>1. state_[f] = "EXEC"
        BY <1>1, <1>5, <3>2 DEF RunInv, Executing
      <4>2. waiting' = waiting
        BY <3>2 DEF Acts
      <4>3. \A u \in Workers : Has(u, f) => Has(u, f)'
        BY <1>1, <3>2, <4>1 DEF Has, Target
      <4> QED
        BY <1>1, <4>2, <4>3 DEF Located
    <3>3. CASE pc[t] = "swap"
      <4>1. pc' = [pc EXCEPT ![t] = "after"] /\ waiting' = waiting /\ state_' = state_
        BY <3>3 DEF Acts
      <4>2. \A u \in Workers : Has(u, f) => Has(u, f)'
        BY <1>0, <1>1, <3>3, <4>1 DEF Has, Target
      <4> QED
        BY <1>1, <4>1, <4>2 DEF Located
    <3> QED
      BY <1>1, <3>1, <3>2, <3>3
  <2> QED
    BY <2>1, <2>2, <2>4 DEF Due
<1> QED
  BY <1>3, <1>4, <1>5

\* Run looks at the fiber again.
LEMMA DueBack ==
    ASSUME RunInv, NEW f \in Fibers, Due(f), NEW t \in Workers, NEW g \in Fibers, Back(t, g)
    PROVE  Due(f)'
<1>0. /\ pc \in [Workers -> Empty \cup Flight \cup {"tickle", "dispatch"}]
      /\ task \in [Workers -> PlainTasks \cup {NoTask}] /\ tasks_ \in Seq(PlainTasks)
      /\ state_ \in [Fibers -> States] /\ cached \in [Workers -> Fibers \cup {None}]
  BY DEF RunInv, RunTypes
<1>1. /\ UNCHANGED <<func_, phase, waiting>> /\ pc[t] = "after" /\ Target(t) = g
      /\ \A u \in Workers \ {t} : pc'[u] = pc[u] /\ task'[u] = task[u] /\ cached'[u] = cached[u]
  <2>1. cached' = cached \/ \E d : cached' = [cached EXCEPT ![t] = d]
    BY DEF Back
  <2>2. \A u \in Workers \ {t} : cached'[u] = cached[u]
    BY <1>0, <2>1
  <2> QED
    BY <1>0, <2>2 DEF Back
<1>2. CASE func_[f] = None
  BY <1>1, <1>2 DEF Due
<1>3. CASE func_[f] # None
  <2>1. state_'[f] = state_[f]
    <3>1. f = g => state_[g] # "TERM"
      BY <1>3 DEF RunInv, Ended
    <3> QED
      BY <1>0, <3>1 DEF Back
  <2>2. /\ HasFiber(tasks_, f) => HasFiber(tasks_', f)
        /\ f = g /\ state_[g] = "READY" => HasFiber(tasks_', f)
    <3>1. CASE state_[g] = "READY"
      <4>1. tasks_' = Append(tasks_, FiberTask(g))
        BY <3>1 DEF Back
      <4> QED
        BY <1>0, <4>1, FiberAppended
    <3>2. CASE state_[g] # "READY"
      <4>1. tasks_' = tasks_
        BY <3>2 DEF Back
      <4> QED
        BY <3>2, <4>1
    <3> QED
      BY <3>1, <3>2
  <2>3. /\ waiting[f] # "no" => Located(f)'
        /\ HasFiber(tasks_, f) => Located(f)'
        /\ Has(t, f) => Located(f)'
    BY <1>1, <2>2 DEF Located, Has
  <2> QED
    BY <1>1, <2>1, <2>3, DueElsewhere
<1> QED
  BY <1>2, <1>3

\* Every step leaves every fiber what is due to it.
LEMMA DueStep ==
    ASSUME RunInv, OnceInv, LocatedInv, [Next]_vars PROVE LocatedInv'
<1> SUFFICES ASSUME NEW f \in Fibers PROVE Due(f)'
  BY DEF LocatedInv
<1>0. Due(f)
  BY DEF LocatedInv
<1>1. CASE UNCHANGED runVars
  BY <1>0, <1>1 DEF runVars, Due, Located, Own, Has, Target
<1>2. ASSUME NEW t \in Workers, Refused(t) PROVE Due(f)'
  BY <1>0, <1>2 DEF Refused, Due, Located, Own, Has, Target
<1>3. ASSUME NEW t \in Workers, (\E l : Moved(t, l)) \/ TakeTask(t) \/ DispatchFiber(t)
      PROVE  Due(f)'
  BY <1>0, <1>3, DueRun
<1>4. ASSUME \/ \E c \in Callbacks, th \in workers \cup {None} : Submit(c, th)
             \/ \E g \in Fibers : Wake(g)
      PROVE  Due(f)'
  BY <1>0, <1>4, DueQueue
<1> QED
  BY <1>0, <1>1, <1>2, <1>3, <1>4, StepEffects, DueBind, DueEnter, DueActs, DueBack DEF Effects

\* No submitted work vanishes, for any number of workers, until the process ends: whatever
\* was submitted is in tasks_, in a worker's hands, with a waker or on a stack
\* (scheduler.cc:78-133).
THEOREM NoTaskLostHolds == Spec => []NoTaskLost
<1>1. Init => LocatedInv
  BY DEF Init, LocatedInv, Due
<1>2. RunInv /\ OnceInv /\ LocatedInv /\ [Next]_vars => LocatedInv'
  BY DueStep
<1>3. RunInv /\ OnceInv /\ LocatedInv => NoTaskLost
  <2> SUFFICES ASSUME RunInv, OnceInv, LocatedInv PROVE NoTaskLost
    OBVIOUS
  <2>1. tasks_ \in Seq(RealTasks)
    <3>1. PlainTasks \subseteq RealTasks
      BY DEF PlainTasks, RealTasks
    <3>2. tasks_ \in Seq(PlainTasks)
      BY DEF RunInv, RunTypes
    <3> QED
      BY <3>1, <3>2
  <2>2. ASSUME NEW c \in Callbacks, phase[c] = "submitted"
        PROVE  \/ \E i \in 1 .. Len(tasks_) : tasks_[i].func = c
               \/ \E t \in Workers : task[t].func = c
               \/ \E t \in Workers : pc[t] = "resume" /\ func_[Target(t)] = c
    <3>1. Queued(c) \/ Taken(c) \/ Bound(c)
      BY <2>2 DEF OnceInv
    <3>2. ASSUME NEW f \in Fibers, func_[f] = c
          PROVE  \E t \in Workers : pc[t] = "resume" /\ func_[Target(t)] = c
      <4>1. c # None
        BY SchedulerAssumption
      <4> QED
        BY <2>2, <3>2, <4>1 DEF LocatedInv, Due, Own, Target
    <3> QED
      BY <3>1, <3>2 DEF Queued, HasFunc, Taken, Bound
  <2>3. ASSUME NEW c \in Callbacks, phase[c] = "started"
        PROVE  \E f \in Fibers :
                  /\ func_[f] = c
                  /\ \/ OnCpu(f) \/ InQueue(f) \/ waiting[f] # "no"
                     \/ \E t \in Workers : Target(t) = f /\ pc[t] \in
                           {"tickle", "dispatch", "resume"}
                     \/ \E t \in Workers : Target(t) = f /\ pc[t] = "after"
                                          /\ state_[f] = "READY"
    <3>1. PICK f \in Fibers : func_[f] = c
      BY <2>3 DEF OnceInv, Bound
    <3>2. Located(f)
      <4>1. c # None
        BY SchedulerAssumption
      <4> QED
        BY <2>3, <3>1, <4>1 DEF LocatedInv, Due
    <3>3. ASSUME NEW t \in Workers, Has(t, f), pc[t] \in {"run", "swap"} PROVE OnCpu(f)
      <4>1. cur[t] = f
        BY <3>3 DEF RunInv, Hands, Has
      <4> QED
        BY <4>1 DEF OnCpu
    <3> QED
      BY <3>1, <3>2, <3>3 DEF Located, HasFiber, InQueue, Has
  <2> QED
    BY <2>1, <2>2, <2>3 DEF NoTaskLost
<1> QED
  BY <1>1, <1>2, <1>3, OnceInit, OnceStep, RunInvHolds, PTL DEF Spec

-----------------------------------------------------------------------------
\* With one worker, no stack is corrupted.
LEMMA SoloSound == ASSUME RunInv, NEW w \in Workers, SoloInv(w) PROVE ~Corrupted
<1>1. \A t \in Workers \ {w} : cur[t] = None
  BY DEF RunInv, Hands, SoloInv
<1> QED
  BY <1>1 DEF SoloInv, Corrupted

\* Steps of the queue.
LEMMA SoloQueue ==
    ASSUME RunInv, NEW w \in Workers, SoloInv(w),
           \/ \E c \in Callbacks, th \in workers \cup {None} : Submit(c, th)
           \/ \E g \in Fibers : Wake(g)
    PROVE  SoloInv(w)'
<1>0. /\ tasks_ \in Seq(PlainTasks) /\ workers \subseteq Workers
      /\ waiting \in [Fibers -> {"no", "queue", "condvar", "event", "timer"}]
  BY DEF RunInv, RunTypes
<1>1. /\ UNCHANGED <<workers, state_, func_, pc, task, cached, cur, aborted>> /\ aborted = "no"
  BY DEF Submit, Wake, Running
<1>2. /\ \A f \in Fibers : Held(w, f)' <=> Held(w, f)
      /\ Target(w)' = Target(w) /\ (Own(w)' <=> Own(w))
  BY <1>1 DEF Held, Has, Target, Own
<1>3. FibersOnce(tasks_') /\ \A f \in Fibers : Solo(w, f)'
  <2>1. ASSUME NEW c \in Callbacks, NEW th \in workers \cup {None}, Submit(c, th)
        PROVE  FibersOnce(tasks_') /\ \A f \in Fibers : Solo(w, f)'
    <3>1. tasks_' = Append(tasks_, CallbackTask(c, th)) /\ waiting' = waiting
      BY <2>1 DEF Submit, Enqueue
    <3>2. /\ \A f \in Fibers : HasFiber(tasks_', f) <=> HasFiber(tasks_, f)
          /\ FibersOnce(tasks_')
      BY <1>0, <1>1, <3>1, FunctionAppended DEF SoloInv
    <3> QED
      BY <1>1, <1>2, <3>1, <3>2 DEF SoloInv, Solo
  <2>2. ASSUME NEW g \in Fibers, Wake(g)
        PROVE  FibersOnce(tasks_') /\ \A f \in Fibers : Solo(w, f)'
    <3>1. /\ tasks_' = Append(tasks_, FiberTask(g)) /\ waiting[g] # "no"
          /\ \A f \in Fibers : waiting'[f] = IF f = g THEN "no" ELSE waiting[f]
      BY <1>0, <2>2 DEF Wake, Enqueue
    <3>2. ~HasFiber(tasks_, g) /\ ~Held(w, g) /\ func_[g] # None
      BY <1>1, <3>1 DEF SoloInv, Solo
    <3>3. /\ \A f \in Fibers : HasFiber(tasks_', f) <=> f = g \/ HasFiber(tasks_, f)
          /\ FibersOnce(tasks_')
      BY <1>0, <1>1, <3>1, <3>2, FiberAppended DEF SoloInv
    <3> QED
      BY <1>1, <1>2, <3>1, <3>2, <3>3 DEF SoloInv, Solo
  <2> QED
    BY <2>1, <2>2
<1> QED
  BY <1>1, <1>2, <1>3 DEF SoloInv

\* The worker moves on, takes a task or turns to a fiber.
LEMMA SoloRun ==
    ASSUME RunInv, NEW w \in Workers, SoloInv(w),
           (\E l : Moved(w, l)) \/ TakeTask(w) \/ DispatchFiber(w)
    PROVE  SoloInv(w)'
<1>0. /\ pc \in [Workers -> Empty \cup Flight \cup {"tickle", "dispatch"}]
      /\ task \in [Workers -> PlainTasks \cup {NoTask}] /\ tasks_ \in Seq(PlainTasks)
      /\ NoTask.fiber = None /\ \A f \in Fibers : f # None
  BY NewTasks DEF RunInv, RunTypes
<1>1. /\ UNCHANGED <<workers, state_, func_, waiting, cached, cur, aborted>> /\ aborted = "no"
      /\ pc[w] \notin Flight /\ \A u \in Workers \ {w} : pc'[u] = pc[u]
  <2>1. CASE \E l : Moved(w, l)
    BY <1>0, <2>1 DEF Moved, Running
  <2>2. CASE TakeTask(w)
    BY <1>0, <2>2 DEF TakeTask, At, Flight, Running
  <2>3. CASE DispatchFiber(w)
    BY <1>0, <2>3 DEF DispatchFiber, At, Flight, Running
  <2> QED
    BY <2>1, <2>2, <2>3
<1>2. /\ pc'[w] \in Empty \cup {"tickle", "dispatch", "resume"}
      /\ pc'[w] = "resume" => task'[w].fiber # None
  <2>1. ASSUME NEW l, Moved(w, l) PROVE pc'[w] \in Empty \cup {"tickle", "dispatch"}
    BY <1>0, <2>1 DEF Moved
  <2>2. TakeTask(w) => pc'[w] = "tickle"
    BY <1>0 DEF TakeTask
  <2>3. DispatchFiber(w) => /\ pc'[w] \in {"idle", "resume"}
                            /\ pc'[w] = "resume" => task'[w].fiber # None
    BY <1>0 DEF DispatchFiber
  <2> QED
    BY <2>1, <2>2, <2>3 DEF Empty
<1>3. ~Own(w) /\ ~Own(w)' /\ pc'[w] \notin {"swap", "after"}
  BY <1>1, <1>2 DEF Own, Flight, Empty
<1>4. \A f \in Fibers : state_[f] # "EXEC"
  BY <1>1 DEF SoloInv, Solo, Flight
<1>5. FibersOnce(tasks_') /\ \A f \in Fibers : HasFiber(tasks_', f) => HasFiber(tasks_, f)
  <2>1. CASE tasks_' = tasks_
    BY <1>1, <2>1 DEF SoloInv
  <2>2. CASE TakeTask(w)
    <3>1. PICK n \in 1 .. Len(tasks_) : tasks_' = RemoveAt(tasks_, n)
      BY <2>2 DEF TakeTask, Erase
    <3> QED
      BY <1>0, <1>1, <3>1, TaskRemoved DEF SoloInv
  <2> QED
    BY <2>1, <2>2 DEF Moved, DispatchFiber
<1>6. ASSUME NEW f \in Fibers, Held(w, f)'
      PROVE  waiting[f] = "no" /\ ~HasFiber(tasks_', f) /\ func_[f] # None
  <2>1. task'[w].fiber = f
    BY <1>0, <1>2, <1>6 DEF Held, Has, Target, Empty
  <2>2. CASE task' = task /\ tasks_' = tasks_
    <3>1. pc[w] \in {"tickle", "dispatch"}
      BY <1>0, <1>1, <2>1, <2>2 DEF RunInv, Hands
    <3>2. Held(w, f)
      BY <1>0, <2>1, <2>2, <3>1 DEF Held, Has, Target
    <3> QED
      BY <1>1, <2>2, <3>2 DEF SoloInv, Solo
  <2>3. CASE TakeTask(w)
    <3>1. PICK n \in 1 .. Len(tasks_) :
             task' = [task EXCEPT ![w] = tasks_[n]] /\ tasks_' = RemoveAt(tasks_, n)
      BY <2>3 DEF TakeTask, Erase
    <3>2. tasks_[n].fiber = f
      BY <1>0, <2>1, <3>1
    <3>3. HasFiber(tasks_, f) /\ ~HasFiber(tasks_', f)
      BY <1>0, <1>1, <3>1, <3>2, TaskRemoved DEF SoloInv
    <3> QED
      BY <1>1, <3>3 DEF SoloInv, Solo
  <2>4. CASE DispatchFiber(w)
    <3>1. task' = task /\ tasks_' = tasks_
      BY <1>0, <2>1, <2>4 DEF DispatchFiber
    <3> QED
      BY <2>2, <3>1
  <2> QED
    BY <2>2, <2>3, <2>4 DEF Moved
<1>7. \A f \in Fibers : Solo(w, f)'
  BY <1>1, <1>4, <1>5, <1>6 DEF SoloInv, Solo
<1> QED
  BY <1>1, <1>3, <1>5, <1>7 DEF SoloInv

\* The worker binds a function: Reset finds its cached fiber free.
LEMMA SoloBind ==
    ASSUME RunInv, NEW w \in Workers, SoloInv(w), NEW g \in Fibers, NEW c \in Callbacks,
           Bind(w, g, c)
    PROVE  SoloInv(w)'
<1>0. /\ pc \in [Workers -> Empty \cup Flight \cup {"tickle", "dispatch"}]
      /\ task \in [Workers -> PlainTasks \cup {NoTask}] /\ state_ \in [Fibers -> States]
      /\ func_ \in [Fibers -> Callbacks \cup {None}]
      /\ cached \in [Workers -> Fibers \cup {None}] /\ NoTask.fiber = None
      /\ \A f \in Fibers : f # None
  BY NewTasks DEF RunInv, RunTypes
<1>1. aborted = "no" /\ pc[w] = "dispatch" /\ cur[w] = None /\ ~Own(w)
  BY DEF Bind, Running, RunInv, Hands, Own, Flight
<1>2. aborted' = "no"
  <2>1. cached[w] = g => state_[g] = "INIT"
    BY <1>0, <1>1 DEF SoloInv
  <2> QED
    BY <1>1, <2>1 DEF Bind
<1>3. /\ UNCHANGED <<workers, tasks_, waiting, cur>> /\ func_[g] = None
      /\ pc'[w] = "resume" /\ task'[w] = NoTask /\ cached'[w] = g
      /\ \A u \in Workers \ {w} : pc'[u] = pc[u]
      /\ \A f \in Fibers : /\ func_'[f] = IF f = g THEN c ELSE func_[f]
                           /\ state_'[f] = IF f = g THEN "INIT" ELSE state_[f]
  BY <1>0 DEF Bind
<1>4. Own(w)' /\ \A f \in Fibers : Held(w, f)' => f = g
  BY <1>0, <1>3 DEF Own, Flight, Held, Has, Target
<1>5. \A f \in Fibers : state_[f] # "EXEC"
  BY <1>1 DEF SoloInv, Solo
<1>6. ~HasFiber(tasks_, g) /\ waiting[g] = "no"
  BY <1>1, <1>3 DEF SoloInv, Solo
<1>7. ASSUME NEW f \in Fibers PROVE Solo(w, f)'
  <2>1. Solo(w, f)
    BY <1>1 DEF SoloInv
  <2>2. CASE f = g
    BY <1>3, <1>6, <2>2 DEF Solo, Bind
  <2>3. CASE f # g
    BY <1>3, <1>4, <1>5, <2>1, <2>3 DEF Solo
  <2> QED
    BY <2>2, <2>3
<1> QED
  BY <1>1, <1>2, <1>3, <1>4, <1>7 DEF SoloInv

\* Resume's assertion never fails, and the fiber it enters has a function.
LEMMA SoloEnter ==
    ASSUME RunInv, NEW w \in Workers, SoloInv(w)
    PROVE  /\ ~Refused(w)
           /\ \A g \in Fibers, c \in Callbacks : Enter(w, g, c) => SoloInv(w)'
<1>1. ~Refused(w)
  <2>1. SUFFICES ASSUME Refused(w) PROVE FALSE
    OBVIOUS
  <2>2. pc[w] = "resume" /\ aborted = "no" /\ Target(w) \in Fibers
    BY <2>1 DEF Refused, Running, RunInv, Hands, Flight
  <2>3. PICK f \in Fibers : f = Target(w)
    BY <2>2
  <2>4. Held(w, f)
    BY <2>2, <2>3 DEF Held, Has
  <2>5. func_[f] # None /\ state_[f] # "EXEC"
    BY <2>2, <2>4 DEF SoloInv, Solo
  <2> QED
    BY <2>1, <2>3, <2>5 DEF Refused
<1>2. ASSUME NEW g \in Fibers, NEW c \in Callbacks, Enter(w, g, c) PROVE SoloInv(w)'
  <2>0. /\ pc \in [Workers -> Empty \cup Flight \cup {"tickle", "dispatch"}]
        /\ state_ \in [Fibers -> States] /\ cur \in [Workers -> Fibers \cup {None}]
        /\ cached \in [Workers -> Fibers \cup {None}]
    BY DEF RunInv, RunTypes
  <2>1. /\ aborted = "no" /\ pc[w] = "resume" /\ Target(w) = g /\ func_[g] # None
        /\ UNCHANGED <<workers, tasks_, func_, waiting, task, cached, aborted>>
        /\ pc'[w] = "run" /\ cur'[w] = g /\ \A u \in Workers \ {w} : pc'[u] = pc[u]
        /\ \A f \in Fibers : state_'[f] = IF f = g THEN "EXEC" ELSE state_[f]
    BY <1>2, <2>0 DEF Enter, Running
  <2>2. \A f \in Fibers : state_[f] # "EXEC"
    BY <2>1 DEF SoloInv, Solo
  <2>3. Target(w)' = g /\ (Own(w)' <=> Own(w))
    BY <2>1 DEF Target, Own, Flight
  <2>4. \A f \in Fibers : Held(w, f)' => Held(w, f)
    BY <2>1, <2>3 DEF Held, Has
  <2>5. ASSUME NEW f \in Fibers PROVE Solo(w, f)'
    <3>1. Solo(w, f)
      BY <2>1 DEF SoloInv
    <3> QED
      BY <2>1, <2>2, <2>4, <3>1 DEF Solo
  <2>6. cached[w] # None /\ ~Own(w) => cached[w] # g /\ cached[w] \in Fibers
    BY <2>0, <2>1 DEF RunInv, Caches
  <2> QED
    BY <2>1, <2>3, <2>5, <2>6 DEF SoloInv
<1> QED
  BY <1>1, <1>2

\* The body acts.
LEMMA SoloActs ==
    ASSUME RunInv, NEW w \in Workers, SoloInv(w), NEW g \in Fibers, Acts(w, g) PROVE SoloInv(w)'
<1>0. /\ pc \in [Workers -> Empty \cup Flight \cup {"tickle", "dispatch"}]
      /\ state_ \in [Fibers -> States] /\ waiting \in [Fibers -> {"no", "queue", "condvar", "event", "timer"}]
      /\ func_ \in [Fibers -> Callbacks \cup {None}] /\ cur \in [Workers -> Fibers \cup {None}]
      /\ cached \in [Workers -> Fibers \cup {None}] /\ g # None
  BY NewTasks DEF RunInv, RunTypes
<1>1. /\ UNCHANGED <<workers, tasks_, task, cached>> /\ Target(w) = g /\ Running /\ cur[w] = g
      /\ pc[w] \in {"run", "armed", "swap"} /\ aborted = "no"
      /\ \A u \in Workers \ {w} : pc'[u] = pc[u]
  BY <1>0 DEF Acts, On, Running
<1>2. Target(w)' = g
  BY <1>1 DEF Target
<1>3. pc[w] \in {"run", "armed"} => state_[g] = "EXEC" /\ func_[g] # None
  BY <1>1 DEF RunInv, Executing
<1>4. /\ \A f \in Fibers : Solo(w, f)
      /\ \A f \in Fibers : state_[f] = "EXEC" => f = g /\ pc[w] \in {"run", "armed"}
      /\ pc[w] = "run" => ~HasFiber(tasks_, g) /\ waiting[g] = "no"
  <2>1. \A f \in Fibers : Solo(w, f)
    BY <1>1 DEF SoloInv
  <2>2. pc[w] = "run" => Held(w, g)
    BY <1>1 DEF Held, Has
  <2> QED
    BY <1>1, <2>1, <2>2 DEF Solo
<1>5. FibersOnce(tasks_') /\ (cached[w] # None /\ ~Own(w) => state_[cached[w]] = "INIT")
  BY <1>1 DEF SoloInv
<1>6. pc[w] \in {"run", "armed"} /\ cached[w] # None /\ ~Own(w) => cached[w] # g
  BY <1>3 DEF RunInv, Caches
<1>7. \A f \in Fibers : f # g => ~Held(w, f) /\ ~Held(w, f)'
  BY <1>1, <1>2 DEF Held, Has
<1>a. CASE /\ pc[w] = "run" /\ pc' = [pc EXCEPT ![w] = "armed"]
           /\ (\E why \in {"queue", "condvar", "event", "timer"} : waiting' = [waiting EXCEPT ![g] = why])
           /\ UNCHANGED <<state_, func_, cur, phase, aborted>>
  <2>1. /\ pc'[w] = "armed" /\ waiting'[g] # "no"
        /\ \A f \in Fibers : f # g => waiting'[f] = waiting[f]
    BY <1>0, <1>a
  <2>2. (Own(w)' <=> Own(w)) /\ ~Held(w, g)'
    BY <1>1, <1>a, <2>1 DEF Own, Flight, Held, Has
  <2>3. ASSUME NEW f \in Fibers PROVE Solo(w, f)'
    BY <1>1, <1>3, <1>4, <1>7, <1>a, <2>1, <2>2 DEF Solo
  <2> QED
    BY <1>1, <1>3, <1>5, <1>a, <2>1, <2>2, <2>3 DEF SoloInv
<1>b. CASE /\ pc[w] \in {"run", "armed"} /\ pc' = [pc EXCEPT ![w] = "swap"]
           /\ (\E st \in {"HOLD", "READY"} : /\ state_' = [state_ EXCEPT ![g] = st]
                                             /\ st = "READY" => pc[w] = "run")
           /\ UNCHANGED <<waiting, func_, cur, phase, aborted>>
  <2>1. PICK st \in {"HOLD", "READY"} : /\ state_' = [state_ EXCEPT ![g] = st]
                                        /\ st = "READY" => pc[w] = "run"
    BY <1>b
  <2>2. /\ pc'[w] = "swap"
        /\ \A f \in Fibers : state_'[f] = IF f = g THEN st ELSE state_[f]
    BY <1>0, <1>b, <2>1
  <2>3. (Own(w)' <=> Own(w)) /\ (Held(w, g)' => pc[w] = "run")
    BY <1>1, <1>b, <2>1, <2>2 DEF Own, Flight, Held, Has
  <2>4. ASSUME NEW f \in Fibers PROVE Solo(w, f)'
    BY <1>1, <1>3, <1>4, <1>7, <1>b, <2>1, <2>2, <2>3 DEF Solo
  <2> QED
    BY <1>0, <1>1, <1>2, <1>5, <1>6, <1>b, <2>1, <2>2, <2>3, <2>4 DEF SoloInv
<1>c. CASE /\ pc[w] = "run" /\ pc' = [pc EXCEPT ![w] = "swap"]
           /\ state_' = [state_ EXCEPT ![g] = "TERM"]
           /\ func_' = [func_ EXCEPT ![g] = None]
           /\ UNCHANGED <<waiting, cur, aborted>>
  <2>1. /\ pc'[w] = "swap"
        /\ \A f \in Fibers : /\ state_'[f] = IF f = g THEN "TERM" ELSE state_[f]
                             /\ func_'[f] = IF f = g THEN None ELSE func_[f]
    BY <1>0, <1>c
  <2>2. (Own(w)' <=> Own(w)) /\ ~Held(w, g)'
    BY <1>1, <1>c, <2>1 DEF Own, Flight, Held, Has
  <2>3. ASSUME NEW f \in Fibers PROVE Solo(w, f)'
    BY <1>1, <1>4, <1>7, <1>c, <2>1, <2>2 DEF Solo
  <2> QED
    BY <1>0, <1>1, <1>2, <1>5, <1>6, <1>c, <2>1, <2>2, <2>3 DEF SoloInv
<1>d. CASE /\ state_' = [state_ EXCEPT ![g] = "EXCEPT"] /\ aborted' = "exception"
           /\ UNCHANGED cur
  BY <1>0, <1>1, <1>d DEF SoloInv
<1>e. CASE /\ pc[w] = "swap" /\ pc' = [pc EXCEPT ![w] = "after"]
           /\ cur' = [cur EXCEPT ![w] = None]
           /\ UNCHANGED <<waiting, state_, func_, phase, aborted>>
  <2>1. pc'[w] = "after" /\ cur'[w] = None
    BY <1>0, <1>e
  <2>2. (Own(w)' <=> Own(w)) /\ (Held(w, g)' => Held(w, g))
    BY <1>1, <1>2, <1>e, <2>1 DEF Own, Flight, Held, Has
  <2>3. ASSUME NEW f \in Fibers PROVE Solo(w, f)'
    BY <1>1, <1>4, <1>7, <1>e, <2>1, <2>2 DEF Solo
  <2>4. state_[g] \in {"HOLD", "READY", "TERM"}
    BY <1>1, <1>e DEF SoloInv
  <2> QED
    BY <1>1, <1>2, <1>5, <1>e, <2>1, <2>2, <2>3, <2>4 DEF SoloInv
<1> QED
  BY <1>a, <1>b, <1>c, <1>d, <1>e DEF Acts

\* Run looks at the fiber again.
LEMMA SoloBack ==
    ASSUME RunInv, NEW w \in Workers, SoloInv(w), NEW g \in Fibers, Back(w, g) PROVE SoloInv(w)'
<1>0. /\ pc \in [Workers -> Empty \cup Flight \cup {"tickle", "dispatch"}]
      /\ tasks_ \in Seq(PlainTasks) /\ state_ \in [Fibers -> States]
      /\ cached \in [Workers -> Fibers \cup {None}]
  BY DEF RunInv, RunTypes
<1>1. /\ UNCHANGED <<workers, func_, waiting, cur, aborted>> /\ aborted = "no"
      /\ pc[w] = "after" /\ Target(w) = g /\ pc'[w] = "scan" /\ cur[w] = None
      /\ \A u \in Workers \ {w} : pc'[u] = pc[u]
  BY <1>0 DEF Back, Running, RunInv, Hands
<1>2. ~Own(w)' /\ \A f \in Fibers : ~Held(w, f)' /\ state_[f] # "EXEC" /\ Solo(w, f)
  BY <1>1 DEF Own, Flight, Held, Has, SoloInv, Solo
<1>3. /\ FibersOnce(tasks_')
      /\ \A f \in Fibers : HasFiber(tasks_', f) =>
            HasFiber(tasks_, f) \/ (waiting[f] = "no" /\ func_[f] # None)
  <2>1. CASE state_[g] = "READY"
    <3>1. Held(w, g) /\ tasks_' = Append(tasks_, FiberTask(g))
      BY <1>1, <2>1 DEF Held, Has, Back
    <3>2. ~HasFiber(tasks_, g) /\ waiting[g] = "no" /\ func_[g] # None
      BY <1>2, <3>1 DEF Solo
    <3>3. /\ \A f \in Fibers : HasFiber(tasks_', f) <=> f = g \/ HasFiber(tasks_, f)
          /\ FibersOnce(tasks_')
      BY <1>0, <1>1, <3>1, <3>2, FiberAppended DEF SoloInv
    <3> QED
      BY <3>2, <3>3
  <2>2. CASE state_[g] # "READY"
    <3>1. tasks_' = tasks_
      BY <2>2 DEF Back
    <3> QED
      BY <1>1, <3>1 DEF SoloInv
  <2> QED
    BY <2>1, <2>2
<1>4. (\A f \in Fibers : state_'[f] # "EXEC") /\ (cached'[w] # None => state_'[cached'[w]] = "INIT")
  <2>1. CASE Own(w) /\ state_[g] = "TERM"
    BY <1>0, <1>2, <2>1 DEF Back
  <2>2. CASE Own(w) /\ state_[g] # "TERM"
    BY <1>0, <1>2, <2>2 DEF Back
  <2>3. CASE ~Own(w)
    <3>1. state_' = state_ /\ cached'[w] = cached[w]
      BY <1>0, <2>3 DEF Back
    <3> QED
      BY <1>1, <1>2, <2>3, <3>1 DEF SoloInv
  <2> QED
    BY <2>1, <2>2, <2>3
<1>5. ASSUME NEW f \in Fibers PROVE Solo(w, f)'
  BY <1>1, <1>2, <1>3, <1>4 DEF Solo
<1> QED
  BY <1>1, <1>2, <1>3, <1>4, <1>5 DEF SoloInv

\* Every step of a scheduler with one worker keeps it sound.
LEMMA SoloStep ==
    ASSUME RunInv, NEW w \in Workers, SoloInv(w), [Next]_vars PROVE SoloInv(w)'
<1>1. CASE UNCHANGED runVars
  BY <1>1 DEF runVars, SoloInv, Solo, Own, Held, Has, Target
<1>2. ASSUME NEW t \in Workers,
             \/ \E l : Moved(t, l)
             \/ TakeTask(t) \/ DispatchFiber(t) \/ Refused(t)
             \/ \E f \in Fibers : \/ \E c \in Callbacks : Bind(t, f, c) \/ Enter(t, f, c)
                                  \/ Acts(t, f) \/ Back(t, f)
      PROVE  t = w
  <2>1. pc[t] # "unused"
    BY <1>2 DEF Moved, TakeTask, DispatchFiber, Refused, Bind, Enter, Acts, Back, At
  <2> QED
    BY <2>1 DEF SoloInv
<1> QED
  BY <1>1, <1>2, StepEffects, SoloQueue, SoloRun, SoloBind, SoloEnter, SoloActs, SoloBack
     DEF Effects

\* A scheduler with one worker thread never enters a stack twice, never resumes an ended
\* fiber and never fails the assertions of Resume and Reset, however wake-ups from other
\* threads interleave with the two halves of a yield (fiber.cc:95, 115, 131-135).
THEOREM SingleWorkerSafeHolds == Spec => []SingleWorkerSafe
<1> DEFINE SoloOrMore == \A w \in Workers : workers = {w} => SoloInv(w)
<1>1. Init => SoloOrMore
  <2> SUFFICES ASSUME Init, NEW w \in Workers, workers = {w} PROVE SoloInv(w)
    OBVIOUS
  <2>1. Len(tasks_) = 0 /\ pc[w] = "scan" /\ \A f \in Fibers : state_[f] = "NEW" /\ f # None
    BY NewTasks DEF Init
  <2>2. ASSUME NEW f \in Fibers PROVE Solo(w, f)
    BY <2>1 DEF Init, Solo, Held, Has, HasFiber
  <2> QED
    BY <2>1, <2>2 DEF Init, SoloInv, FibersOnce
<1>2. RunInv /\ SoloOrMore /\ [Next]_vars => SoloOrMore'
  <2>1. SUFFICES ASSUME RunInv, SoloOrMore, [Next]_vars, NEW w \in Workers, workers' = {w}
                 PROVE  SoloInv(w)'
    OBVIOUS
  <2>2. workers' = workers
    <3>1. Effects
      BY <2>1, StepEffects
    <3>2. ASSUME NEW t \in Workers,
                 (\E l : Moved(t, l)) \/ TakeTask(t) \/ DispatchFiber(t) \/ Refused(t)
          PROVE  workers' = workers
      BY <3>2 DEF Moved, TakeTask, DispatchFiber, Refused
    <3>3. ASSUME NEW t \in Workers, NEW f \in Fibers, NEW c \in Callbacks,
                 Bind(t, f, c) \/ Enter(t, f, c)
          PROVE  workers' = workers
      BY <3>3 DEF Bind, Enter
    <3>4. ASSUME NEW t \in Workers, NEW f \in Fibers, Acts(t, f) \/ Back(t, f)
          PROVE  workers' = workers
      BY <3>4 DEF Acts, Back
    <3>5. ASSUME \/ UNCHANGED runVars
                 \/ \E c \in Callbacks, th \in workers \cup {None} : Submit(c, th)
                 \/ \E f \in Fibers : Wake(f)
          PROVE  workers' = workers
      BY <3>5 DEF runVars, Submit, Wake
    <3> QED
      BY <3>1, <3>2, <3>3, <3>4, <3>5 DEF Effects
  <2> QED
    BY <2>1, <2>2, SoloStep
<1>3. RunInv /\ SoloOrMore => SingleWorkerSafe
  <2>1. SUFFICES ASSUME RunInv, SoloOrMore, Cardinality(workers) = 1
                 PROVE  ~Corrupted /\ aborted \notin {"resume", "reset", "ended"}
    BY DEF SingleWorkerSafe
  <2>2. IsFiniteSet(workers)
    BY <2>1, SchedulerAssumption, FS_Subset DEF RunInv, RunTypes
  <2>3. PICK w : workers = {w}
    BY <2>1, <2>2, FS_Singleton
  <2>4. w \in Workers /\ SoloInv(w)
    BY <2>1, <2>3 DEF RunInv, RunTypes
  <2> QED
    BY <2>1, <2>4, SoloSound DEF SoloInv
<1> HIDE DEF SoloOrMore
<1> QED
  BY <1>1, <1>2, <1>3, RunInvHolds, PTL DEF Spec
=============================================================================
