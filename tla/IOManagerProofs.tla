-------------------------- MODULE IOManagerProofs --------------------------
(***************************************************************************)
(* Machine-checked proofs about IOManager, for any sockets and threads,    *)
(* any timeouts and any number of calls: a suspended fiber is known in one *)
(* place, pendingEventCount_ counts the waiters, and the assertion of      *)
(* addEvent holds, the last two as long as no addEvent has failed.         *)
(***************************************************************************)
EXTENDS IOManager, FiniteSetTheorems, TLAPS

\* A fiber is in its context and Submitted so many times.
Places(u) == (IF u \in context THEN 1 ELSE 0) + submitted[u]

\* Who is suspended is known in one place, unless delEvent dropped it, and nobody else is.
WaiterInv ==
    /\ context \subseteq Users /\ dropped \subseteq Users
    /\ submitted \in [Users -> Nat]
    /\ pc \in [Users -> {"idle", "try", "add", "hold"}]
    /\ events \in [Fds -> SUBSET Events]
    /\ \A u \in Users : Places(u) = IF pc[u] = "hold" /\ u \notin dropped THEN 1 ELSE 0
    /\ \A u \in dropped : pc[u] = "hold"

\* Until an addEvent fails, the marked events are the filled contexts, which are counted.
CountInv ==
    /\ IsFiniteSet(context)
    /\ addFailed \in BOOLEAN
    /\ ~addFailed =>
         /\ \A u \in Users : u[2] \in events[u[1]] <=> u \in context
         /\ pendingEventCount_ = Cardinality(context)
         /\ crashed # "registered"

\* A fiber is a pair of a socket and an event.
LEMMA UserParts ==
    /\ \A u \in Users : u[1] \in Fds /\ u[2] \in Events /\ u = <<u[1], u[2]>>
    /\ \A fd \in Fds, ev \in Events : <<fd, ev>> \in Users
    /\ \A fd \in Fds, evs \in SUBSET Events : {fd} \X evs \subseteq Users
  BY DEF Users

\* How many fibers wait for some events of one socket.
LEMMA SocketUsers ==
    ASSUME NEW fd, NEW evs \in SUBSET Events
    PROVE  IsFiniteSet({fd} \X evs) /\ Cardinality({fd} \X evs) = Cardinality(evs)
<1>1. IsFiniteSet(Events)
  <2>1. IsFiniteSet({}) /\ IsFiniteSet({} \cup {"READ"})
    BY FS_EmptySet, FS_AddElement
  <2>2. IsFiniteSet(({} \cup {"READ"}) \cup {"WRITE"})
    BY <2>1, FS_AddElement
  <2>3. Events = ({} \cup {"READ"}) \cup {"WRITE"}
    BY DEF Events
  <2> QED
    BY <2>2, <2>3
<1>2. IsFiniteSet(evs) /\ Cardinality(evs) \in Nat
  BY <1>1, FS_Subset, FS_CardinalityType
<1>3. IsFiniteSet({fd}) /\ Cardinality({fd}) = 1
  BY FS_Singleton
<1> QED
  BY <1>2, <1>3, FS_Product

\* What triggering does to the fibers, unless it fails an assertion.
Woke(us) ==
    /\ us \subseteq context
    /\ context' = context \ us
    /\ submitted' = [u \in Users |-> submitted[u] + (IF u \in us THEN 1 ELSE 0)]

\* The outcomes of triggerEvent.
LEMMA TriggerCases ==
    ASSUME NEW fd \in Fds, NEW evs, TriggerEvents(fd, evs)
    PROVE  \/ crashed' = "trigger" /\ UNCHANGED <<ctxVars, submitted>>
           \/ /\ evs \subseteq events[fd] /\ Woke({fd} \X evs)
              /\ events' = [events EXCEPT ![fd] = @ \ evs]
              /\ pendingEventCount_' = pendingEventCount_ - Cardinality(evs)
              /\ crashed' = crashed
<1> DEFINE us == {fd} \X evs
<1>1. CASE ~(evs \subseteq events[fd]) \/ ~(us \subseteq context)
  BY <1>1 DEF TriggerEvents
<1>2. CASE evs \subseteq events[fd] /\ us \subseteq context
  BY <1>2 DEF TriggerEvents, Triggered, Woke
<1> QED
  BY <1>1, <1>2

\* Triggering keeps the waiters known.
LEMMA TriggerKeeps ==
    ASSUME WaiterInv, NEW fd \in Fds, NEW evs \in SUBSET Events, TriggerEvents(fd, evs),
           UNCHANGED <<pc, dropped>>
    PROVE  WaiterInv'
<1>1. CASE crashed' = "trigger" /\ UNCHANGED <<ctxVars, submitted>>
  BY <1>1 DEF WaiterInv, Places, ctxVars
<1>2. ASSUME Woke({fd} \X evs), events' = [events EXCEPT ![fd] = @ \ evs] PROVE WaiterInv'
  <2> DEFINE us == {fd} \X evs
  <2>1. us \subseteq Users
    BY UserParts
  <2>2. /\ us \subseteq context /\ context' = context \ us
        /\ submitted' = [u \in Users |-> submitted[u] + (IF u \in us THEN 1 ELSE 0)]
    BY <1>2 DEF Woke
  <2> HIDE DEF us
  <2>3. submitted' \in [Users -> Nat] /\ events' \in [Fds -> SUBSET Events]
    BY <1>2, <2>2 DEF WaiterInv
  <2>4. ASSUME NEW u \in Users PROVE Places(u)' = Places(u)
    BY <2>2 DEF WaiterInv, Places
  <2> QED
    BY <2>2, <2>3, <2>4 DEF WaiterInv
<1> QED
  BY <1>1, <1>2, TriggerCases

\* Triggering keeps the count.
LEMMA TriggerCounts ==
    ASSUME WaiterInv, CountInv, NEW fd \in Fds, NEW evs \in SUBSET Events, TriggerEvents(fd, evs),
           addFailed' = addFailed
    PROVE  CountInv'
<1>1. CASE crashed' = "trigger" /\ UNCHANGED <<ctxVars, submitted>>
  BY <1>1 DEF CountInv, ctxVars
<1>2. CASE /\ evs \subseteq events[fd] /\ Woke({fd} \X evs)
           /\ events' = [events EXCEPT ![fd] = @ \ evs]
           /\ pendingEventCount_' = pendingEventCount_ - Cardinality(evs)
           /\ crashed' = crashed
  <2> DEFINE us == {fd} \X evs
  <2>1. /\ us \subseteq context /\ context' = context \ us
    BY <1>2 DEF Woke
  <2>2. IsFiniteSet(us) /\ Cardinality(us) = Cardinality(evs)
    BY SocketUsers
  <2>3. /\ IsFiniteSet(context') /\ Cardinality(context') = Cardinality(context) - Cardinality(us)
    <3>1. context \cap us = us
      BY <2>1
    <3> HIDE DEF us
    <3> QED
      BY <2>1, <2>2, <3>1, FS_Difference DEF CountInv
  <2>4. ASSUME NEW u \in Users, ~addFailed PROVE u[2] \in events'[u[1]] <=> u \in context'
    <3>1. u[2] \in events[u[1]] <=> u \in context
      BY <2>4 DEF CountInv
    <3>2. u[1] \in Fds /\ u[2] \in Events /\ u = <<u[1], u[2]>>
      BY UserParts
    <3>3. u \in us <=> u[1] = fd /\ u[2] \in evs
      BY <3>2
    <3> HIDE DEF us
    <3> QED
      BY <1>2, <2>1, <3>1, <3>2, <3>3 DEF WaiterInv
  <2> HIDE DEF us
  <2> QED
    BY <1>2, <2>2, <2>3, <2>4 DEF CountInv
<1> QED
  BY <1>1, <1>2, TriggerCases

-----------------------------------------------------------------------------
\* Steps that neither suspend nor wake anybody keep the waiters known.
LEMMA WaiterQuiet ==
    ASSUME WaiterInv, UNCHANGED <<context, submitted, dropped, events, pc>>
    PROVE  WaiterInv'
  BY DEF WaiterInv, Places

\* A fiber that is not suspended goes to another place of do_io that is not the suspension.
LEMMA WaiterMoves ==
    ASSUME WaiterInv, NEW u \in Users, NEW l \in {"idle", "try", "add"}, pc[u] # "hold",
           pc' = [pc EXCEPT ![u] = l], UNCHANGED <<context, submitted, dropped>>,
           events' \in [Fds -> SUBSET Events]
    PROVE  WaiterInv'
  BY DEF WaiterInv, Places

\* A fiber that is resumed was Submitted once and is in no context.
LEMMA WaiterResumed ==
    ASSUME WaiterInv, NEW u \in Users, NEW l \in {"idle", "try"}, pc[u] = "hold", submitted[u] > 0,
           pc' = [pc EXCEPT ![u] = l], submitted' = [submitted EXCEPT ![u] = @ - 1],
           UNCHANGED <<context, dropped, events>>
    PROVE  WaiterInv'
<1>1. submitted[u] \in Nat
  BY DEF WaiterInv
<1>2. u \notin dropped /\ u \notin context /\ submitted[u] = 1
  BY <1>1 DEF WaiterInv, Places
<1>3. submitted' \in [Users -> Nat]
  BY <1>2 DEF WaiterInv
<1>4. Places(u)' = 0
  BY <1>2 DEF Places, WaiterInv
<1>5. \A v \in Users \ {u} : Places(v)' = Places(v)
  BY DEF Places, WaiterInv
<1> QED
  BY <1>2, <1>3, <1>4, <1>5 DEF WaiterInv

\* Every step of a call keeps the waiters known.
LEMMA WaiterIo ==
    ASSUME WaiterInv, NEW u \in Users, Call(u) \/ Connect(u) \/ IoStep(u) PROVE WaiterInv'
<1>0. events \in [Fds -> SUBSET Events] /\ u[1] \in Fds /\ u[2] \in Events
  BY UserParts DEF WaiterInv
<1>1. CASE Call(u) \/ Connect(u) \/ IoBlocks(u)
  <2>1. /\ UNCHANGED <<context, submitted, dropped, events>> /\ pc[u] \in {"idle", "try"}
        /\ \E l \in {"try", "add"} : pc' = [pc EXCEPT ![u] = l]
    BY <1>1 DEF Call, Connect, IoBlocks, Goto, ctxVars
  <2> QED
    BY <1>0, <2>1, WaiterMoves
<1>2. CASE IoDone(u)
  <2>1. /\ UNCHANGED <<context, submitted, dropped, events>> /\ pc[u] = "try"
        /\ pc' = [pc EXCEPT ![u] = "idle"]
    BY <1>2 DEF IoDone, Returns, ctxVars
  <2> QED
    BY <1>0, <2>1, WaiterMoves
<1>3. CASE AddEvent(u)
  <2>1. /\ pc[u] = "add" /\ pc' = [pc EXCEPT ![u] = "hold"] /\ context' = context \cup {u}
        /\ events' = [events EXCEPT ![u[1]] = @ \cup {u[2]}]
        /\ UNCHANGED <<submitted, dropped>>
    BY <1>3 DEF AddEvent, Goto
  <2>2. u \notin dropped /\ submitted[u] = 0 /\ u \notin context
    BY <2>1 DEF WaiterInv, Places
  <2>3. Places(u)' = 1 /\ \A v \in Users \ {u} : Places(v)' = Places(v)
    BY <2>1, <2>2 DEF Places
  <2> QED
    BY <1>0, <2>1, <2>2, <2>3 DEF WaiterInv
<1>4. CASE AddEventFails(u)
  <2>1. /\ UNCHANGED <<context, submitted, dropped>> /\ pc[u] = "add"
        /\ pc' = [pc EXCEPT ![u] = "idle"] /\ events' = [events EXCEPT ![u[1]] = @ \cup {u[2]}]
    BY <1>4 DEF AddEventFails, Returns
  <2> QED
    BY <1>0, <2>1, WaiterMoves
<1>5. CASE AddEventAsserts(u)
  BY <1>5, WaiterQuiet DEF AddEventAsserts, ctxVars, callVars
<1>6. CASE Resumed(u) \/ ConnectResumed(u)
  <2>1. /\ UNCHANGED <<context, dropped, events>> /\ pc[u] = "hold" /\ submitted[u] > 0
        /\ submitted' = [submitted EXCEPT ![u] = @ - 1]
        /\ \E l \in {"idle", "try"} : pc' = [pc EXCEPT ![u] = l]
    BY <1>6 DEF Resumed, ConnectResumed, Returns, Goto, ctxVars
  <2> QED
    BY <2>1, WaiterResumed
<1> QED
  BY <1>1, <1>2, <1>3, <1>4, <1>5, <1>6 DEF IoStep

\* The events that Wait, a cancel or a close triggers are READ and WRITE.
LEMMA HandledEvents ==
    ASSUME events \in [Fds -> SUBSET Events], NEW fd \in Fds, NEW evs
    PROVE  RealEvents(fd, evs) \in SUBSET Events
  BY DEF RealEvents

\* Every step keeps the waiters known.
LEMMA WaiterStep == WaiterInv /\ [Next]_vars => WaiterInv'
<1> SUFFICES ASSUME WaiterInv, [Next]_vars PROVE WaiterInv'
  OBVIOUS
<1>0. events \in [Fds -> SUBSET Events]
  BY DEF WaiterInv
<1>1. ASSUME NEW u \in Users, Call(u) \/ Connect(u) \/ IoStep(u) PROVE WaiterInv'
  BY <1>1, WaiterIo
<1>2. ASSUME NEW u \in Users, TimerExpires(u) \/ TimerCallback(u) PROVE WaiterInv'
  BY <1>2, WaiterQuiet DEF TimerExpires, TimerCallback, ctxVars
<1>3. ASSUME NEW u \in Users, TimerCancels(u) PROVE WaiterInv'
  <2>1. UNCHANGED <<pc, dropped>> /\ CancelEvent(u[1], u[2]) /\ u[1] \in Fds /\ u[2] \in Events
    BY <1>3, UserParts DEF TimerCancels, callVars
  <2>2. CASE TriggerEvents(u[1], {u[2]})
    <3>1. {u[2]} \in SUBSET Events
      BY <2>1
    <3> QED
      BY <2>1, <2>2, <3>1, TriggerKeeps
  <2>3. CASE UNCHANGED <<ctxVars, submitted>>
    BY <2>1, <2>3, WaiterQuiet DEF ctxVars
  <2> QED
    BY <2>1, <2>2, <2>3 DEF CancelEvent
<1>4. ASSUME NEW p \in Threads, EpollWait(p) \/ DrainPipe(p) \/ WildContext(p) PROVE WaiterInv'
  <2>1. UNCHANGED <<context, submitted, dropped, events, pc>>
    BY <1>4 DEF EpollWait, DrainPipe, WildContext, ctxVars, callVars
  <2> QED
    BY <2>1, WaiterQuiet
<1>5. ASSUME NEW p \in Threads, HandleEvent(p) PROVE WaiterInv'
  <2> DEFINE real == RealEvents(first[p], Head(batch[p]).evs)
  <2>1. /\ UNCHANGED <<pc, dropped>> /\ first[p] \in Fds
        /\ TriggerEvents(first[p], real) \/ UNCHANGED <<ctxVars, submitted>>
    BY <1>5 DEF HandleEvent, callVars
  <2>2. real \in SUBSET Events
    BY <1>0, <2>1, HandledEvents
  <2> HIDE DEF real
  <2>3. CASE TriggerEvents(first[p], real)
    BY <2>1, <2>2, <2>3, TriggerKeeps
  <2>4. CASE UNCHANGED <<ctxVars, submitted>>
    BY <2>1, <2>4, WaiterQuiet DEF ctxVars
  <2> QED
    BY <2>1, <2>3, <2>4
<1>6. ASSUME NEW fd \in Fds, NEW what, Arrives(fd, what) PROVE WaiterInv'
  BY <1>6, WaiterQuiet DEF Arrives, ctxVars, callVars
<1>7. ASSUME NEW fd \in Fds, NEW ev \in Events, DelEvent(fd, ev) PROVE WaiterInv'
  <2> DEFINE u == <<fd, ev>>
  <2>1. /\ UNCHANGED <<pc, submitted>> /\ context' = context \ {u}
        /\ dropped' = dropped \cup ({u} \cap context)
        /\ events' = [events EXCEPT ![fd] = @ \ {ev}] /\ u \in Users
    BY <1>7, UserParts DEF DelEvent, Deleted, callVars
  <2> HIDE DEF u
  <2>2. CASE u \notin context
    <3>1. context' = context /\ dropped' = dropped
      BY <2>1, <2>2
    <3> QED
      BY <1>0, <2>1, <3>1 DEF WaiterInv, Places
  <2>3. CASE u \in context
    <3>1. submitted[u] \in Nat
      BY <2>1 DEF WaiterInv
    <3>2. pc[u] = "hold" /\ u \notin dropped /\ submitted[u] = 0
      BY <2>1, <2>3, <3>1 DEF WaiterInv, Places
    <3>3. Places(u)' = 0 /\ \A v \in Users \ {u} : Places(v)' = Places(v)
      BY <2>1, <3>2 DEF Places
    <3> QED
      BY <1>0, <2>1, <2>3, <3>2, <3>3 DEF WaiterInv
  <2> QED
    BY <2>2, <2>3
<1>8. ASSUME NEW fd \in Fds, Close(fd) PROVE WaiterInv'
  <2>1. /\ UNCHANGED <<pc, dropped>> /\ events[fd] \in SUBSET Events
        /\ TriggerEvents(fd, events[fd]) \/ UNCHANGED <<ctxVars, submitted>>
    BY <1>0, <1>8 DEF Close, callVars
  <2>2. CASE TriggerEvents(fd, events[fd])
    BY <2>1, <2>2, TriggerKeeps
  <2>3. CASE UNCHANGED <<ctxVars, submitted>>
    BY <2>1, <2>3, WaiterQuiet DEF ctxVars
  <2> QED
    BY <2>1, <2>2, <2>3
<1>9. ASSUME NEW fd \in Fds, CloseF(fd) PROVE WaiterInv'
  BY <1>9, WaiterQuiet DEF CloseF, ctxVars, callVars
<1>10. CASE PipeWritten \/ UNCHANGED vars
  BY <1>10, WaiterQuiet DEF PipeWritten, vars, ctxVars, callVars
<1> QED
  BY <1>1, <1>2, <1>3, <1>4, <1>5, <1>6, <1>7, <1>8, <1>9, <1>10
     DEF Next, TimerStep, WaitStep

\* A suspended fiber is in its context or Submitted, once, unless delEvent dropped it, and
\* nobody else is, whichever event, timeout, close and stale timer callback race for it
\* (hook.cc:108-147, io_manager.cc:225-241).
THEOREM WaiterKnownOnceHolds == Spec => []WaiterKnownOnce
<1>1. Init => WaiterInv
  BY DEF Init, WaiterInv, Places
<1>2. ASSUME WaiterInv PROVE WaiterKnownOnce
  <2>1. ASSUME NEW u \in Users
        PROVE  Cardinality(context \cap {u}) = IF u \in context THEN 1 ELSE 0
    <3>1. CASE u \in context
      <4>1. context \cap {u} = {u}
        BY <3>1
      <4> QED
        BY <3>1, <4>1, FS_Singleton
    <3>2. CASE u \notin context
      <4>1. context \cap {u} = {}
        BY <3>2
      <4> QED
        BY <3>2, <4>1, FS_EmptySet
    <3> QED
      BY <3>1, <3>2
  <2> QED
    BY <1>2, <2>1 DEF WaiterInv, WaiterKnownOnce, Places
<1> QED
  BY <1>1, <1>2, WaiterStep, PTL DEF Spec

-----------------------------------------------------------------------------
\* Steps that leave the registrations alone keep the count.
LEMMA CountQuiet ==
    ASSUME CountInv, UNCHANGED <<events, context, pendingEventCount_, addFailed>>,
           crashed' = crashed \/ crashed' # "registered"
    PROVE  CountInv'
  BY DEF CountInv

\* Every step keeps the count.
LEMMA CountStep == WaiterInv /\ CountInv /\ [Next]_vars => CountInv'
<1> SUFFICES ASSUME WaiterInv, CountInv, [Next]_vars PROVE CountInv'
  OBVIOUS
<1>0. events \in [Fds -> SUBSET Events]
  BY DEF WaiterInv
<1>1. ASSUME NEW u \in Users,
             \/ Call(u) \/ Connect(u) \/ IoDone(u) \/ IoBlocks(u) \/ Resumed(u)
             \/ ConnectResumed(u) \/ TimerExpires(u) \/ TimerCallback(u)
      PROVE  CountInv'
  <2>1. UNCHANGED <<ctxVars, addFailed, crashed>>
    BY <1>1 DEF Call, Connect, IoDone, IoBlocks, Resumed, ConnectResumed, TimerExpires, TimerCallback
  <2> QED
    BY <2>1, CountQuiet DEF ctxVars
<1>2. ASSUME NEW u \in Users, AddEvent(u) PROVE CountInv'
  <2>1. /\ pc[u] = "add" /\ context' = context \cup {u}
        /\ events' = [events EXCEPT ![u[1]] = @ \cup {u[2]}]
        /\ pendingEventCount_' = pendingEventCount_ + 1
        /\ UNCHANGED <<addFailed, crashed>>
    BY <1>2 DEF AddEvent
  <2>2. u \notin context
    BY <2>1 DEF WaiterInv, Places
  <2>3. IsFiniteSet(context') /\ Cardinality(context') = Cardinality(context) + 1
    BY <2>1, <2>2, FS_AddElement DEF CountInv
  <2>4. ASSUME NEW v \in Users, ~addFailed PROVE v[2] \in events'[v[1]] <=> v \in context'
    <3>1. v[2] \in events[v[1]] <=> v \in context
      BY <2>4 DEF CountInv
    <3>2. /\ v[1] \in Fds /\ v = <<v[1], v[2]>>
          /\ u[1] \in Fds /\ u = <<u[1], u[2]>>
      BY UserParts
    <3>3. v = u <=> v[1] = u[1] /\ v[2] = u[2]
      BY <3>2
    <3> QED
      BY <1>0, <2>1, <3>1, <3>2, <3>3
  <2> QED
    BY <2>1, <2>3, <2>4 DEF CountInv
<1>3. ASSUME NEW u \in Users, AddEventFails(u) PROVE CountInv'
  BY <1>3 DEF AddEventFails, CountInv
<1>4. ASSUME NEW u \in Users, AddEventAsserts(u) PROVE CountInv'
  <2>1. /\ pc[u] = "add" /\ u[2] \in events[u[1]]
        /\ UNCHANGED <<events, context, pendingEventCount_, addFailed>>
    BY <1>4 DEF AddEventAsserts, ctxVars
  <2>2. u \notin context
    BY <2>1 DEF WaiterInv, Places
  <2>3. addFailed
    BY <2>1, <2>2 DEF CountInv
  <2> QED
    BY <2>1, <2>3 DEF CountInv
<1>5. ASSUME NEW u \in Users, TimerCancels(u) PROVE CountInv'
  <2>1. addFailed' = addFailed /\ CancelEvent(u[1], u[2]) /\ u[1] \in Fds /\ {u[2]} \in SUBSET Events
    BY <1>5, UserParts DEF TimerCancels
  <2>2. CASE TriggerEvents(u[1], {u[2]})
    BY <2>1, <2>2, TriggerCounts
  <2>3. CASE UNCHANGED <<ctxVars, crashed>>
    BY <2>1, <2>3, CountQuiet DEF ctxVars
  <2> QED
    BY <2>1, <2>2, <2>3 DEF CancelEvent
<1>6. ASSUME NEW p \in Threads, EpollWait(p) \/ DrainPipe(p) \/ WildContext(p) PROVE CountInv'
  <2>1. UNCHANGED <<ctxVars, addFailed>> /\ (crashed' = crashed \/ crashed' = "wild")
    BY <1>6 DEF EpollWait, DrainPipe, WildContext
  <2> QED
    BY <2>1, CountQuiet DEF ctxVars
<1>7. ASSUME NEW p \in Threads, HandleEvent(p) PROVE CountInv'
  <2> DEFINE real == RealEvents(first[p], Head(batch[p]).evs)
  <2>1. /\ addFailed' = addFailed /\ first[p] \in Fds
        /\ TriggerEvents(first[p], real) \/ UNCHANGED <<ctxVars, crashed>>
    BY <1>7 DEF HandleEvent
  <2>2. real \in SUBSET Events
    BY <1>0, <2>1, HandledEvents
  <2> HIDE DEF real
  <2>3. CASE TriggerEvents(first[p], real)
    BY <2>1, <2>2, <2>3, TriggerCounts
  <2>4. CASE UNCHANGED <<ctxVars, crashed>>
    BY <2>1, <2>4, CountQuiet DEF ctxVars
  <2> QED
    BY <2>1, <2>3, <2>4
<1>8. ASSUME NEW fd \in Fds, NEW what, Arrives(fd, what) PROVE CountInv'
  BY <1>8, CountQuiet DEF Arrives, ctxVars
<1>9. ASSUME NEW fd \in Fds, NEW ev \in Events, DelEvent(fd, ev) PROVE CountInv'
  <2> DEFINE u == <<fd, ev>>
  <2>1. /\ ev \in events[fd] /\ context' = context \ {u} /\ u \in Users
        /\ events' = [events EXCEPT ![fd] = @ \ {ev}]
        /\ pendingEventCount_' = pendingEventCount_ - 1 /\ UNCHANGED <<addFailed, crashed>>
    BY <1>9, UserParts DEF DelEvent, Deleted
  <2>2. u[1] = fd /\ u[2] = ev
    OBVIOUS
  <2> HIDE DEF u
  <2>3. /\ IsFiniteSet(context')
        /\ u \in context => Cardinality(context') = Cardinality(context) - 1
    BY <2>1, FS_RemoveElement DEF CountInv
  <2>4. ~addFailed => u \in context
    BY <2>1, <2>2 DEF CountInv
  <2>5. ASSUME NEW v \in Users, ~addFailed PROVE v[2] \in events'[v[1]] <=> v \in context'
    <3>1. v[2] \in events[v[1]] <=> v \in context
      BY <2>5 DEF CountInv
    <3>2. /\ v[1] \in Fds /\ v = <<v[1], v[2]>> /\ u = <<u[1], u[2]>>
      BY <2>1, UserParts
    <3>3. v = u <=> v[1] = fd /\ v[2] = ev
      BY <2>2, <3>2
    <3> QED
      BY <1>0, <2>1, <3>1, <3>2, <3>3
  <2> QED
    BY <2>1, <2>3, <2>4, <2>5 DEF CountInv
<1>10. ASSUME NEW fd \in Fds, Close(fd) PROVE CountInv'
  <2>1. /\ addFailed' = addFailed /\ events[fd] \in SUBSET Events
        /\ TriggerEvents(fd, events[fd]) \/ UNCHANGED <<ctxVars, crashed>>
    BY <1>0, <1>10 DEF Close
  <2>2. CASE TriggerEvents(fd, events[fd])
    BY <2>1, <2>2, TriggerCounts
  <2>3. CASE UNCHANGED <<ctxVars, crashed>>
    BY <2>1, <2>3, CountQuiet DEF ctxVars
  <2> QED
    BY <2>1, <2>2, <2>3
<1>11. ASSUME NEW fd \in Fds, CloseF(fd) PROVE CountInv'
  BY <1>11, CountQuiet DEF CloseF, ctxVars
<1>12. CASE PipeWritten \/ UNCHANGED vars
  BY <1>12, CountQuiet DEF PipeWritten, vars, ctxVars
<1> QED
  BY <1>1, <1>2, <1>3, <1>4, <1>5, <1>6, <1>7, <1>8, <1>9, <1>10, <1>11, <1>12
     DEF Next, IoStep, TimerStep, WaitStep

\* The two invariants hold in every reachable state.
LEMMA CountHolds == Spec => [](WaiterInv /\ CountInv)
<1>1. Init => WaiterInv
  BY DEF Init, WaiterInv, Places
<1>2. Init => CountInv
  BY FS_EmptySet, UserParts DEF Init, CountInv
<1> QED
  BY <1>1, <1>2, WaiterStep, CountStep, PTL DEF Spec

\* Through triggers, cancels, closes and deletes, pendingEventCount_, on which Stopping()
\* relies, is the number of the waiters in the contexts, as long as no addEvent has failed
\* (io_manager.cc:90, 134, 170, 197-204, 311-318, 336).
THEOREM PendingExactHolds == Spec => []PendingExact
<1>1. CountInv => PendingExact
  BY DEF CountInv, PendingExact
<1> QED
  BY <1>1, CountHolds, PTL

\* RPC_ASSERT in addEvent, that the event is not registered yet, holds as long as no
\* addEvent has failed: an event is unmarked before its fiber runs again
\* (io_manager.cc:69-75).
THEOREM AddEventAssertHolds == Spec => [](crashed = "registered" => addFailed)
<1>1. CountInv => (crashed = "registered" => addFailed)
  BY DEF CountInv
<1> QED
  BY <1>1, CountHolds, PTL
=============================================================================
