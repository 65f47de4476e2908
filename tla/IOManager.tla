----------------------------- MODULE IOManager -----------------------------
(***************************************************************************)
(* The event side of IOManager (src/io_manager.cc) under its client, the   *)
(* hooked socket calls (do_io, connect_with_timeout and close of           *)
(* src/hook.cc): FdContext, the registrations in the kernel's epoll set,   *)
(* the loop of Wait over what epoll_wait reports, and the condition timer  *)
(* of a call with a timeout.                                               *)
(*                                                                         *)
(* One fiber reads and one writes on every socket.  What is done under the *)
(* mutex of an FdContext is one step.  Of the scheduler only its promise   *)
(* is used: a Submitted fiber is resumed once, after it has left its       *)
(* thread.  A failed assertion and a wild pointer end the process.         *)
(***************************************************************************)
EXTENDS Integers, Sequences, FiniteSets, SequencesExt

CONSTANTS
    Fds,        \* the sockets
    Threads,    \* the worker threads that run Wait
    Scopes,     \* bounds: the scopes a behaviour may have, see Scope
    Pipe,       \* the read end of the wake-up pipe
    Wild        \* a data.ptr that points nowhere

Events == {"READ", "WRITE"}

\* The fibers: one per socket and event.
Users == Fds \X Events

\* What happens besides calls, data and timeouts.
Others == {"HUP", "connect", "close", "delEvent", "Notify"}

\* The scope of a behaviour: the sockets in use, the events whose calls have a timeout
\* (SO_RCVTIMEO, SO_SNDTIMEO), how many calls there are, how many timer callbacks of one
\* fiber wait to run, and what else happens.
Scope == [fds : SUBSET Fds, timed : SUBSET Events, calls : Nat, fired : Nat,
          others : SUBSET Others]

ASSUME IOAssumption ==
    /\ Scopes \subseteq Scope
    /\ Pipe \notin Fds /\ Wild \notin Fds /\ Pipe # Wild

VARIABLES
    scope,      \* the scope of this behaviour
    events,     \* FdContext::events
    context,    \* the users whose EventContext is filled
    pendingEventCount_,
    inEpoll, mask, ptr,     \* the kernel: members, their events and data.ptr
    ready,      \* what each socket is ready for; "HUP" once the peer is gone
    edge,       \* the descriptors epoll_wait will report
    batch,      \* what Wait has left of the reported events
    first,      \* data.ptr of events[0]
    misread,    \* history: sockets whose report was applied to another's context
    open,       \* the state of each descriptor: "open", "closing", "closed"
    pc,         \* where each fiber is in do_io
    calls,      \* how many calls there were
    timer,      \* its timer is in the TimerManager
    fired,      \* callbacks of the call's timers that wait to run
    timedOut,   \* *timecondition of its call
    connecting, \* the fibers whose call is a connect
    used,       \* the sockets on which there was a call
    cancelling, \* the users whose timer callback is about to call cancelEvent
    submitted,  \* how often the fiber is Submitted and not resumed yet
    addFailed,  \* history: an addEvent has failed
    dropped,    \* history: suspended fibers whose event delEvent removed
    crashed     \* why the process ended, "no" while it runs

ctxVars == <<events, context, pendingEventCount_>>
kernelVars == <<inEpoll, mask, ptr, edge>>
waitVars == <<batch, first, misread>>
callVars == <<pc, calls, timer, fired, timedOut, connecting, used>>
vars == <<ctxVars, kernelVars, ready, waitVars, open, callVars, cancelling, submitted,
          addFailed, dropped, crashed, scope>>

Init ==
    /\ scope \in Scopes
    /\ events = [fd \in Fds |-> {}]
    /\ context = {}
    /\ pendingEventCount_ = 0
    /\ inEpoll = {}
    /\ mask = [fd \in Fds |-> {}]
    /\ ptr = [fd \in Fds |-> fd]
    /\ ready = [fd \in Fds |-> {}]
    /\ edge = {}
    /\ batch = [p \in Threads |-> <<>>]
    /\ first = [p \in Threads |-> Pipe]
    /\ misread = {}
    /\ open = [fd \in Fds |-> "open"]
    /\ pc = [u \in Users |-> "idle"]
    /\ calls = 0
    /\ timer = [u \in Users |-> FALSE]
    /\ fired = [u \in Users |-> 0]
    /\ timedOut = [u \in Users |-> FALSE]
    /\ connecting = {}
    /\ used = {}
    /\ cancelling = {}
    /\ submitted = [u \in Users |-> 0]
    /\ addFailed = FALSE
    /\ dropped = {}
    /\ crashed = "no"

Running == crashed = "no"

-----------------------------------------------------------------------------
\* The kernel

\* What epoll reports of a socket: what was asked for, and a hang-up in any case.
Reported(fd, asked) == ready[fd] \cap (asked \cup {"HUP"})

\* epoll_ctl(ADD or MOD): the socket is looked at again.
EpollSet(fd, asked, data) ==
    /\ inEpoll' = inEpoll \cup {fd}
    /\ mask' = [mask EXCEPT ![fd] = asked]
    /\ ptr' = [ptr EXCEPT ![fd] = data]
    /\ edge' = IF Reported(fd, asked) # {} THEN edge \cup {fd} ELSE edge \ {fd}

\* epoll_ctl(DEL), and the close of the descriptor.
EpollDel(fd) ==
    /\ inEpoll' = inEpoll \ {fd}
    /\ mask' = [mask EXCEPT ![fd] = {}]
    /\ ptr' = [ptr EXCEPT ![fd] = fd]
    /\ edge' = edge \ {fd}

\* Data, buffer space or a hang-up arrives.
Arrives(fd, what) ==
    /\ Running /\ fd \in scope.fds /\ open[fd] # "closed" /\ what \notin ready[fd]
    /\ ready' = [ready EXCEPT ![fd] = @ \cup {what}]
    /\ edge' = IF fd \in inEpoll /\ what \in mask[fd] \cup {"HUP"} THEN edge \cup {fd} ELSE edge
    /\ UNCHANGED <<ctxVars, inEpoll, mask, ptr, waitVars, open, callVars, cancelling,
                   submitted, addFailed, dropped, scope, crashed>>

\* Some thread calls Notify.
PipeWritten ==
    /\ "Notify" \in scope.others /\ Running /\ Pipe \notin edge
    /\ edge' = edge \cup {Pipe}
    /\ UNCHANGED <<ctxVars, inEpoll, mask, ptr, ready, waitVars, open, callVars,
                   cancelling, submitted, addFailed, dropped, scope, crashed>>

-----------------------------------------------------------------------------
\* FdContext::triggerEvent for a set of events: each must be registered and have a
\* context, which is Submitted and reset.

\* Mutant: the context is not reset.
TriggeredStays(fd, evs) ==
    LET us == {fd} \X evs IN
    /\ events' = [events EXCEPT ![fd] = @ \ evs]
    /\ submitted' = [u \in Users |-> submitted[u] + (IF u \in us THEN 1 ELSE 0)]
    /\ UNCHANGED context

Triggered(fd, evs) ==
    LET us == {fd} \X evs IN
    /\ events' = [events EXCEPT ![fd] = @ \ evs]
    /\ context' = context \ us
    /\ submitted' = [u \in Users |-> submitted[u] + (IF u \in us THEN 1 ELSE 0)]

TriggerEvents(fd, evs) ==
    IF ~(evs \subseteq events[fd]) \/ ~({fd} \X evs \subseteq context)
    THEN /\ crashed' = "trigger"
         /\ UNCHANGED <<ctxVars, submitted>>
    ELSE /\ Triggered(fd, evs)
         /\ pendingEventCount_' = pendingEventCount_ - Cardinality(evs)
         /\ UNCHANGED crashed

\* delEvent, cancelEvent and cancelAllEvent pass EPOLL_CTL_MOD whatever is left, which
\* fails for a socket that is not in the epoll set.
CanModify(fd) == fd \in inEpoll

\* cancelEvent: data.fd is assigned after data.ptr, of which it overwrites a half.
CancelEvent(fd, ev) ==
    IF ev \in events[fd] /\ CanModify(fd)
    THEN /\ EpollSet(fd, events[fd] \ {ev}, Wild)
         /\ TriggerEvents(fd, {ev})
    ELSE UNCHANGED <<ctxVars, kernelVars, submitted, crashed>>

\* Mutant: the count is not decremented.
DeletedUncounted(fd, ev) ==
    /\ context' = context \ {<<fd, ev>>}
    /\ UNCHANGED pendingEventCount_

Deleted(fd, ev) ==
    /\ context' = context \ {<<fd, ev>>}
    /\ pendingEventCount_' = pendingEventCount_ - 1

\* delEvent: the context is reset and nobody is Submitted.
DelEvent(fd, ev) ==
    /\ "delEvent" \in scope.others /\ Running /\ ev \in events[fd] /\ CanModify(fd)
    /\ EpollSet(fd, events[fd] \ {ev}, fd)
    /\ events' = [events EXCEPT ![fd] = @ \ {ev}]
    /\ Deleted(fd, ev)
    /\ dropped' = dropped \cup ({<<fd, ev>>} \cap context)
    /\ UNCHANGED <<ready, waitVars, open, callVars, cancelling, submitted, addFailed,
                   scope, crashed>>

\* close: cancelAllEvent ...
Close(fd) ==
    /\ "close" \in scope.others /\ fd \in scope.fds /\ Running /\ open[fd] = "open"
    /\ open' = [open EXCEPT ![fd] = "closing"]
    /\ IF events[fd] # {} /\ CanModify(fd)
       THEN EpollSet(fd, {}, fd) /\ TriggerEvents(fd, events[fd])
       ELSE UNCHANGED <<ctxVars, kernelVars, submitted, crashed>>
    /\ UNCHANGED <<ready, waitVars, callVars, cancelling, addFailed, dropped, scope>>

\* ... then close_f, which takes the socket out of the epoll set.
CloseF(fd) ==
    /\ Running /\ open[fd] = "closing"
    /\ open' = [open EXCEPT ![fd] = "closed"]
    /\ EpollDel(fd)
    /\ UNCHANGED <<ctxVars, ready, waitVars, callVars, cancelling, submitted, addFailed,
                   dropped, scope, crashed>>

-----------------------------------------------------------------------------
\* do_io by the fiber u = <<fd, event>>

Goto(u, from, to) == pc[u] = from /\ pc' = [pc EXCEPT ![u] = to]

\* The call returns: timecondition dies, and callbacks that have not begun find it gone.
Returns(u) ==
    /\ pc' = [pc EXCEPT ![u] = "idle"]
    /\ fired' = [fired EXCEPT ![u] = 0]
    /\ timer' = [timer EXCEPT ![u] = FALSE]
    /\ timedOut' = [timedOut EXCEPT ![u] = FALSE]
    /\ connecting' = connecting \ {u}
    /\ UNCHANGED <<calls, used>>

\* A call enters do_io; Socket lets none through while its connect is under way.
Call(u) ==
    /\ Running /\ u[1] \in scope.fds /\ calls < scope.calls /\ open[u[1]] # "closed"
    /\ <<u[1], "WRITE">> \notin connecting
    /\ Goto(u, "idle", "try")
    /\ calls' = calls + 1
    /\ used' = used \cup {u[1]}
    /\ UNCHANGED <<ctxVars, kernelVars, ready, waitVars, open, timer, fired, timedOut,
                   connecting, cancelling, submitted, addFailed, dropped, scope, crashed>>

\* connect_with_timeout up to EINPROGRESS, the first call on a socket (Socket::connect
\* makes a new one every time): the timer, if the caller gave a timeout, and then the
\* event, as in do_io. A connect that ends at once changes nothing here.
Connect(u) ==
    /\ Running /\ "connect" \in scope.others
    /\ u[1] \in scope.fds /\ calls < scope.calls /\ open[u[1]] # "closed"
    /\ u[2] = "WRITE" /\ u[1] \notin used
    /\ ready[u[1]] \cap {"WRITE", "HUP"} = {}
    /\ Goto(u, "idle", "add")
    /\ calls' = calls + 1
    /\ connecting' = connecting \cup {u}
    /\ used' = used \cup {u[1]}
    /\ \E timed \in BOOLEAN : timer' = [timer EXCEPT ![u] = timed]
    /\ UNCHANGED <<ctxVars, kernelVars, ready, waitVars, open, fired, timedOut,
                   cancelling, submitted, addFailed, dropped, scope, crashed>>

\* The original function succeeds, and may use up what was there, or fails.
IoDone(u) ==
    /\ Running /\ pc[u] = "try"
    /\ \/ open[u[1]] = "closed" /\ UNCHANGED ready
       \/ /\ open[u[1]] # "closed" /\ ready[u[1]] \cap {u[2], "HUP"} # {}
          /\ \E left \in {{}, {u[2]}} :
                ready' = [ready EXCEPT ![u[1]] = (@ \ {u[2]}) \cup (left \cap @)]
    /\ Returns(u)
    /\ UNCHANGED <<ctxVars, kernelVars, waitVars, open, cancelling, submitted, addFailed,
                   dropped, scope, crashed>>

\* EAGAIN: the timer is added first ...
IoBlocks(u) ==
    /\ Running /\ open[u[1]] # "closed" /\ ready[u[1]] \cap {u[2], "HUP"} = {}
    /\ Goto(u, "try", "add")
    /\ timer' = [timer EXCEPT ![u] = u[2] \in scope.timed]
    /\ UNCHANGED <<ctxVars, kernelVars, ready, waitVars, open, calls, fired, timedOut,
                   connecting, used, cancelling, submitted, addFailed, dropped, scope, crashed>>

\* Mutant: the other fiber's event is forgotten.
NewEventOnly(u) == {u[2]}

NewEvents(u) == events[u[1]] \cup {u[2]}

\* addEvent can register the socket: ADD when events was empty, MOD otherwise.
Registers(u) ==
    open[u[1]] # "closed" /\ (events[u[1]] = {} <=> u[1] \notin inEpoll)

\* ... then the event, and the fiber suspends.
AddEvent(u) ==
    /\ Running /\ pc[u] = "add" /\ u[2] \notin events[u[1]] /\ Registers(u)
    /\ events' = [events EXCEPT ![u[1]] = @ \cup {u[2]}]
    /\ EpollSet(u[1], NewEvents(u), u[1])
    /\ context' = context \cup {u}
    /\ pendingEventCount_' = pendingEventCount_ + 1
    /\ Goto(u, "add", "hold")
    /\ UNCHANGED <<ready, waitVars, open, calls, timer, fired, timedOut, connecting,
                   used, cancelling, submitted, addFailed, dropped, scope, crashed>>

\* epoll_ctl fails: the event stays marked in the context and the call fails.
AddEventFails(u) ==
    /\ Running /\ pc[u] = "add" /\ u[2] \notin events[u[1]] /\ ~Registers(u)
    /\ events' = [events EXCEPT ![u[1]] = @ \cup {u[2]}]
    /\ addFailed' = TRUE
    /\ Returns(u)
    /\ UNCHANGED <<context, pendingEventCount_, kernelVars, ready, waitVars, open,
                   cancelling, submitted, dropped, scope, crashed>>

\* The assertion that the event is not registered yet.
AddEventAsserts(u) ==
    /\ Running /\ pc[u] = "add" /\ u[2] \in events[u[1]]
    /\ crashed' = "registered"
    /\ UNCHANGED <<ctxVars, kernelVars, ready, waitVars, open, callVars, cancelling,
                   submitted, addFailed, dropped, scope>>

\* The scheduler resumes the fiber, which cancels its timer and tries again, or returns
\* the timeout ...
Resumed(u) ==
    /\ Running /\ pc[u] = "hold" /\ submitted[u] > 0 /\ u \notin connecting
    /\ submitted' = [submitted EXCEPT ![u] = @ - 1]
    /\ IF timedOut[u] THEN Returns(u)
       ELSE /\ Goto(u, "hold", "try")
            /\ timer' = [timer EXCEPT ![u] = FALSE]
            /\ UNCHANGED <<calls, fired, timedOut, connecting, used>>
    /\ UNCHANGED <<ctxVars, kernelVars, ready, waitVars, open, cancelling, addFailed,
                   dropped, scope, crashed>>

\* ... and a connect returns in any case, the timeout or the error of the socket.
ConnectResumed(u) ==
    /\ Running /\ pc[u] = "hold" /\ submitted[u] > 0 /\ u \in connecting
    /\ submitted' = [submitted EXCEPT ![u] = @ - 1]
    /\ Returns(u)
    /\ UNCHANGED <<ctxVars, kernelVars, ready, waitVars, open, cancelling, addFailed,
                   dropped, scope, crashed>>

\* The timer expires: its callback becomes a task.
TimerExpires(u) ==
    /\ Running /\ timer[u] /\ fired[u] < scope.fired
    /\ timer' = [timer EXCEPT ![u] = FALSE]
    /\ fired' = [fired EXCEPT ![u] = @ + 1]
    /\ UNCHANGED <<ctxVars, kernelVars, ready, waitVars, open, pc, calls, timedOut,
                   connecting, used, cancelling, submitted, addFailed, dropped, scope, crashed>>

\* Mutant: the callback only takes note of the timeout.
TimerCallbackOnlyNotes(u) ==
    /\ Running /\ fired[u] > 0
    /\ fired' = [fired EXCEPT ![u] = @ - 1]
    /\ timedOut' = [timedOut EXCEPT ![u] = TRUE]
    /\ UNCHANGED <<ctxVars, kernelVars, ready, waitVars, open, pc, calls, timer,
                   connecting, used, cancelling, submitted, addFailed, dropped, scope, crashed>>

\* The callback, unless the call has timed out already, sets the condition ...
TimerCallback(u) ==
    /\ Running /\ fired[u] > 0
    /\ fired' = [fired EXCEPT ![u] = @ - 1]
    /\ timedOut' = [timedOut EXCEPT ![u] = TRUE]
    /\ cancelling' = IF timedOut[u] THEN cancelling ELSE cancelling \cup {u}
    /\ UNCHANGED <<ctxVars, kernelVars, ready, waitVars, open, pc, calls, timer,
                   connecting, used, submitted, addFailed, dropped, scope, crashed>>

\* ... and cancels the event, whoever waits for it by now.
TimerCancels(u) ==
    /\ Running /\ u \in cancelling
    /\ cancelling' = cancelling \ {u}
    /\ CancelEvent(u[1], u[2])
    /\ UNCHANGED <<ready, waitVars, open, callVars, addFailed, dropped, scope>>

-----------------------------------------------------------------------------
\* IOManager::Wait

\* epoll_wait reports every descriptor that has an edge, in any order.
EpollWait(p) ==
    /\ Running /\ batch[p] = <<>> /\ edge # {}
    /\ \E order \in SetToSeqs(edge) :
       LET Event(fd) == IF fd = Pipe THEN [fd |-> Pipe, evs |-> {}, ptr |-> Pipe]
                        ELSE [fd |-> fd, evs |-> Reported(fd, mask[fd]), ptr |-> ptr[fd]]
           reported == SelectSeq(order, LAMBDA fd : fd = Pipe \/ Reported(fd, mask[fd]) # {}) IN
       /\ batch' = [batch EXCEPT ![p] = [i \in 1 .. Len(reported) |-> Event(reported[i])]]
       /\ first' = [first EXCEPT ![p] =
                       IF reported = <<>> THEN Pipe ELSE Event(reported[1]).ptr]
    /\ edge' = {}
    /\ UNCHANGED <<misread, ctxVars, inEpoll, mask, ptr, ready, open, callVars, cancelling,
                   submitted, addFailed, dropped, scope, crashed>>

\* The loop goes on to the next event; first is meaningless after the last one.
NextEvent(p) ==
    /\ batch' = [batch EXCEPT ![p] = Tail(@)]
    /\ first' = IF Len(batch[p]) = 1 THEN [first EXCEPT ![p] = Pipe] ELSE first
    /\ misread' = misread \cup ({Head(batch[p]).fd} \ {Pipe, first[p]})

\* The pipe is drained.
DrainPipe(p) ==
    /\ Running /\ batch[p] # <<>> /\ Head(batch[p]).fd = Pipe
    /\ NextEvent(p)
    /\ UNCHANGED <<ctxVars, kernelVars, ready, open, callVars, cancelling,
                   submitted, addFailed, dropped, scope, crashed>>

\* Every other event is applied to the context of events[0].
WildContext(p) ==
    /\ Running /\ batch[p] # <<>> /\ Head(batch[p]).fd # Pipe /\ first[p] \notin Fds
    /\ crashed' = "wild"
    /\ UNCHANGED <<ctxVars, kernelVars, ready, waitVars, open, callVars, cancelling,
                   submitted, addFailed, dropped, scope>>

\* A hang-up counts as whatever is registered.
RealEvents(fd, evs) ==
    (evs \cap Events) \cup (IF "HUP" \in evs THEN events[fd] ELSE {})

\* What was reported is taken out of the epoll set and triggered, without a test that it
\* is still registered if something else is.
HandleEvent(p) ==
    /\ Running /\ batch[p] # <<>> /\ Head(batch[p]).fd # Pipe /\ first[p] \in Fds
    /\ LET e == Head(batch[p])
           fd == first[p]
           real == RealEvents(fd, e.evs)
           left == events[fd] \ real IN
       IF real \cap events[fd] = {} \/ fd \notin inEpoll
       THEN UNCHANGED <<ctxVars, kernelVars, submitted, crashed>>
       ELSE /\ IF left = {} THEN EpollDel(fd) ELSE EpollSet(fd, left, e.ptr)
            /\ TriggerEvents(fd, real)
    /\ NextEvent(p)
    /\ UNCHANGED <<ready, open, callVars, cancelling, addFailed, dropped, scope>>

-----------------------------------------------------------------------------
IoStep(u) ==
    \/ IoDone(u) \/ IoBlocks(u) \/ AddEvent(u) \/ AddEventFails(u)
    \/ AddEventAsserts(u) \/ Resumed(u) \/ ConnectResumed(u)

TimerStep(u) == TimerExpires(u) \/ TimerCallback(u) \/ TimerCancels(u)

WaitStep(p) == EpollWait(p) \/ DrainPipe(p) \/ WildContext(p) \/ HandleEvent(p)

Next ==
    \/ \E u \in Users : Call(u) \/ Connect(u) \/ IoStep(u) \/ TimerStep(u)
    \/ \E p \in Threads : WaitStep(p)
    \/ \E fd \in Fds : \/ \E what \in Events \cup (scope.others \cap {"HUP"}) : Arrives(fd, what)
                       \/ \E ev \in Events : DelEvent(fd, ev)
                       \/ Close(fd) \/ CloseF(fd)
    \/ PipeWritten

Spec == Init /\ [][Next]_vars

\* Fibers inside a call, timers and the threads in Wait go on; the peers and the clients
\* owe nothing.
FairSpec ==
    /\ Spec
    /\ \A u \in Users : WF_vars(IoStep(u)) /\ WF_vars(TimerStep(u))
    /\ \A p \in Threads : WF_vars(WaitStep(p))

-----------------------------------------------------------------------------
\* Properties

\* pendingEventCount_ is the number of waiters the contexts hold, through triggers,
\* cancels and deletes, until an addEvent fails (its event stays marked, and a later
\* delete counts it): Stopping() relies on it (io_manager.cc:90, 134, 170, 197-204,
\* 311-318, 336).
PendingExact == addFailed \/ pendingEventCount_ = Cardinality(context)

\* A suspended fiber is known in exactly one place, its context or the scheduler, and no
\* other fiber is in either: no waiter is lost or Submitted twice, whatever event,
\* timeout, close and stale timer callback race for it (hook.cc:108-147,
\* io_manager.cc:225-241).
WaiterKnownOnce ==
    \A u \in Users :
        Cardinality(context \cap {u}) + submitted[u] =
            IF pc[u] = "hold" /\ u \notin dropped THEN 1 ELSE 0

\* An event that arrives for a suspended fiber of an open socket wakes it, although
\* every report is consumed once (EPOLLET) and registrations change between the report
\* and its handling (io_manager.cc:262-319): a report is lost only by being applied to the
\* context of another descriptor, that of events[0] (io_manager.cc:282).
ReadyIsWoken ==
    \A u \in Users :
        (u \in context /\ u[2] \in ready[u[1]])
            ~> (u \notin context \/ u[2] \notin ready[u[1]]
                \/ u[1] \in misread \/ open[u[1]] # "open" \/ ~Running)

\* A call that is suspended with its timer still set does not stay so: the callback
\* cancels the event (hook.cc:116-125).  Except when the callback of an earlier round of
\* the same call has set the condition they share (hook.cc:95, 118): then the callback
\* of this round does nothing.
TimedWaitEnds ==
    \A u \in Users :
        (pc[u] = "hold" /\ timer[u] /\ ~timedOut[u] /\ u \notin dropped)
            ~> (pc[u] # "hold" \/ u \in dropped \/ open[u[1]] # "open" \/ ~Running)

\* An event is applied to the context of the socket that reported it: io_manager.h:9
\* says that epoll's events are dispatched to the scheduler.
EventReachesItsContext ==
    \A p \in Threads :
        batch[p] # <<>> /\ Head(batch[p]).fd # Pipe => first[p] = Head(batch[p]).ptr

\* A socket is in the epoll set only while one of its events is registered: on this
\* addEvent bases its choice of EPOLL_CTL_ADD or MOD (io_manager.cc:76), and
\* io_manager.h:30 says of cancelEvent that it deletes the event.
EpollSetMatchesEvents ==
    \A fd \in Fds : fd \in inEpoll => events[fd] # {}
=============================================================================
