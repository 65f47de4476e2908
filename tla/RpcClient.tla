------------------------------ MODULE RpcClient ------------------------------
(***************************************************************************)
(* One RPCClient and the RPCServer handler at the other end of its session *)
(* (rpc_client.h, rpc_client.cc, rpc_server.cc).                           *)
(*                                                                         *)
(* Fibers call() concurrently: each takes an id and registers a response   *)
(* channel in response_handle_ under mutex_, pushes its request on         *)
(* channel_ and waits.  handleSend drains channel_ into the session,       *)
(* handleRecv dispatches what arrives, a recurring timer sends heartbeats  *)
(* and close() may be entered by the user, by handleRecv and by the timer. *)
(* mutex_ keeps what CoLock promises and the channels what BoundedQueue    *)
(* promises.  A session is two first-in first-out streams of messages; a   *)
(* message carries its type, its id and, in the place of its content, the  *)
(* call it belongs to.                                                     *)
(***************************************************************************)
EXTENDS Naturals, Sequences, FiniteSets

CONSTANTS
    Callers,      \* the fibers that use the client
    MaxCalls,     \* calls each of them makes (bound)
    Timed,        \* which of these calls are made with a time limit (setTimeout)
    MaxPublish,   \* publications the server makes (bound)
    None

\* The fibers of the client are others than its callers.
ASSUME ClientAssumption ==
    /\ MaxCalls \in Nat \ {0} /\ MaxPublish \in Nat /\ Timed \subseteq 1 .. MaxCalls
    /\ IsFiniteSet(Callers) /\ Callers \cap {"user", "recv", "heart", "send", "sub"} = {}
    /\ None \notin Callers \cup {"user", "recv", "heart", "send", "sub"}

\* static uint64_t s_channel_capacity = 2
Capacity == 2

Calls == Callers \X (1 .. MaxCalls)
Ids == 0 .. Cardinality(Callers) * MaxCalls
Closers == {"user", "recv", "heart"}

\* What a call may return besides the answer to a call.
Closed == <<"closed", 0>>
TimedOut == <<"timeout", 0>>
Fibers == Callers \cup Closers \cup {"send", "sub"}

VARIABLES
    pc,          \* where each fiber is
    mutex,       \* the owner of mutex_
    seq,         \* sequence_id_
    table,       \* response_handle_: id -> the call whose channel is stored
    channel,     \* channel_; emptied and closed together with is_closed_
    closed,      \* is_closed_
    heart,       \* is_heartclose_
    timer,       \* heartbeat_timer_ is armed
    num,         \* calls made so far by each fiber
    id,          \* the id each fiber's current call took
    it,          \* the node its iterator points to, named by the call that made it
    box,         \* recv_channel of each call
    res,         \* what each call returned
    hand,        \* the answer handleRecv works on
    sock,        \* "up", "eof" once the peer closed, "closed" after session_->close()
    toServer, toClient,
    server,      \* handleClient: "serving", "left" the loop, or "hung"
    subs,        \* subscribes_ holds this session
    published

client == <<mutex, seq, table, closed, heart, timer>>
callVars == <<num, id, it, box, res>>
net == <<sock, toServer, toClient>>
srv == <<server, subs, published>>
vars == <<pc, client, channel, callVars, hand, net, srv>>

Request(ty, i, c) == [type |-> ty, id |-> i, call |-> c]
Messages == [type : {"method", "heartbeat", "subscribe", "publish", "ack"}, id : Ids,
             call : Calls \cup {None}]
HeartBeat == Request("heartbeat", 0, None)

goto(f, l) == pc' = [pc EXCEPT ![f] = l]
current(c) == <<c, num[c]>>

\* connect(): a fresh channel, the flags reset, both fibers and the timer started.
Init ==
    /\ pc = [f \in Fibers |-> CASE f = "recv" -> "read" [] f = "send" -> "loop"
                            [] f = "user" -> "close" [] OTHER -> "idle"]
    /\ mutex = None /\ seq = 0 /\ table = [i \in Ids |-> None]
    /\ channel = <<>> /\ closed = FALSE /\ heart = FALSE /\ timer = TRUE
    /\ num = [c \in Callers |-> 0] /\ id = [c \in Callers |-> 0] /\ it = [c \in Callers |-> None]
    /\ box = [k \in Calls |-> <<>>] /\ res = [k \in Calls |-> None]
    /\ hand = None
    /\ sock = "up" /\ toServer = <<>> /\ toClient = <<>>
    /\ server = "serving" /\ subs = FALSE /\ published = 0

-----------------------------------------------------------------------------
\* Mutant: the channel takes a message after it was closed.
PushLate(f, m, next) ==
    /\ closed \/ Len(channel) < Capacity
    /\ channel' = Append(channel, m)
    /\ goto(f, next)

\* channel_ << m : refused once the channel is closed, blocked while it is full.
Push(f, m, next) ==
    /\ closed \/ Len(channel) < Capacity
    /\ channel' = IF closed THEN channel ELSE Append(channel, m)
    /\ goto(f, next)

\* call(): the connection is tested before mutex_ is taken.
Call(c) ==
    /\ pc[c] = "idle" /\ num[c] < MaxCalls
    /\ num' = [num EXCEPT ![c] = @ + 1]
    /\ IF sock = "closed"
         THEN res' = [res EXCEPT ![<<c, num[c] + 1>>] = Closed] /\ UNCHANGED pc
         ELSE goto(c, "register") /\ UNCHANGED res
    /\ UNCHANGED <<client, channel, id, it, box, hand, net, srv>>

\* id = sequence_id_; emplace keeps the node that is already there.
Register(c) ==
    /\ pc[c] = "register" /\ mutex = None
    /\ mutex' = c
    /\ id' = [id EXCEPT ![c] = seq]
    /\ table' = IF table[seq] = None THEN [table EXCEPT ![seq] = current(c)] ELSE table
    /\ it' = [it EXCEPT ![c] = table'[seq]]
    /\ goto(c, "bump")
    /\ UNCHANGED <<seq, channel, closed, heart, timer, num, box, res, hand, net, srv>>

\* sequence_id_++ races with the assignment of handleMethodResponse: it adds
\* one to the value it finds, or overwrites what was stored after it read.
Bump(c) ==
    /\ pc[c] = "bump"
    /\ seq' \in {seq + 1, id[c] + 1}
    /\ mutex' = None /\ goto(c, "push")
    /\ UNCHANGED <<table, channel, closed, heart, timer, callVars, hand, net, srv>>

PushRequest(c) ==
    /\ pc[c] = "push"
    /\ Push(c, Request("method", id[c], current(c)), "wait")
    /\ UNCHANGED <<client, callVars, hand, net, srv>>

\* recv_channel.waitFor returns what was pushed (Closed for nullptr) ...
Receive(c) ==
    /\ pc[c] = "wait" /\ box[current(c)] # <<>>
    /\ res' = [res EXCEPT ![current(c)] = Head(box[current(c)])]
    /\ box' = [box EXCEPT ![current(c)] = Tail(@)]
    /\ goto(c, "erase")
    /\ UNCHANGED <<client, channel, num, id, it, hand, net, srv>>

\* ... or gives up after timeout_ms_.
Timeout(c) ==
    /\ num[c] \in Timed /\ pc[c] = "wait"
    /\ res' = [res EXCEPT ![current(c)] = TimedOut]
    /\ goto(c, "erase")
    /\ UNCHANGED <<client, channel, num, id, it, box, hand, net, srv>>

\* Mutant: the entry is only erased after a time-out.
EraseLate(c) ==
    /\ pc[c] = "erase" /\ mutex = None
    /\ table' = IF res[current(c)] = TimedOut THEN [table EXCEPT ![id[c]] = None] ELSE table
    /\ id' = [id EXCEPT ![c] = 0] /\ it' = [it EXCEPT ![c] = None] /\ goto(c, "idle")
    /\ UNCHANGED <<mutex, seq, channel, closed, heart, timer, num, box, res, hand, net, srv>>

\* response_handle_.erase(it): through an iterator whose node is already
\* freed, any part of the table may be lost.
Erase(c) ==
    /\ pc[c] = "erase" /\ mutex = None
    /\ IF closed THEN UNCHANGED table
       ELSE IF table[id[c]] = it[c] THEN table' = [table EXCEPT ![id[c]] = None]
       ELSE \E lost \in SUBSET Ids : table' = [i \in Ids |-> IF i \in lost THEN None ELSE table[i]]
    /\ id' = [id EXCEPT ![c] = 0] /\ it' = [it EXCEPT ![c] = None] /\ goto(c, "idle")
    /\ UNCHANGED <<mutex, seq, channel, closed, heart, timer, num, box, res, hand, net, srv>>

-----------------------------------------------------------------------------
\* subscribe(): the callback is stored in subscribe_map_ under mutex_, then the
\* request is pushed: every publication finds its callback.
Subscribe ==
    /\ pc["sub"] = "idle" /\ mutex = None
    /\ Push("sub", Request("subscribe", 0, None), "done")
    /\ UNCHANGED <<client, callVars, hand, net, srv>>

\* handleSend: one turn of its loop.  channel_ >> request fails once the channel
\* is closed.  What sendResponse writes after the peer has gone is lost in the
\* kernel, or fails, and then writeFixSize repeats it for ever.
HandleSend ==
    /\ pc["send"] = "loop"
    /\ IF closed THEN goto("send", "done") /\ UNCHANGED <<channel, toServer>>
       ELSE /\ channel # <<>> /\ channel' = Tail(channel)
            /\ toServer' = IF sock = "up" /\ server = "serving"
                             THEN Append(toServer, Head(channel)) ELSE toServer
            /\ UNCHANGED pc \/ (sock # "up" /\ goto("send", "spin"))
    /\ UNCHANGED <<client, callVars, hand, sock, toClient, srv>>

-----------------------------------------------------------------------------
\* handleRecv: the whole dispatch up to the next lock or push.  An answer
\* stores its id in sequence_id_ without mutex_.
Recv ==
    /\ pc["recv"] = "read" /\ sock # "closed" /\ toClient # <<>>
    /\ LET m == Head(toClient) IN
         /\ hand' = IF m.type = "method" THEN m ELSE None
         /\ seq' = IF m.type = "method" THEN m.id ELSE seq
         /\ goto("recv", CASE m.type = "method" -> "deliver"
                           [] m.type = "publish" -> "publish"
                           [] OTHER -> "read")
    /\ toClient' = Tail(toClient) /\ heart' = FALSE
    /\ UNCHANGED <<mutex, table, channel, closed, timer, callVars, sock, toServer, srv>>

\* recvRequest returns nullptr at the end of the stream: close().
RecvEof ==
    /\ pc["recv"] = "read" /\ sock = "eof" /\ toClient = <<>>
    /\ goto("recv", "close")
    /\ UNCHANGED <<client, channel, callVars, hand, net, srv>>

\* handleMethodResponse: sequence_id_ is read again under mutex_.  The push into
\* the channel that is found keeps mutex_: a full one stops the whole client.
Deliver ==
    /\ pc["recv"] = "deliver" /\ mutex = None
    /\ LET found == table[seq] IN
         \/ /\ found # None => box[found] = <<>>
            /\ box' = IF found = None THEN box ELSE [box EXCEPT ![found] = <<hand.call>>]
            /\ hand' = None /\ goto("recv", "read") /\ UNCHANGED mutex
         \/ /\ found # None /\ box[found] # <<>>
            /\ mutex' = "recv" /\ goto("recv", "stuck") /\ UNCHANGED <<box, hand>>
    /\ UNCHANGED <<seq, table, channel, closed, heart, timer, num, id, it, res, net, srv>>

\* ... until the caller takes what is in it.
DeliverResumes ==
    /\ pc["recv"] = "stuck" /\ box[table[seq]] = <<>>
    /\ box' = [box EXCEPT ![table[seq]] = <<hand.call>>]
    /\ hand' = None /\ mutex' = None /\ goto("recv", "read")
    /\ UNCHANGED <<seq, table, channel, closed, heart, timer, num, id, it, res, net, srv>>

\* handlePublish runs the callback under mutex_; then the publication is acknowledged.
HandlePublish ==
    /\ pc["recv"] = "publish" /\ mutex = None
    /\ goto("recv", "ack")
    /\ UNCHANGED <<client, channel, callVars, hand, net, srv>>

PushAck ==
    /\ pc["recv"] = "ack"
    /\ Push("recv", Request("ack", 0, None), "read")
    /\ UNCHANGED <<client, callVars, hand, net, srv>>

-----------------------------------------------------------------------------
\* Bound: the timer's period is longer than a round trip, so that at most one
\* heartbeat is under way.
BeatUnderWay == \E q \in {channel, toServer, toClient} : \E i \in DOMAIN q : q[i].type = "heartbeat"

\* Mutant: the flag is not set after the heartbeat.
BeatForgets ==
    /\ pc["heart"] = "idle" /\ timer /\ ~heart /\ ~BeatUnderWay
    /\ Push("heart", HeartBeat, "idle")
    /\ UNCHANGED <<client, callVars, hand, net, srv>>

\* The task of the timer sends a heartbeat (it waits while channel_ is full) ...
Beat ==
    /\ pc["heart"] = "idle" /\ timer /\ ~heart /\ ~BeatUnderWay
    /\ Push("heart", HeartBeat, "idle")
    /\ heart' = TRUE
    /\ UNCHANGED <<mutex, seq, table, closed, timer, callVars, hand, net, srv>>

\* ... and closes the client when nothing was received since the last one.
BeatMissed ==
    /\ pc["heart"] = "idle" /\ timer /\ heart
    /\ goto("heart", "close")
    /\ UNCHANGED <<client, channel, callVars, hand, net, srv>>

\* Where a closer goes on: handleRecv loops on a closed session and receives
\* nothing again, the heartbeat of the timer task is refused by channel_.
AfterClose(f) == IF f = "recv" THEN "spin" ELSE "done"

\* close(): returns when already closed, else sets the flags and closes channel_ ...
CloseBegin(f) ==
    /\ pc[f] = "close" /\ mutex = None
    /\ IF closed THEN goto(f, AfterClose(f)) /\ UNCHANGED <<mutex, closed, heart, channel>>
       ELSE /\ mutex' = f /\ closed' = TRUE /\ heart' = TRUE /\ channel' = <<>>
            /\ goto(f, "wake")
    /\ UNCHANGED <<seq, table, timer, callVars, hand, net, srv>>

\* Mutant: the waiting calls are dropped, not woken.
CloseDrops(f) ==
    /\ pc[f] = "wake"
    /\ table' = [i \in Ids |-> None] /\ table # table'
    /\ UNCHANGED <<pc, mutex, seq, closed, heart, timer, channel, callVars, hand, net,
                   srv>>

\* ... pushes nullptr into every registered channel, in the order of the ids ...
CloseWake(f) ==
    /\ pc[f] = "wake"
    /\ \E i \in Ids :
         /\ table[i] # None /\ \A j \in Ids : table[j] # None => i <= j
         /\ box[table[i]] = <<>>
         /\ box' = [box EXCEPT ![table[i]] = <<Closed>>]
         /\ table' = [table EXCEPT ![i] = None]
    /\ UNCHANGED <<pc, mutex, seq, closed, heart, timer, channel, num, id, it, res,
                   hand, net, srv>>

\* Mutant: the calls are waited for with mutex_ held.
CloseWaits(f) ==
    /\ pc[f] = "wake" /\ \A i \in Ids : table[i] = None
    /\ \A c \in Callers : pc[c] = "idle"
    /\ timer' = FALSE /\ sock' = "closed" /\ toServer' = <<>> /\ toClient' = <<>>
    /\ mutex' = None /\ goto(f, AfterClose(f))
    /\ UNCHANGED <<seq, table, closed, heart, channel, callVars, hand, srv>>

\* ... and clears the table, cancels the timer, removes the read event and
\* closes the session: a handleRecv that waits for data is not woken again.
CloseEnd(f) ==
    /\ pc[f] = "wake" /\ \A i \in Ids : table[i] = None
    /\ timer' = FALSE /\ sock' = "closed" /\ toServer' = <<>> /\ toClient' = <<>>
    /\ mutex' = None /\ goto(f, AfterClose(f))
    /\ UNCHANGED <<seq, table, closed, heart, channel, callVars, hand, srv>>

-----------------------------------------------------------------------------
\* RPCServer::handleClient: one request, its answer with the id of the request.
\* The answer of a subscriber to a publication ends the loop.
Serve ==
    /\ server = "serving" /\ toServer # <<>>
    /\ LET m == Head(toServer) IN
         /\ server' = IF m.type = "ack" THEN "left" ELSE "serving"
         /\ subs' = (m.type # "ack" /\ (subs \/ m.type = "subscribe"))
         /\ toClient' = IF m.type = "ack" THEN toClient ELSE Append(toClient, m)
    /\ toServer' = Tail(toServer)
    /\ UNCHANGED <<pc, client, channel, callVars, hand, sock, published>>

\* publish(): sent to the sessions that subscribed and are still connected.
Publish ==
    /\ subs /\ sock = "up" /\ server = "serving" /\ published < MaxPublish
    /\ published' = published + 1
    /\ toClient' = Append(toClient, Request("publish", 0, None))
    /\ UNCHANGED <<pc, client, channel, callVars, hand, sock, toServer, server, subs>>

\* update(): nothing resets the timer of a loop that was left, it closes the socket.
AliveExpires ==
    /\ server = "left" /\ sock = "up"
    /\ sock' = "eof" /\ toServer' = <<>>
    /\ UNCHANGED <<pc, client, channel, callVars, hand, toClient, srv>>

\* The environment: the server process ends (its socket is closed), or falls silent.
ServerEnds ==
    /\ server = "serving" /\ sock = "up"
    /\ server' = "left" /\ sock' = "eof" /\ toServer' = <<>> /\ subs' = FALSE
    /\ UNCHANGED <<pc, client, channel, callVars, hand, toClient, published>>

ServerHangs ==
    /\ server = "serving" /\ server' = "hung" /\ subs' = FALSE /\ toServer' = <<>>
    /\ UNCHANGED <<pc, client, channel, callVars, hand, sock, toClient, published>>

-----------------------------------------------------------------------------
CallStep(c) == Register(c) \/ Bump(c) \/ PushRequest(c) \/ Receive(c) \/ Erase(c)
RecvStep == Recv \/ RecvEof \/ Deliver \/ DeliverResumes \/ HandlePublish \/ PushAck
CloseStep(f) == CloseBegin(f) \/ CloseWake(f) \/ CloseEnd(f)

Next ==
    \/ \E c \in Callers : Call(c) \/ Timeout(c) \/ CallStep(c)
    \/ Subscribe \/ HandleSend \/ RecvStep
    \/ Beat \/ BeatMissed
    \/ \E f \in Closers : CloseStep(f)
    \/ Serve \/ Publish \/ AliveExpires \/ ServerEnds \/ ServerHangs

Spec == Init /\ [][Next]_vars

\* The scheduler runs every ready fiber, the timers fire, a live server serves.
\* Calling, timing out, publishing, closing and failing are left free.  A fiber that
\* waits for mutex_ gets it once it is free: runs in which CoMutex::lock loses the
\* wake-up (module CoMutex, on several threads) are left out.
Fairness ==
    /\ \A c \in Callers : WF_vars(CallStep(c))
    /\ WF_vars(HandleSend) /\ WF_vars(RecvStep)
    /\ WF_vars(Beat) /\ WF_vars(BeatMissed)
    /\ \A f \in {"recv", "heart"} : WF_vars(CloseStep(f))
    /\ WF_vars(CloseWake("user")) /\ WF_vars(CloseEnd("user"))
    /\ WF_vars(Serve) /\ WF_vars(AliveExpires)

FairSpec == Spec /\ Fairness

-----------------------------------------------------------------------------
(* Types; no channel holds more than its capacity, a response channel at most
   one answer, and a closed client has no message left to send
   (rpc_client.cc:5,62-79, rpc_client.h:110).                                *)
TypeOK ==
    /\ mutex \in Callers \cup Closers \cup {None}
    /\ seq \in Ids /\ table \in [Ids -> Calls \cup {None}]
    /\ channel \in Seq(Messages) /\ Len(channel) <= Capacity /\ (closed => channel = <<>>)
    /\ {closed, heart, timer, subs} \subseteq BOOLEAN
    /\ id \in [Callers -> Ids] /\ it \in [Callers -> Calls \cup {None}]
    /\ \A k \in Calls : Len(box[k]) <= 1
    /\ res \in [Calls -> Calls \cup {Closed, TimedOut, None}]
    /\ sock \in {"up", "eof", "closed"} /\ server \in {"serving", "left", "hung"}
    /\ toServer \in Seq(Messages) /\ toClient \in Seq(Messages)

(* A call returns the answer to its own request: the id it took, the table and
   the lookup of handleMethodResponse never hand it the answer to another call
   (rpc_client.h:110-114 and the comment of response_handle_, 174-175).  The
   run RpcClientIds shows that the code does not keep this: two calls in
   flight are enough.                                                        *)
OwnAnswer == \A k \in Calls : res[k] \in {k, Closed, TimedOut, None}

(* As long as calls do not overlap, an open client keeps exactly the channel of
   the call in progress, under the id that call took: nothing stays behind
   after an answer, a time-out or a late answer, and the iterator used by the
   erase is good (rpc_client.h:110-130, rpc_client.cc:147-158).              *)
TableExact ==
    (~closed /\ Cardinality(Callers) = 1) =>
        \A c \in Callers : \A i \in Ids :
            table[i] = IF pc[c] \in {"bump", "push", "wait", "erase"} /\ i = id[c]
                         THEN current(c) ELSE None

NoTimeout == \A k \in Calls : res[k] # TimedOut

(* A call that waits on an open client ends, whatever the server does: it is
   answered, or the connection is found dead and close() wakes it
   (rpc_client.h:122, rpc_client.cc:52-55,74-76,112-115).  Two cases are
   excluded: a call that timed out, which can block everyone, and a handleSend
   that repeats a failing write for ever while handleRecv waits for room in
   channel_ to acknowledge a publication.                                    *)
CallEnds ==
    \A c \in Callers : (pc[c] = "wait" /\ ~closed) ~>
        (pc[c] # "wait" \/ ~NoTimeout \/ (pc["send"] = "spin" /\ pc["recv"] = "ack"))

(* close(), once it has set is_closed_, is not blocked for ever with mutex_ in
   its hands by the channels it pushes into: the session gets closed
   (rpc_client.cc:74-84).                                                    *)
CloseEnds == closed ~> (sock = "closed" \/ ~NoTimeout)

(* A server that falls silent without closing the connection is found out by
   the heartbeats: the client closes (rpc_client.cc:50-59).                  *)
SilenceDetected == server = "hung" ~> (closed \/ ~NoTimeout)
=============================================================================
