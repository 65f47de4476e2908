--------------------------- MODULE ConnectionPool ---------------------------
(***************************************************************************)
(* RPCConnectionPool of a consumer, connected to the registry of module    *)
(* Registry (rpc_connection_pool.h, rpc_connection_pool.cc).               *)
(*                                                                         *)
(* call() looks for a cached connection, else for a cached address, else   *)
(* asks the registry, all under connect_mutex_; publications change the    *)
(* cached addresses, also under connect_mutex_, from the fiber that        *)
(* receives everything the registry sends.  ScopedLock unlocks its mutex   *)
(* when it is destroyed even if it was unlocked before, so a call that     *)
(* used a connection gives connect_mutex_ free once more when it returns.  *)
(* An RPCClient is abstracted to the server it is connected to: its calls  *)
(* are answered while that server is up and return RPC_CLOSED after that,  *)
(* or never return, as module RpcClient shows of a call that meets a       *)
(* close() or a time-out.                                                  *)
(* RPCState is no type Serializer writes or reads (serializer.h:89-154,    *)
(* rpc.h:8,84-97), so the code of a Result that was received is an         *)
(* uninitialized value: any.                                               *)
(***************************************************************************)
EXTENDS Registry

CONSTANTS
    Callers, MaxCalls,  \* fibers that use the pool, calls of each (bound)
    Called              \* the services they call (bound)

\* The fibers of the pool are others than its callers.
ASSUME PoolAssumption ==
    /\ Callers \cap {"send", "recv", "user", None} = {} /\ None \notin {"send", "recv", "user"}
    /\ MaxCalls \in Nat /\ Called \subseteq Services

\* s_channel_capacity
Capacity == 1

VARIABLES
    pc,           \* of the callers, "send" (handleSend), "recv" (handleRecv), "user" (close)
    name,         \* the service each caller calls
    used,         \* the server behind the connection it found or made
    calls,        \* calls left
    connMutex,    \* the owner of connect_mutex_
    subMutex,     \* the owner of subscribe_handle_mutex_
    conns,        \* service_map_: the server each service is connected to
    addrs,        \* address_map_
    methodMap,    \* method_map_: the caller that waits for a service's addresses
    box,          \* its recv_chan
    handles,      \* the keys of subscribe_handle_
    channel,      \* channel_, to handleSend
    closed,       \* is_closed_
    msg           \* what handleRecv works on

poolVars == <<pc, name, used, calls, connMutex, subMutex, conns, addrs, methodMap, box, handles,
              channel, closed, msg>>
vars == <<regVars, poolVars>>

Init ==
    /\ RegistryInit
    /\ pc = [f \in Callers \cup {"send", "recv", "user"} |-> "idle"]
    /\ name = [c \in Callers |-> None] /\ used = [c \in Callers |-> None]
    /\ calls = [c \in Callers |-> MaxCalls]
    /\ connMutex = None /\ subMutex = None
    /\ conns = [s \in Services |-> None] /\ addrs = [s \in Services |-> <<>>]
    /\ methodMap = [s \in Services |-> None] /\ box = [c \in Callers |-> <<>>]
    /\ handles = {} /\ channel = <<>> /\ closed = FALSE /\ msg = None

isUp(a) == \E k \in Conns : k[1] = a /\ prov[k] = "up"
goto(f, l) == pc' = [pc EXCEPT ![f] = l]

\* Mutant: a full channel_ takes one more.
pushOver(m) == IF closed THEN UNCHANGED channel
               ELSE Len(channel) <= Capacity /\ channel' = Append(channel, m)

\* channel_ << m : refused once the channel is closed, blocked while it is full.
push(m) == IF closed THEN UNCHANGED channel
           ELSE Len(channel) < Capacity /\ channel' = Append(channel, m)

\* The end of call(): the destructor of its lock, whoever holds connect_mutex_.
return(c) == connMutex' = None /\ goto(c, "idle")

-----------------------------------------------------------------------------
Call(c) ==
    /\ pc[c] = "idle" /\ calls[c] > 0
    /\ \E s \in Called : name' = [name EXCEPT ![c] = s]
    /\ calls' = [calls EXCEPT ![c] = @ - 1] /\ goto(c, "enter")
    /\ UNCHANGED <<regVars, used, connMutex, subMutex, conns, addrs, methodMap, box, handles,
                   channel, closed, msg>>

\* A cached connection is used without the lock.
Enter(c) ==
    /\ pc[c] = "enter" /\ connMutex = None
    /\ used' = [used EXCEPT ![c] = conns[name[c]]]
    /\ IF conns[name[c]] # None
         THEN goto(c, "invoke") /\ UNCHANGED connMutex
         ELSE goto(c, "look") /\ connMutex' = c
    /\ UNCHANGED <<regVars, name, calls, subMutex, conns, addrs, methodMap, box, handles, channel,
                   closed, msg>>

\* The call on the cached connection.  RPC_CLOSED, that is a dead connection or
\* what happens to be in the code of an answer: take the lock again.  RPCClient::call
\* may also never return.
Invoke(c) ==
    /\ pc[c] = "invoke"
    /\ \/ isUp(used[c]) /\ return(c)
       \/ (\E l \in {"remove", "hung"} : goto(c, l)) /\ UNCHANGED connMutex
    /\ UNCHANGED <<regVars, name, used, calls, subMutex, conns, addrs, methodMap, box, handles,
                   channel, closed, msg>>

\* The connection and its address are removed.  An iterator that another caller
\* erased meanwhile may name any address.
RemoveDead(c) ==
    /\ pc[c] = "remove" /\ connMutex = None
    /\ connMutex' = c
    /\ \E a \in IF conns[name[c]] = used[c] THEN {used[c]} ELSE Addrs :
         addrs' = [addrs EXCEPT ![name[c]] =
                     IF Contains(@, a) THEN RemoveAt(@, CHOOSE i \in DOMAIN @ :
                         @[i] = a /\ \A j \in 1 .. i - 1 : @[j] # a) ELSE @]
    /\ conns' = [conns EXCEPT ![name[c]] = None]
    /\ goto(c, "look")
    /\ UNCHANGED <<regVars, name, used, calls, subMutex, methodMap, box, handles, channel, closed, msg>>

\* No connection: a cached address, or the registry, or "registry closed".
Look(c) ==
    /\ pc[c] = "look"
    /\ IF addrs[name[c]] # <<>> THEN goto(c, "connect") /\ UNCHANGED <<connMutex, methodMap>>
       ELSE IF closed THEN return(c) /\ UNCHANGED methodMap
       ELSE /\ methodMap' = IF methodMap[name[c]] = None
                              THEN [methodMap EXCEPT ![name[c]] = c] ELSE methodMap
            /\ goto(c, "ask") /\ UNCHANGED connMutex
    /\ UNCHANGED <<regVars, name, used, calls, subMutex, conns, addrs, box, handles, channel,
                   closed, msg>>

\* Mutant: a request that does not fit into channel_ is dropped.
AskDrops(c) ==
    /\ pc[c] = "ask" /\ goto(c, "await")
    /\ channel' = IF Len(channel) < Capacity THEN Append(channel, Discover(name[c])) ELSE channel
    /\ UNCHANGED <<regVars, name, used, calls, connMutex, subMutex, conns, addrs, methodMap, box,
                   handles, closed, msg>>

\* discover(): the request ...
Ask(c) ==
    /\ pc[c] = "ask" /\ push(Discover(name[c])) /\ goto(c, "await")
    /\ UNCHANGED <<regVars, name, used, calls, connMutex, subMutex, conns, addrs, methodMap, box,
                   handles, closed, msg>>

\* ... and its answer.  Whether it says that there is no server is in the code of
\* a Result, which is not transmitted, so either way may be taken; the address that
\* is read from an answer without one is nobody's.
answers(list) == {<<>>, IF list = <<>> THEN <<None>> ELSE list}

\* No server ends the call, else the changes are subscribed to once.
Discovered(c) ==
    /\ pc[c] = "await" /\ box[c] # <<>>
    /\ box' = [box EXCEPT ![c] = <<>>]
    /\ methodMap' = [methodMap EXCEPT ![name[c]] = None]
    /\ \E found \in answers(box[c][1]) :
         /\ addrs' = [addrs EXCEPT ![name[c]] = found]
         /\ IF found = <<>> THEN return(c)
            ELSE /\ goto(c, IF name[c] \in handles THEN "connect" ELSE "subscribe")
                 /\ UNCHANGED connMutex
    /\ UNCHANGED <<regVars, name, used, calls, subMutex, conns, handles, channel, closed, msg>>

\* subscribe(): the push happens with subscribe_handle_mutex_ held.
SubscribeKey(c) ==
    /\ pc[c] = "subscribe" /\ subMutex = None
    /\ handles' = handles \cup {name[c]}
    /\ subMutex' = c /\ goto(c, "subpush")
    /\ UNCHANGED <<regVars, name, used, calls, connMutex, conns, addrs, methodMap, box, channel,
                   closed, msg>>

SubscribePush(c) ==
    /\ pc[c] = "subpush" /\ push(Subscribe(name[c]))
    /\ subMutex' = None /\ goto(c, "connect")
    /\ UNCHANGED <<regVars, name, used, calls, connMutex, conns, addrs, methodMap, box, handles,
                   closed, msg>>

\* RandomRouteStrategyImpl::select: any element of the list.
selected(list) == ToSet(list)

\* A random address: the new connection is stored and used, or the call fails
\* and leaves the address where it is.  The list is empty by now if another call
\* returned meanwhile, which freed connect_mutex_ for a publication: the call fails.
Connect(c) ==
    /\ pc[c] = "connect"
    /\ \E a \in IF addrs[name[c]] = <<>> THEN {None} ELSE selected(addrs[name[c]]) :
         IF isUp(a)
           THEN /\ conns' = [conns EXCEPT ![name[c]] = IF @ = None THEN a ELSE @]
                /\ connMutex' = None /\ goto(c, "first")
           ELSE return(c) /\ UNCHANGED conns
    /\ UNCHANGED <<regVars, name, used, calls, subMutex, addrs, methodMap, box, handles, channel,
                   closed, msg>>

\* The result of the first call on a new connection is returned, whatever it is,
\* if RPCClient::call returns.
FirstCall(c) ==
    /\ pc[c] = "first"
    /\ return(c) \/ (goto(c, "hung") /\ UNCHANGED connMutex)
    /\ UNCHANGED <<regVars, name, used, calls, subMutex, conns, addrs, methodMap, box, handles,
                   channel, closed, msg>>

-----------------------------------------------------------------------------
\* handleSend.  After the registry has gone a message is lost in the kernel, or its
\* write fails, and then writeFixSize repeats it for ever.
HandleSend ==
    /\ pc["send"] = "idle" /\ ~closed /\ channel # <<>>
    /\ channel' = Tail(channel)
    /\ toReg' = IF link = "up" THEN Append(toReg, Head(channel)) ELSE toReg
    /\ UNCHANGED pc \/ (link # "up" /\ goto("send", "spin"))
    /\ UNCHANGED <<prov, todo, rpc, arg, mutex, service, iters, subscribe, toPool, link, name,
                   used, calls, connMutex, subMutex, conns, addrs, methodMap, box, handles, closed, msg>>

\* A list goes into the channel of the caller that waits for the service, if any.
handleServiceDiscoverResponse(m) ==
    box' = IF methodMap[m.name] = None THEN box ELSE [box EXCEPT ![methodMap[m.name]] = <<m.addrs>>]

\* handleRecv: a list goes to the caller that waits for the service, a
\* publication to handlePublish, the end of the stream to close().
HandleRecv ==
    /\ pc["recv"] = "idle" /\ ~closed
    /\ IF toPool # <<>>
         THEN LET m == Head(toPool) IN
              /\ toPool' = Tail(toPool)
              /\ msg' = IF m.type = "publish" THEN m ELSE None
              /\ goto("recv", IF m.type = "publish" THEN "publish" ELSE "idle")
              /\ IF m.type = "list" THEN handleServiceDiscoverResponse(m) ELSE UNCHANGED box
         ELSE link = "gone" /\ goto("recv", "close") /\ UNCHANGED <<toPool, msg, box>>
    /\ UNCHANGED <<prov, todo, rpc, arg, mutex, service, iters, subscribe, toReg, link, name, used,
                   calls, connMutex, subMutex, conns, addrs, methodMap, handles, channel, closed>>

\* handlePublish: the callback runs under subscribe_handle_mutex_.
HandlePublish ==
    /\ pc["recv"] = "publish" /\ subMutex = None
    /\ subMutex' = "recv" /\ goto("recv", "callback")
    /\ UNCHANGED <<regVars, name, used, calls, connMutex, conns, addrs, methodMap, box, handles,
                   channel, closed, msg>>

\* The callback of discover(): an address that goes off line is appended, one
\* that comes on line is removed.
OnPublication ==
    /\ pc["recv"] = "callback" /\ connMutex = None
    /\ LET s == msg.name a == msg.addr IN
       addrs' = [addrs EXCEPT ![s] =
                   IF ~msg.online THEN Append(@, a)
                   ELSE IF Contains(@, a) THEN RemoveAt(@, CHOOSE i \in DOMAIN @ :
                       @[i] = a /\ \A j \in 1 .. i - 1 : @[j] # a)
                   ELSE @]
    /\ subMutex' = None /\ goto("recv", "ack")
    /\ UNCHANGED <<regVars, name, used, calls, connMutex, conns, methodMap, box, handles, channel,
                   closed, msg>>

PublishAck ==
    /\ pc["recv"] = "ack" /\ push(Ack)
    /\ msg' = None /\ goto("recv", "idle")
    /\ UNCHANGED <<regVars, name, used, calls, connMutex, subMutex, conns, addrs, methodMap, box,
                   handles, closed>>

\* The registry goes away, or its alive timer closes the consumer's session.
RegistryEnds ==
    /\ link = "up" /\ link' = "gone" /\ toReg' = <<>>
    /\ UNCHANGED <<prov, todo, rpc, arg, mutex, service, iters, subscribe, toPool, poolVars>>

\* close(), by handleRecv at the end of the stream or by the user: nobody who
\* waits in discover() is told.
Close(f) ==
    /\ pc[f] = (IF f = "user" THEN "idle" ELSE "close") /\ connMutex = None
    /\ closed' = TRUE /\ channel' = <<>> /\ toReg' = <<>> /\ toPool' = <<>>
    /\ link' = IF link = "up" THEN "down" ELSE link
    /\ goto(f, "done")
    /\ UNCHANGED <<prov, todo, rpc, arg, mutex, service, iters, subscribe, name, used, calls,
                   connMutex, subMutex, conns, addrs, methodMap, box, handles, msg>>

-----------------------------------------------------------------------------
CallStep(c) ==
    \/ Enter(c) \/ Invoke(c) \/ RemoveDead(c) \/ Look(c) \/ Ask(c) \/ Discovered(c)
    \/ SubscribeKey(c) \/ SubscribePush(c) \/ Connect(c) \/ FirstCall(c)
RecvStep == HandleRecv \/ HandlePublish \/ OnPublication \/ PublishAck \/ Close("recv")

Next ==
    \/ RegistryNext /\ UNCHANGED poolVars
    \/ \E c \in Callers : Call(c) \/ CallStep(c)
    \/ HandleSend \/ RecvStep \/ RegistryEnds \/ Close("user")

Spec == Init /\ [][Next]_vars

\* Every fiber that can run does; a registry that lives serves while it has a thread
\* left.  The alive timer may expire or not.  As in RpcClient, runs in which
\* CoMutex::lock loses a wake-up of the pool's locks are left out.
FairSpec ==
    /\ Spec
    /\ \A c \in Callers : WF_vars(CallStep(c))
    /\ WF_vars(HandleSend) /\ WF_vars(RecvStep)
    /\ \A k \in Conns : WF_vars(link # "gone" /\ Serving /\ HandlerStep(k) /\ UNCHANGED poolVars)
    /\ WF_vars(Serving /\ ServeConsumer /\ UNCHANGED poolVars)

-----------------------------------------------------------------------------
(* Types of the registry and the pool; the channels keep to their capacity of
   one whoever pushes (rpc_connection_pool.cc:6, rpc_connection_pool.h:105-137). *)
TypeOK ==
    /\ RegistryTypeOK
    /\ name \in [Callers -> Services \cup {None}] /\ used \in [Callers -> Addrs \cup {None}]
    /\ connMutex \in Callers \cup {None} /\ subMutex \in Callers \cup {"recv", None}
    /\ conns \in [Services -> Addrs \cup {None}]
    /\ \A s \in Services : addrs[s] \in Seq(Addrs \cup {None})
    /\ methodMap \in [Services -> Callers \cup {None}] /\ \A c \in Callers : Len(box[c]) <= 1
    /\ handles \subseteq Services /\ Len(channel) <= Capacity /\ closed \in BOOLEAN

\* Everyone waits for everyone: handleRecv runs the callback of a publication, which
\* needs the connect_mutex_ of a call that itself waits for what only handleRecv
\* gives, its list or subscribe_handle_mutex_.
HeldUp(c) ==
    /\ pc["recv"] = "callback" /\ connMutex = c
    /\ (pc[c] = "await" /\ box[c] = <<>>) \/ pc[c] = "subscribe"

(* A call of the only caller returns unless the RPCClient it ends up with does
   not, the registry is gone or has no thread left, or a publication and the call
   hold the locks the other needs; a publication that only crosses the call, a
   full channel_ and a lost connection do not stop it (rpc_connection_pool.h:36-94,
   rpc_connection_pool.cc:101-103,165-213).                                     *)
CallReturns ==
    \A c \in Callers :
        pc[c] # "idle" ~> (pc[c] \in {"idle", "hung"} \/ HeldUp(c) \/ link # "up" \/ ~Serving)

(* The publication that a service went off line takes the address out of the
   cached ones (the comments of rpc_connection_pool.cc:209-219, "服务是否下线",
   "服务下线").                                                               *)
OfflineRemoves ==
    [][OnPublication /\ ~msg.online => ~Contains(addrs'[msg.name], msg.addr)]_vars
=============================================================================
