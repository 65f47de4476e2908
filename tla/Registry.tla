------------------------------ MODULE Registry ------------------------------
(***************************************************************************)
(* RPCServiceRegistry with the RPCServers that register at it              *)
(* (rpc_service_registry.h, rpc_service_registry.cc, rpc_server.cc).       *)
(*                                                                         *)
(* A server connects, names its port and registers its services one after  *)
(* the other, each register request waiting for its answer.  Every         *)
(* connection has a handler fiber in the registry; all of them share       *)
(* service_, iters_ and subscribe_ under one CoMutex.  That lock can be    *)
(* taken again by the fiber that holds it, but the inner unlock frees it:  *)
(* handleUnregisterService, which publishes inside its own critical        *)
(* section, walks on without the lock after the first publication.         *)
(* The consumer is one subscribed session; module ConnectionPool is the    *)
(* other end of it.                                                        *)
(*                                                                         *)
(* A handler learns from the end of the stream that its server is gone.    *)
(* The alive timer instead closes the registry's own end of a connection   *)
(* that was silent: read() is then -1, readFixSize repeats it for ever     *)
(* (stream.cc:19-25, module Session), and that handler keeps its worker    *)
(* thread to itself.                                                       *)
(***************************************************************************)
EXTENDS Naturals, Sequences, FiniteSets, SequencesExt

CONSTANTS
    Services,    \* service names
    Addrs,       \* addresses of servers
    Offers,      \* services_ of the server at each address, in its order
    Mortal,      \* servers that may go down or fall silent (bound)
    Workers,     \* threads of the registry's worker_
    MaxStarts,   \* connections a server makes, one after the other (bound)
    None

ASSUME RegistryAssumption ==
    /\ MaxStarts \in Nat \ {0} /\ Workers \in Nat \ {0} /\ None \notin Services \cup Addrs
    /\ \A a \in Addrs : Offers[a] \in Seq(Services)

\* The n-th connection of the server at an address; its handler fiber in the registry.
Conns == Addrs \X (1 .. MaxStarts)
Addr(k) == k[1]

VARIABLES
    prov,       \* state of each connection: "new", "up" or "down"
    todo,       \* services the server has still to register on it
    rpc,        \* where the handler of each connection is
    arg,        \* the service it registers, or the entries it still has to erase
    mutex,      \* the owner of mutex_
    service,    \* service_: entries [name, conn]
    iters,      \* iters_: the entries known for each address
    subscribe,  \* subscribe_: the keys of the consumer session, once per request
    toReg,      \* consumer -> registry
    toPool,     \* registry -> consumer
    link        \* the consumer session: "up", "down", or "gone" with the registry

regVars == <<prov, todo, rpc, arg, mutex, service, iters, subscribe, toReg, toPool, link>>

Discover(s) == [type |-> "discover", name |-> s]
Subscribe(s) == [type |-> "subscribe", name |-> s]
Ack == [type |-> "ack", name |-> None]
Publication(s, up, a) == [type |-> "publish", name |-> s, online |-> up, addr |-> a]
Answer(s, as) == [type |-> "list", name |-> s, addrs |-> as]

RegistryInit ==
    /\ prov = [k \in Conns |-> "new"] /\ todo = [k \in Conns |-> Offers[Addr(k)]]
    /\ rpc = [k \in Conns |-> "recv"] /\ arg = [k \in Conns |-> <<>>]
    /\ mutex = None /\ service = {} /\ iters = [a \in Addrs |-> <<>>]
    /\ subscribe = <<>> /\ toReg = <<>> /\ toPool = <<>> /\ link = "up"

\* CoMutex::lock for a fiber: at once when it is the owner already.
MayLock(f) == mutex \in {None, f}

to(k, l) == rpc' = [rpc EXCEPT ![k] = l]

-----------------------------------------------------------------------------
\* connectRegistry() and the RPC_PROVIDER request; a server connects again only
\* after its last connection went down.
ConnectRegistry(k) ==
    /\ prov[k] = "new" /\ (k[2] > 1 => prov[<<k[1], k[2] - 1>>] = "down")
    /\ prov' = [prov EXCEPT ![k] = "up"]
    /\ UNCHANGED <<todo, rpc, arg, mutex, service, iters, subscribe, toReg, toPool, link>>

\* The server ends or crashes, and its kernel closes the connection: the next
\* recvRequest of the handler returns nullptr.
ProviderDown(k) ==
    /\ Addr(k) \in Mortal /\ prov[k] = "up" /\ prov' = [prov EXCEPT ![k] = "down"]
    /\ UNCHANGED <<todo, rpc, arg, mutex, service, iters, subscribe, toReg, toPool, link>>

\* update(): nothing came from the server for aliveTime_, and the timer closes the
\* socket under the handler, which from then on repeats a read that fails at once.
\* (While a request is handled the close shows in the next read, so it is put there.)
AliveExpires(k) ==
    /\ Addr(k) \in Mortal /\ prov[k] # "new" /\ rpc[k] = "recv" /\ to(k, "spin")
    /\ UNCHANGED <<prov, todo, arg, mutex, service, iters, subscribe, toReg, toPool, link>>

\* Some worker thread is left that runs the other handlers.
Serving == Cardinality({k \in Conns : rpc[k] = "spin"}) < Workers

\* start(): the next of services_ is requested once the last one was answered.
registerService(k) == todo[k] # <<>> /\ todo' = [todo EXCEPT ![k] = Tail(@)]

\* Mutant: the iterator is not remembered.
RegisterForgets(k) ==
    /\ prov[k] = "up" /\ rpc[k] = "recv" /\ MayLock(k)
    /\ registerService(k)
    /\ arg' = [arg EXCEPT ![k] = <<[name |-> Head(todo[k]), conn |-> k]>>]
    /\ service' = service \cup {arg'[k][1]}
    /\ to(k, "online")
    /\ UNCHANGED <<prov, mutex, iters, subscribe, toReg, toPool, link>>

\* handleServiceRegister stores the entry and its iterator, under mutex_ ...
HandleServiceRegister(k) ==
    /\ prov[k] = "up" /\ rpc[k] = "recv" /\ MayLock(k)
    /\ registerService(k)
    /\ arg' = [arg EXCEPT ![k] = <<[name |-> Head(todo[k]), conn |-> k]>>]
    /\ service' = service \cup {arg'[k][1]}
    /\ iters' = [iters EXCEPT ![Addr(k)] = Append(@, arg'[k][1])]
    /\ to(k, "online")
    /\ UNCHANGED <<prov, mutex, subscribe, toReg, toPool, link>>

\* publish(): a request for every entry of subscribe_ under the key, to a session
\* that is still connected.
SendPublication(s, up, a) ==
    toPool' = IF link = "up"
                THEN toPool \o [i \in 1 .. Len(SelectSeq(subscribe, LAMBDA x : x = s))
                                    |-> Publication(s, up, a)]
                ELSE toPool

\* ... then the publication, before the answer is sent.
PublishOnline(k) ==
    /\ rpc[k] = "online" /\ MayLock(k)
    /\ SendPublication(arg[k][1].name, TRUE, Addr(k))
    /\ mutex' = None /\ arg' = [arg EXCEPT ![k] = <<>>] /\ to(k, "recv")
    /\ UNCHANGED <<prov, todo, service, iters, subscribe, toReg, link>>

-----------------------------------------------------------------------------
\* handleUnregisterService: a copy of the entries of the address; mutex_ stays taken.
HandleUnregisterService(k) ==
    /\ prov[k] = "down" /\ rpc[k] = "recv" /\ MayLock(k)
    /\ arg' = [arg EXCEPT ![k] = iters[Addr(k)]]
    /\ IF iters[Addr(k)] = <<>> THEN mutex' = None /\ to(k, "end")
                                ELSE mutex' = k /\ to(k, "erase")
    /\ UNCHANGED <<prov, todo, service, iters, subscribe, toReg, toPool, link>>

\* Mutant: erased by the key, not by the iterator.
EraseByName(k) ==
    /\ rpc[k] = "erase"
    /\ service' = {e \in service : e.name # arg[k][1].name}
    /\ to(k, "test")
    /\ UNCHANGED <<prov, todo, arg, mutex, iters, subscribe, toReg, toPool, link>>

\* What an access to a container of the registry without mutex_ may destroy: nothing
\* with one worker thread, as no other handler runs before this one suspends itself,
\* anything with several.  (A crash of the registry is RegistryEnds of ConnectionPool.)
Endangered(S) == IF Workers > 1 THEN S ELSE {}

\* service_.erase(i): in the first turn with mutex_, in the later ones without it.
EraseEntry(k) ==
    /\ rpc[k] = "erase"
    /\ \E lost \in SUBSET (IF mutex = k THEN {} ELSE Endangered(service)) :
         service' = service \ ({arg[k][1]} \cup lost)
    /\ to(k, "test")
    /\ UNCHANGED <<prov, todo, arg, mutex, iters, subscribe, toReg, toPool, link>>

\* The test of publish() for subscribers: its unlock frees mutex_.
PublishTest(k) ==
    /\ rpc[k] = "test" /\ MayLock(k)
    /\ mutex' = None /\ to(k, "offline")
    /\ UNCHANGED <<prov, todo, arg, service, iters, subscribe, toReg, toPool, link>>

\* The second part of publish().  The key is read through the erased iterator:
\* it is the name, or something no one subscribed to.
PublishOffline(k) ==
    /\ rpc[k] = "offline" /\ MayLock(k)
    /\ \E s \in {arg[k][1].name, None} : SendPublication(s, FALSE, Addr(k))
    /\ arg' = [arg EXCEPT ![k] = Tail(@)] /\ mutex' = None
    /\ to(k, IF Len(arg[k]) = 1 THEN "drop" ELSE "erase")
    /\ UNCHANGED <<prov, todo, service, iters, subscribe, toReg, link>>

\* iters_.erase(address), without mutex_, and the unlock of the outer lock, whoever
\* holds it by now.
DropAddress(k) ==
    /\ rpc[k] = "drop"
    /\ \E lost \in SUBSET Endangered(Addrs) :
         iters' = [a \in Addrs |-> IF a \in {Addr(k)} \cup lost THEN <<>> ELSE iters[a]]
    /\ mutex' = None /\ to(k, "end")
    /\ UNCHANGED <<prov, todo, arg, service, subscribe, toReg, toPool, link>>

-----------------------------------------------------------------------------
\* The addresses found under a name, in some order; an empty list is RPC_NO_METHOD.
Found(s) == SetToSeq({Addr(e.conn) : e \in {x \in service : x.name = s}})

\* The handler of the consumer's connection: one request of it.
ServeConsumer ==
    /\ link = "up" /\ toReg # <<>>
    /\ LET m == Head(toReg) IN
         \/ /\ m.type = "discover" /\ mutex = None
            /\ toPool' = Append(toPool, Answer(m.name, Found(m.name)))
            /\ UNCHANGED subscribe
         \/ /\ m.type = "subscribe" /\ mutex = None
            /\ subscribe' = Append(subscribe, m.name)
            /\ toPool' = Append(toPool, Ack)
         \/ /\ m.type = "ack"
            /\ UNCHANGED <<subscribe, toPool>>
    /\ toReg' = Tail(toReg)
    /\ UNCHANGED <<prov, todo, rpc, arg, mutex, service, iters, link>>

HandlerStep(k) ==
    \/ HandleServiceRegister(k) \/ PublishOnline(k) \/ HandleUnregisterService(k)
    \/ EraseEntry(k) \/ PublishTest(k) \/ PublishOffline(k) \/ DropAddress(k)

RegistryNext ==
    /\ link # "gone"
    /\ \/ \E k \in Conns : ConnectRegistry(k) \/ ProviderDown(k)
       \/ Serving /\ ((\E k \in Conns : AliveExpires(k) \/ HandlerStep(k)) \/ ServeConsumer)

-----------------------------------------------------------------------------
RegistryTypeOK ==
    /\ prov \in [Conns -> {"new", "up", "down"}]
    /\ rpc \in [Conns -> {"recv", "online", "erase", "test", "offline", "drop", "end", "spin"}]
    /\ mutex \in Conns \cup {None}
    /\ service \subseteq [name : Services, conn : Conns]
    /\ \A a \in Addrs : iters[a] \in Seq([name : Services, conn : Conns])
    /\ subscribe \in Seq(Services) /\ link \in {"up", "down", "gone"}

(* A server that is connected and has its answer is found: the entry a register
   request made stays until its own connection is down, however the handlers
   of other servers run into the unlocked part of handleUnregisterService
   (rpc_service_registry.cc:101-109,183-198).  With one worker thread: on
   several the unlocked erase and another handler's emplace are a data race.  *)
ListedWhileUp ==
    \A k \in Conns : \A s \in ToSet(Offers[Addr(k)]) \ ToSet(todo[k]) :
        (prov[k] = "up" /\ rpc[k] \in {"recv", "spin"})
            => [name |-> s, conn |-> k] \in service

\* No entry of a connection is left, neither in service_ nor in iters_.
Forgotten(k) ==
    \A e \in service \cup ToSet(iters[Addr(k)]) : e.conn # k

(* The services of a server that ended disappear from service_ and from iters_,
   all of them, although the handler of another server may hold mutex_, or take
   it where handleUnregisterService has lost it (rpc_service_registry.cc:27-33,
   183-198).  Not if the alive timer closed the connection first, nor when such
   handlers have taken all worker threads: see ClosedIsForgotten.              *)
DownIsForgotten ==
    []<>(\A k \in Conns :
            prov[k] = "down" => link = "gone" \/ rpc[k] = "spin" \/ ~Serving \/ Forgotten(k))

(* "断开连接后，删除服务和地址" (after the connection is broken, service and address
   are deleted, rpc_service_registry.h:75), whichever end broke it: a connection
   the alive timer closed included.                                            *)
ClosedIsForgotten ==
    []<>(\A k \in Conns :
            prov[k] = "down" \/ rpc[k] = "spin" => link = "gone" \/ Forgotten(k))
=============================================================================
