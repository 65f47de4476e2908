------------------------ MODULE ConnectionPoolProofs ------------------------
(***************************************************************************)
(* Machine-checked proofs about ConnectionPool and the Registry it talks    *)
(* to, for any services, servers, callers and numbers of calls.             *)
(***************************************************************************)
EXTENDS ConnectionPool, FiniteSetTheorems, TLAPS

Entries == [name : Services, conn : Conns]

\* The handler of a connection while it walks through the entries of its address.
Erasing == {"erase", "test", "offline"}

\* A server makes one connection after the other: all those before one it has made
\* are down.
ConnsInTurn ==
    \A k \in Conns : prov[k] # "new" =>
        \A n \in 1 .. MaxStarts : n < k[2] => prov[<<k[1], n>>] = "down"

\* Types of what the handlers work on, and where they are; the entries under an address
\* in iters_, and those a handler erases, are of connections from that address.
HandlerInv ==
    /\ prov \in [Conns -> {"new", "up", "down"}]
    /\ todo \in [Conns -> Seq(Services)]
    /\ rpc \in [Conns -> {"recv", "online", "erase", "test", "offline", "drop", "end", "spin"}]
    /\ arg \in [Conns -> Seq(Entries)]
    /\ iters \in [Addrs -> Seq(Entries)]
    /\ service \subseteq Entries
    /\ \A k \in Conns : prov[k] = "new" => rpc[k] = "recv" /\ todo[k] = Offers[Addr(k)]
    /\ \A k \in Conns : rpc[k] \notin {"recv", "online", "spin"} => prov[k] = "down"
    /\ \A a \in Addrs : \A i \in 1 .. Len(iters[a]) : Addr(iters[a][i].conn) = a
    /\ \A k \in Conns : rpc[k] \in Erasing =>
          /\ arg[k] # <<>>
          /\ \A i \in 1 .. Len(arg[k]) : Addr(arg[k][i].conn) = Addr(k)

\* With one worker thread the first connection of a server is listed with every service
\* it has registered, until it is down.
FirstListed ==
    Workers = 1 => \A k \in Conns : k[2] = 1 /\ prov[k] = "up" =>
        \A s \in ToSet(Offers[Addr(k)]) \ ToSet(todo[k]) : [name |-> s, conn |-> k] \in service

ListedInv == ConnsInTurn /\ HandlerInv /\ FirstListed

\* A sequence with a length is not empty.
LEMMA NotEmpty == ASSUME NEW S, NEW q \in Seq(S), Len(q) # 0 PROVE q # <<>>
  OBVIOUS

\* The elements of a sequence are its head and those of its tail.
LEMMA ToSetTail ==
    ASSUME NEW S, NEW q \in Seq(S), q # <<>>
    PROVE  ToSet(q) = {Head(q)} \cup ToSet(Tail(q))
<1>1. /\ Len(q) \in Nat \ {0} /\ Head(q) = q[1]
      /\ DOMAIN q = 1 .. Len(q) /\ DOMAIN Tail(q) = 1 .. Len(q) - 1
      /\ \A i \in 1 .. Len(q) - 1 : Tail(q)[i] = q[i + 1]
  OBVIOUS
<1>2. ASSUME NEW x \in ToSet(q) PROVE x \in {Head(q)} \cup ToSet(Tail(q))
  <2>1. PICK i \in 1 .. Len(q) : x = q[i]
    BY <1>1 DEF ToSet
  <2>2. CASE i = 1
    BY <1>1, <2>1, <2>2
  <2>3. CASE i > 1
    <3>1. i - 1 \in 1 .. Len(q) - 1 /\ Tail(q)[i - 1] = x
      BY <1>1, <2>1, <2>3
    <3> QED
      BY <1>1, <3>1 DEF ToSet
  <2> QED
    BY <1>1, <2>1, <2>2, <2>3
<1>3. ASSUME NEW x \in {Head(q)} \cup ToSet(Tail(q)) PROVE x \in ToSet(q)
  <2>1. CASE x = Head(q)
    BY <1>1, <2>1 DEF ToSet
  <2>2. CASE x \in ToSet(Tail(q))
    <3>1. PICK i \in 1 .. Len(q) - 1 : x = Tail(q)[i]
      BY <1>1, <2>2 DEF ToSet
    <3>2. i + 1 \in 1 .. Len(q) /\ x = q[i + 1]
      BY <1>1, <3>1
    <3> QED
      BY <1>1, <3>2 DEF ToSet
  <2> QED
    BY <1>3, <2>1, <2>2
<1> QED
  BY <1>2, <1>3

\* The registry starts with nothing listed and nothing registered.
LEMMA ListedInit == Init => ListedInv
<1> SUFFICES ASSUME Init PROVE ListedInv
  OBVIOUS
<1> USE RegistryAssumption DEF Init, RegistryInit, Conns, Addr
<1>1. ConnsInTurn
  BY DEF ConnsInTurn
<1>2. HandlerInv
  BY DEF HandlerInv, Erasing, Entries
<1>3. FirstListed
  BY DEF FirstListed
<1> QED
  BY <1>1, <1>2, <1>3 DEF ListedInv

\* handleServiceRegister keeps the list: the service that leaves todo is the one listed.
LEMMA RegisterListed ==
    ASSUME ListedInv, NEW k \in Conns, HandleServiceRegister(k)
    PROVE  ListedInv'
<1> USE DEF ListedInv
<1> DEFINE s == Head(todo[k])
           e == [name |-> s, conn |-> k]
<1>1. /\ prov[k] = "up" /\ todo[k] # <<>> /\ rpc[k] = "recv"
      /\ todo' = [todo EXCEPT ![k] = Tail(todo[k])]
      /\ arg' = [arg EXCEPT ![k] = <<e>>]
      /\ rpc' = [rpc EXCEPT ![k] = "online"]
      /\ UNCHANGED prov
  BY DEF HandleServiceRegister, registerService, to
<1>2. todo[k] \in Seq(Services) /\ s \in Services /\ Tail(todo[k]) \in Seq(Services) /\ e \in Entries
  BY <1>1 DEF HandlerInv, Entries
<1>3. arg'[k][1] = e
  BY <1>1 DEF HandlerInv
<1>4. /\ service' = service \cup {e}
      /\ iters' = [iters EXCEPT ![Addr(k)] = Append(iters[Addr(k)], e)]
  <2> HIDE DEF e
  <2> QED
    BY <1>3 DEF HandleServiceRegister
<1>5. ConnsInTurn'
  BY <1>1 DEF ConnsInTurn
<1>6. Addr(k) \in Addrs /\ Addr(e.conn) = Addr(k)
  BY DEF Conns, Addr
<1>7. HandlerInv'
  <2>1. /\ todo' \in [Conns -> Seq(Services)] /\ arg' \in [Conns -> Seq(Entries)]
        /\ iters' \in [Addrs -> Seq(Entries)] /\ service' \subseteq Entries
        /\ rpc' \in [Conns -> {"recv", "online", "erase", "test", "offline", "drop", "end", "spin"}]
    BY <1>1, <1>2, <1>4, <1>6 DEF HandlerInv
  <2>2. ASSUME NEW a \in Addrs, NEW i \in 1 .. Len(iters'[a])
        PROVE  Addr(iters'[a][i].conn) = a
    <3>1. CASE a # Addr(k)
      BY <1>4, <2>2, <3>1 DEF HandlerInv
    <3>2. CASE a = Addr(k)
      <4>1. iters[a] \in Seq(Entries) /\ iters'[a] = Append(iters[a], e)
        BY <1>4, <1>6, <3>2 DEF HandlerInv
      <4>2. CASE i = Len(iters[a]) + 1
        BY <1>2, <1>6, <3>2, <4>1, <4>2
      <4>3. CASE i \in 1 .. Len(iters[a])
        BY <1>2, <4>1, <4>3 DEF HandlerInv
      <4> QED
        BY <1>2, <2>2, <4>1, <4>2, <4>3
    <3> QED
      BY <3>1, <3>2
  <2> QED
    BY <1>1, <2>1, <2>2 DEF HandlerInv, Erasing
<1>8. FirstListed'
  <2> SUFFICES ASSUME Workers = 1, NEW j \in Conns, j[2] = 1, prov[j] = "up",
                      NEW t \in ToSet(Offers[Addr(j)]), t \notin ToSet(todo'[j])
               PROVE  [name |-> t, conn |-> j] \in service'
    BY <1>1 DEF FirstListed
  <2>1. CASE j # k
    BY <1>1, <1>4, <2>1 DEF FirstListed, HandlerInv
  <2>2. CASE j = k
    <3>1. todo'[k] = Tail(todo[k])
      BY <1>1 DEF HandlerInv
    <3>2. t = s \/ t \notin ToSet(todo[k])
      BY <1>1, <1>2, <2>2, <3>1, ToSetTail
    <3> QED
      BY <1>4, <2>2, <3>2 DEF FirstListed
  <2> QED
    BY <2>1, <2>2
<1> QED
  BY <1>5, <1>7, <1>8

\* What a handler erases is not of a first connection that is up.
LEMMA EraseListed ==
    ASSUME ListedInv, NEW k \in Conns, EraseEntry(k)
    PROVE  ListedInv'
<1> USE DEF ListedInv
<1> DEFINE e == arg[k][1]
<1>0. PICK lost \in SUBSET (IF mutex = k THEN {} ELSE Endangered(service)) :
         service' = service \ ({e} \cup lost)
  BY DEF EraseEntry
<1>1. /\ rpc[k] = "erase" /\ rpc' = [rpc EXCEPT ![k] = "test"] /\ service' \subseteq service
      /\ Workers = 1 => service' = service \ {e}
      /\ UNCHANGED <<prov, todo, arg, iters>>
  BY <1>0 DEF EraseEntry, Endangered, to
<1>2. prov[k] = "down" /\ Addr(e.conn) = Addr(k)
  <2>1. /\ prov[k] = "down" /\ arg[k] \in Seq(Entries) /\ arg[k] # <<>>
        /\ \A i \in 1 .. Len(arg[k]) : Addr(arg[k][i].conn) = Addr(k)
    BY <1>1 DEF HandlerInv, Erasing
  <2>2. 1 \in 1 .. Len(arg[k])
    BY <2>1
  <2> QED
    BY <2>1, <2>2
<1>3. HandlerInv'
  BY <1>1 DEF HandlerInv, Erasing
<1>4. ConnsInTurn'
  BY <1>1 DEF ConnsInTurn
<1>5. ASSUME NEW j \in Conns, j[2] = 1, prov[j] = "up", e.conn = j PROVE FALSE
  <2>1. /\ k[1] \in Addrs /\ k[2] \in 1 .. MaxStarts /\ k = <<k[1], k[2]>>
        /\ j = <<j[1], j[2]>> /\ j[1] = k[1] /\ MaxStarts \in Nat
    BY <1>2, <1>5, RegistryAssumption DEF Conns, Addr
  <2>2. j # k
    BY <1>2, <1>5
  <2>3. 1 < k[2] /\ 1 \in 1 .. MaxStarts
    BY <1>5, <2>1, <2>2
  <2>4. prov[<<k[1], 1>>] = "down"
    BY <1>2, <2>3 DEF ConnsInTurn
  <2> QED
    BY <1>5, <2>1, <2>4
<1>6. FirstListed'
  <2> SUFFICES ASSUME Workers = 1, NEW j \in Conns, j[2] = 1, prov[j] = "up",
                      NEW t \in ToSet(Offers[Addr(j)]), t \notin ToSet(todo[j])
               PROVE  [name |-> t, conn |-> j] \in service'
    BY <1>1 DEF FirstListed
  <2>1. [name |-> t, conn |-> j] \in service
    BY DEF FirstListed
  <2>2. [name |-> t, conn |-> j] # e
    BY <1>5
  <2> QED
    BY <1>1, <2>1, <2>2
<1> QED
  BY <1>3, <1>4, <1>6

\* A server connects again only after its last connection went down.
LEMMA ConnectListed ==
    ASSUME ListedInv, NEW k \in Conns, ConnectRegistry(k)
    PROVE  ListedInv'
<1> USE DEF ListedInv
<1>1. /\ prov[k] = "new" /\ (k[2] > 1 => prov[<<k[1], k[2] - 1>>] = "down")
      /\ prov' = [prov EXCEPT ![k] = "up"] /\ UNCHANGED <<todo, rpc, arg, service, iters>>
  BY DEF ConnectRegistry
<1>2. /\ k[1] \in Addrs /\ k[2] \in 1 .. MaxStarts /\ k = <<k[1], k[2]>> /\ MaxStarts \in Nat
      /\ \A n \in 1 .. MaxStarts : <<k[1], n>> \in Conns
  BY RegistryAssumption DEF Conns
<1>3. ASSUME NEW n \in 1 .. MaxStarts, n < k[2] PROVE prov[<<k[1], n>>] = "down"
  <2>1. k[2] - 1 \in 1 .. MaxStarts /\ k[2] > 1
    BY <1>2, <1>3
  <2>2. CASE n = k[2] - 1
    BY <1>1, <2>1, <2>2
  <2>3. CASE n < k[2] - 1
    <3> DEFINE j == <<k[1], k[2] - 1>>
    <3>1. j \in Conns /\ prov[j] = "down" /\ j[1] = k[1] /\ j[2] = k[2] - 1
      BY <1>1, <1>2, <2>1
    <3> HIDE DEF j
    <3> QED
      BY <2>3, <3>1 DEF ConnsInTurn
  <2> QED
    BY <1>2, <1>3, <2>2, <2>3
<1>4. ConnsInTurn'
  <2> SUFFICES ASSUME NEW j \in Conns, prov'[j] # "new", NEW n \in 1 .. MaxStarts, n < j[2]
               PROVE  prov'[<<j[1], n>>] = "down"
    BY DEF ConnsInTurn
  <2>1. prov[<<j[1], n>>] = "down"
    BY <1>1, <1>3 DEF ConnsInTurn, HandlerInv
  <2>2. <<j[1], n>> \in Conns
    BY DEF Conns
  <2> QED
    BY <1>1, <2>1, <2>2 DEF HandlerInv
<1>5. HandlerInv'
  BY <1>1 DEF HandlerInv
<1>6. FirstListed'
  <2> SUFFICES ASSUME Workers = 1, NEW j \in Conns, j[2] = 1, prov'[j] = "up",
                      NEW t \in ToSet(Offers[Addr(j)]), t \notin ToSet(todo[j])
               PROVE  [name |-> t, conn |-> j] \in service
    BY <1>1 DEF FirstListed
  <2>1. j # k
    BY <1>1 DEF HandlerInv
  <2> QED
    BY <1>1, <2>1 DEF FirstListed, HandlerInv
<1> QED
  BY <1>4, <1>5, <1>6

\* Every step keeps the invariant.
LEMMA ListedStep == ListedInv /\ [Next]_vars => ListedInv'
<1> SUFFICES ASSUME ListedInv, [Next]_vars PROVE ListedInv'
  OBVIOUS
<1> DEFINE Same == UNCHANGED <<prov, todo, rpc, arg, service, iters>>
<1>1. ASSUME Same PROVE ListedInv'
  BY <1>1 DEF ListedInv, ConnsInTurn, HandlerInv, FirstListed
<1>2. ASSUME NEW k \in Conns, ConnectRegistry(k) PROVE ListedInv'
  BY <1>2, ConnectListed
<1>3. ASSUME NEW k \in Conns, ProviderDown(k) PROVE ListedInv'
  <2> USE <1>3 DEF ProviderDown, ListedInv
  <2>1. ConnsInTurn'
    BY DEF ConnsInTurn, HandlerInv, Conns
  <2>2. HandlerInv'
    BY DEF HandlerInv
  <2>3. FirstListed'
    BY DEF FirstListed, HandlerInv
  <2> QED
    BY <2>1, <2>2, <2>3
<1>16. ASSUME NEW k \in Conns, AliveExpires(k) PROVE ListedInv'
  <2> USE <1>16 DEF AliveExpires, ListedInv, to
  <2>1. ConnsInTurn'
    BY DEF ConnsInTurn
  <2>2. HandlerInv'
    BY DEF HandlerInv, Erasing
  <2>3. FirstListed'
    BY DEF FirstListed
  <2> QED
    BY <2>1, <2>2, <2>3
<1>4. ASSUME NEW k \in Conns, HandleServiceRegister(k) PROVE ListedInv'
  BY <1>4, RegisterListed
<1>5. ASSUME NEW k \in Conns, PublishOnline(k) PROVE ListedInv'
  <2> USE <1>5 DEF PublishOnline, ListedInv, to
  <2>1. ConnsInTurn'
    BY DEF ConnsInTurn
  <2>2. HandlerInv'
    BY DEF HandlerInv, Erasing
  <2>3. FirstListed'
    BY DEF FirstListed
  <2> QED
    BY <2>1, <2>2, <2>3
<1>6. ASSUME NEW k \in Conns, HandleUnregisterService(k) PROVE ListedInv'
  <2> USE <1>6 DEF HandleUnregisterService, ListedInv, to
  <2>0. Addr(k) \in Addrs
    BY DEF Addr, Conns
  <2>1. ConnsInTurn'
    BY DEF ConnsInTurn
  <2>2. /\ arg' = [arg EXCEPT ![k] = iters[Addr(k)]] /\ prov[k] = "down"
        /\ rpc' = [rpc EXCEPT ![k] = IF iters[Addr(k)] = <<>> THEN "end" ELSE "erase"]
        /\ UNCHANGED <<prov, todo, service, iters>>
    OBVIOUS
  <2>4. HandlerInv'
    <3>1. /\ iters[Addr(k)] \in Seq(Entries)
          /\ \A i \in 1 .. Len(iters[Addr(k)]) : Addr(iters[Addr(k)][i].conn) = Addr(k)
      BY <2>0 DEF HandlerInv
    <3>2. ASSUME NEW j \in Conns, rpc'[j] \in Erasing
          PROVE  /\ arg'[j] # <<>>
                 /\ \A i \in 1 .. Len(arg'[j]) : Addr(arg'[j][i].conn) = Addr(j)
      BY <2>2, <3>1, <3>2 DEF HandlerInv, Erasing
    <3>3. /\ arg' \in [Conns -> Seq(Entries)]
          /\ rpc' \in [Conns -> {"recv", "online", "erase", "test", "offline", "drop", "end", "spin"}]
      BY <2>2, <3>1 DEF HandlerInv
    <3>4. \A j \in Conns : prov[j] = "new" => rpc'[j] = "recv"
      BY <2>2 DEF HandlerInv
    <3>5. \A j \in Conns : rpc'[j] \notin {"recv", "online", "spin"} => prov[j] = "down"
      BY <2>2 DEF HandlerInv
    <3> QED
      BY <2>2, <3>2, <3>3, <3>4, <3>5 DEF HandlerInv
  <2>3. FirstListed'
    BY DEF FirstListed
  <2> QED
    BY <2>1, <2>3, <2>4
<1>7. ASSUME NEW k \in Conns, EraseEntry(k) PROVE ListedInv'
  BY <1>7, EraseListed
<1>8. ASSUME NEW k \in Conns, PublishTest(k) PROVE ListedInv'
  <2> USE <1>8 DEF PublishTest, ListedInv, to
  <2>1. ConnsInTurn'
    BY DEF ConnsInTurn
  <2>2. HandlerInv'
    BY DEF HandlerInv, Erasing
  <2>3. FirstListed'
    BY DEF FirstListed
  <2> QED
    BY <2>1, <2>2, <2>3
<1>9. ASSUME NEW k \in Conns, PublishOffline(k) PROVE ListedInv'
  <2> USE DEF ListedInv
  <2>1. /\ rpc[k] = "offline" /\ arg' = [arg EXCEPT ![k] = Tail(arg[k])]
        /\ rpc' = [rpc EXCEPT ![k] = IF Len(arg[k]) = 1 THEN "drop" ELSE "erase"]
        /\ UNCHANGED <<prov, todo, service, iters>>
    BY <1>9 DEF PublishOffline, to
  <2>2. ConnsInTurn' /\ FirstListed'
    BY <2>1 DEF ConnsInTurn, FirstListed
  <2>3. /\ arg[k] \in Seq(Entries) /\ arg[k] # <<>> /\ prov[k] = "down"
        /\ \A i \in 1 .. Len(arg[k]) : Addr(arg[k][i].conn) = Addr(k)
    BY <2>1 DEF HandlerInv, Erasing
  <2>4. /\ Tail(arg[k]) \in Seq(Entries) /\ Len(arg[k]) \in Nat
        /\ Len(arg[k]) # 1 => Tail(arg[k]) # <<>>
        /\ \A i \in 1 .. Len(Tail(arg[k])) : Addr(Tail(arg[k])[i].conn) = Addr(k)
    <3>1. /\ Tail(arg[k]) \in Seq(Entries) /\ Len(arg[k]) \in Nat \ {0}
          /\ Len(Tail(arg[k])) = Len(arg[k]) - 1
      BY <2>3
    <3>2. Len(arg[k]) # 1 => Tail(arg[k]) # <<>>
      <4>1. Len(arg[k]) # 1 => Len(Tail(arg[k])) # 0
        BY <3>1
      <4> QED
        BY <3>1, <4>1, NotEmpty
    <3>3. \A i \in 1 .. Len(Tail(arg[k])) : Tail(arg[k])[i] = arg[k][i + 1] /\ i + 1 \in 1 .. Len(arg[k])
      BY <2>3, <3>1
    <3>4. \A i \in 1 .. Len(Tail(arg[k])) : Addr(Tail(arg[k])[i].conn) = Addr(k)
      BY <2>3, <3>3
    <3> QED
      BY <3>1, <3>2, <3>4
  <2>5. HandlerInv'
    BY <2>1, <2>3, <2>4 DEF HandlerInv, Erasing
  <2> QED
    BY <2>2, <2>5
<1>10. ASSUME NEW k \in Conns, DropAddress(k) PROVE ListedInv'
  <2> USE <1>10 DEF DropAddress, ListedInv, to
  <2>1. ConnsInTurn'
    BY DEF ConnsInTurn
  <2>2. HandlerInv'
    <3>0. PICK lost : iters' = [a \in Addrs |-> IF a \in {Addr(k)} \cup lost THEN <<>> ELSE iters[a]]
      OBVIOUS
    <3>1. iters' \in [Addrs -> Seq(Entries)]
      <4>1. <<>> \in Seq(Entries) /\ iters \in [Addrs -> Seq(Entries)]
        BY DEF HandlerInv
      <4> QED
        BY <3>0, <4>1
    <3>2. \A a \in Addrs : iters'[a] = iters[a] \/ iters'[a] = <<>>
      BY <3>0
    <3>3. ASSUME NEW a \in Addrs, NEW i \in 1 .. Len(iters'[a])
          PROVE  Addr(iters'[a][i].conn) = a
      <4>1. CASE iters'[a] = <<>>
        BY <3>3, <4>1
      <4>2. CASE iters'[a] = iters[a]
        BY <3>3, <4>2 DEF HandlerInv
      <4> QED
        BY <3>2, <4>1, <4>2
    <3>4. /\ rpc[k] = "drop" /\ rpc' = [rpc EXCEPT ![k] = "end"]
          /\ UNCHANGED <<prov, todo, arg, service>>
      OBVIOUS
    <3>5. /\ rpc' \in [Conns -> {"recv", "online", "erase", "test", "offline", "drop", "end", "spin"}]
          /\ \A j \in Conns : prov[j] = "new" => rpc'[j] = "recv"
          /\ \A j \in Conns : rpc'[j] \notin {"recv", "online", "spin"} => prov[j] = "down"
          /\ \A j \in Conns : rpc'[j] \in Erasing => rpc[j] \in Erasing
      BY <3>4 DEF HandlerInv, Erasing
    <3> QED
      BY <3>1, <3>3, <3>4, <3>5 DEF HandlerInv
  <2>3. FirstListed'
    BY DEF FirstListed
  <2> QED
    BY <2>1, <2>2, <2>3
<1>11. ASSUME ServeConsumer PROVE Same
  BY <1>11 DEF ServeConsumer
<1>12. ASSUME NEW c \in Callers, Call(c) \/ CallStep(c) PROVE Same
  BY <1>12 DEF Call, CallStep, Enter, Invoke, RemoveDead, Look, Ask, Discovered,
     SubscribeKey, SubscribePush, Connect, FirstCall, regVars
<1>13. ASSUME HandleSend \/ RecvStep \/ RegistryEnds \/ Close("user") PROVE Same
  BY <1>13 DEF HandleSend, RecvStep, HandleRecv, HandlePublish, OnPublication, PublishAck,
     RegistryEnds, Close, regVars
<1>14. ASSUME UNCHANGED vars PROVE Same
  BY <1>14 DEF vars, regVars
<1>15. CASE RegistryNext
  BY <1>15, <1>16, <1>1, <1>2, <1>3, <1>4, <1>5, <1>6, <1>7, <1>8, <1>9, <1>10, <1>11
     DEF RegistryNext, HandlerStep
<1> QED
  BY <1>1, <1>12, <1>13, <1>14, <1>15 DEF Next

\* In a registry with one worker thread the entries of the first connection of a server
\* stay listed while it is up, whatever the handlers of other servers erase without the
\* lock, and however often servers connect again (rpc_service_registry.cc:101-109,183-198).
THEOREM FirstConnectionListed == Spec => []FirstListed
<1>1. ListedInv => FirstListed
  BY DEF ListedInv
<1> QED
  BY <1>1, ListedInit, ListedStep, PTL DEF Spec

\* ListedWhileUp for any number of servers and services that connect once to a registry
\* with one worker thread.  With a second connection it is false: the handler of the
\* first may still walk through iters_ of the address, which then has the entries of the
\* second.  With a second thread the erase without mutex_ is a data race.
THEOREM ListedWhileUpHolds == MaxStarts = 1 /\ Workers = 1 => (Spec => []ListedWhileUp)
<1> SUFFICES ASSUME MaxStarts = 1, Workers = 1 PROVE Spec => []ListedWhileUp
  OBVIOUS
<1>1. ASSUME FirstListed PROVE ListedWhileUp
  <2> SUFFICES ASSUME NEW k \in Conns,
                      NEW s \in ToSet(Offers[Addr(k)]) \ ToSet(todo[k]),
                      prov[k] = "up"
               PROVE  [name |-> s, conn |-> k] \in service
    BY DEF ListedWhileUp
  <2>1. k[2] = 1
    BY DEF Conns
  <2> QED
    BY <1>1, <2>1 DEF FirstListed
<1> QED
  BY <1>1, FirstConnectionListed, PTL
-----------------------------------------------------------------------------
(***************************************************************************)
(* Type correctness.  TypeOK is not inductive: what is on its way between   *)
(* the fibers of the pool and the registry has to be well typed too.        *)
(***************************************************************************)

\* What the pool sends and what the registry sends.
Requests == {m \in [type : {"discover", "subscribe", "ack"}, name : Services \cup {None}] :
                m.type # "ack" => m.name \in Services}
Lists == [type : {"list"}, name : Services, addrs : Seq(Addrs)]
Publications == [type : {"publish"}, name : Services \cup {None}, online : BOOLEAN, addr : Addrs]
Acks == [type : {"ack"}, name : {None}]

\* Where the fibers of the pool can be.
Labels == {"idle", "enter", "invoke", "remove", "look", "connect", "ask", "await", "subscribe",
           "subpush", "first", "hung", "spin", "publish", "callback", "ack", "close", "done"}

\* Types of the registry that HandlerInv leaves open.
RegistryInv ==
    /\ \A k \in Conns : rpc[k] = "online" => arg[k] # <<>>
    /\ mutex \in Conns \cup {None}
    /\ IsFiniteSet(service)
    /\ subscribe \in Seq(Services) /\ link \in {"up", "down", "gone"}
    /\ toReg \in Seq(Requests) /\ toPool \in Seq(Lists \cup Publications \cup Acks)

\* Types of the pool; a caller inside call() has a service, and handleRecv a publication
\* while it works on one.
CallerInv ==
    /\ pc \in [Callers \cup {"send", "recv", "user"} -> Labels]
    /\ name \in [Callers -> Services \cup {None}]
    /\ \A c \in Callers : pc[c] # "idle" => name[c] \in Services
    /\ used \in [Callers -> Addrs \cup {None}]
    /\ connMutex \in Callers \cup {None} /\ subMutex \in Callers \cup {"recv", None}
    /\ methodMap \in [Services -> Callers \cup {None}]
    /\ box \in [Callers -> {<<>>} \cup {<<as>> : as \in Seq(Addrs)}]

CacheInv ==
    /\ conns \in [Services -> Addrs \cup {None}]
    /\ addrs \in [Services -> Seq(Addrs \cup {None})]
    /\ handles \subseteq Services
    /\ channel \in Seq(Requests) /\ Len(channel) <= Capacity
    /\ closed \in BOOLEAN
    /\ pc["recv"] \in {"publish", "callback"} => msg \in Publications

PoolInv == RegistryInv /\ CallerInv /\ CacheInv

\* A nonempty set of naturals has a least element.
LEMMA LeastNatural ==
    ASSUME NEW T \in SUBSET Nat, T # {}
    PROVE  \E n \in T : \A m \in T : n <= m
<1> DEFINE R == OpToRel(<, Nat)
<1>1. IsWellFoundedOn(R, Nat)
  BY NatLessThanWellFounded
<1>2. \A x, y \in Nat : <<x, y>> \in R <=> x < y
  BY DEF OpToRel
<1> HIDE DEF R
<1>3. PICK n \in T : \A y \in T : ~(<<y, n>> \in R)
  BY <1>1, WFMin
<1>4. ASSUME NEW m \in T PROVE n <= m
  <2>1. m \in Nat /\ n \in Nat /\ ~(<<m, n>> \in R)
    BY <1>3
  <2>2. ~(m < n)
    BY <1>2, <2>1
  <2> QED
    BY <2>1, <2>2
<1> QED
  BY <1>4

\* The sequence without the first occurrence of an element of it.
LEMMA RemoveFirstType ==
    ASSUME NEW S, NEW q \in Seq(S), NEW a, Contains(q, a)
    PROVE  RemoveAt(q, CHOOSE i \in DOMAIN q : q[i] = a /\ \A j \in 1 .. i - 1 : q[j] # a) \in Seq(S)
<1> DEFINE T == {i \in DOMAIN q : q[i] = a}
           c == CHOOSE i \in DOMAIN q : q[i] = a /\ \A j \in 1 .. i - 1 : q[j] # a
<1>1. DOMAIN q = 1 .. Len(q) /\ Len(q) \in Nat
  OBVIOUS
<1>2. T # {} /\ T \in SUBSET Nat
  BY <1>1 DEF Contains
<1>3. PICK n \in T : \A m \in T : n <= m
  BY <1>2, LeastNatural
<1>4. \A j \in 1 .. n - 1 : q[j] # a
  BY <1>1, <1>3
<1>5. c \in 1 .. Len(q)
  BY <1>1, <1>3, <1>4
<1> HIDE DEF c
<1>6. SubSeq(q, 1, c - 1) \in Seq(S) /\ SubSeq(q, c + 1, Len(q)) \in Seq(S)
  BY <1>1, <1>5
<1> QED
  BY <1>6 DEF RemoveAt, c

\* The elements of a finite set in some order.
LEMMA SetToSeqType == ASSUME NEW S, IsFiniteSet(S) PROVE SetToSeq(S) \in Seq(S)
<1>1. Cardinality(S) \in Nat /\ \E f \in [1 .. Cardinality(S) -> S] : IsInjective(f)
  BY FS_CardinalityType DEF ExistsBijection, Bijection, Injection
<1>2. SetToSeq(S) \in [1 .. Cardinality(S) -> S]
  BY <1>1 DEF SetToSeq
<1> QED
  BY <1>1, <1>2

\* A discover request is answered with addresses of servers.
LEMMA FoundType ==
    ASSUME service \subseteq Entries, IsFiniteSet(service), NEW s
    PROVE  Found(s) \in Seq(Addrs)
<1> DEFINE E == {x \in service : x.name = s}
           A == {Addr(e.conn) : e \in E}
           g == [e \in E |-> Addr(e.conn)]
<1>1. IsFiniteSet(E)
  BY FS_Subset
<1>2. A \subseteq Addrs
  BY DEF Entries, Conns, Addr
<1>3. g \in Surjection(E, A)
  BY DEF Surjection
<1>4. IsFiniteSet(A)
  BY <1>1, <1>3, FS_Surjection
<1> HIDE DEF A
<1>5. SetToSeq(A) \in Seq(Addrs)
  BY <1>2, <1>4, SetToSeqType
<1> QED
  BY <1>5 DEF Found, A

\* publish() sends publications and nothing else.
LEMMA SendType ==
    ASSUME RegistryInv, NEW s \in Services \cup {None}, NEW up \in BOOLEAN, NEW a \in Addrs,
           SendPublication(s, up, a)
    PROVE  toPool' \in Seq(Lists \cup Publications \cup Acks)
<1> DEFINE M == Lists \cup Publications \cup Acks
           n == Len(SelectSeq(subscribe, LAMBDA x : x = s))
           p == Publication(s, up, a)
           q == [i \in 1 .. n |-> p]
<1>1. n \in Nat
  OBVIOUS
<1>2. p \in M
  BY DEF Publication, Publications
<1>5. toPool' = IF link = "up" THEN toPool \o q ELSE toPool
  BY Zenon DEF SendPublication
<1> HIDE DEF n, p, M
<1>3. q \in Seq(M)
  BY <1>1, <1>2
<1>4. toPool \in Seq(M)
  BY DEF RegistryInv, M
<1> HIDE DEF q
<1>6. toPool' \in Seq(M)
  BY <1>3, <1>4, <1>5
<1> QED
  BY <1>6 DEF M

\* The registry and the pool start well typed.
LEMMA PoolInit == Init => PoolInv
<1> SUFFICES ASSUME Init PROVE PoolInv
  OBVIOUS
<1>1. RegistryInv
  BY FS_EmptySet DEF Init, RegistryInit, RegistryInv
<1>2. CallerInv
  <2>1. /\ pc = [f \in Callers \cup {"send", "recv", "user"} |-> "idle"]
        /\ pc \in [Callers \cup {"send", "recv", "user"} -> Labels]
    BY DEF Init, Labels
  <2>2. box \in [Callers -> {<<>>} \cup {<<as>> : as \in Seq(Addrs)}]
    BY DEF Init
  <2> QED
    BY <2>1, <2>2 DEF Init, CallerInv
<1>3. CacheInv
  <2>1. pc["recv"] = "idle" /\ channel = <<>>
    BY DEF Init
  <2>2. Len(channel) <= Capacity /\ channel \in Seq(Requests)
    BY <2>1 DEF Capacity
  <2>3. addrs \in [Services -> Seq(Addrs \cup {None})]
    BY DEF Init
  <2> QED
    BY <2>1, <2>2, <2>3 DEF Init, CacheInv
<1> QED
  BY <1>1, <1>2, <1>3 DEF PoolInv

\* A step of the registry keeps its types.
LEMMA RegistryTypes ==
    ASSUME ListedInv, RegistryInv, RegistryNext
    PROVE  RegistryInv'
<1> USE DEF RegistryInv, to
<1>1. ASSUME NEW k \in Conns, ConnectRegistry(k) \/ ProviderDown(k) \/ AliveExpires(k)
      PROVE  RegistryInv'
  BY <1>1 DEF ConnectRegistry, ProviderDown, AliveExpires, ListedInv, HandlerInv
<1>2. ASSUME NEW k \in Conns, HandleServiceRegister(k) PROVE RegistryInv'
  <2>1. /\ arg' = [arg EXCEPT ![k] = <<[name |-> Head(todo[k]), conn |-> k]>>]
        /\ rpc' = [rpc EXCEPT ![k] = "online"]
        /\ service' = service \cup {arg'[k][1]}
        /\ UNCHANGED <<mutex, subscribe, toReg, toPool, link>>
    BY <1>2 DEF HandleServiceRegister
  <2>2. \A j \in Conns : rpc'[j] = "online" => arg'[j] # <<>>
    BY <2>1 DEF ListedInv, HandlerInv
  <2>3. IsFiniteSet(service')
    BY <2>1, FS_AddElement
  <2> QED
    BY <2>1, <2>2, <2>3
<1>3. ASSUME NEW k \in Conns, PublishOnline(k) PROVE RegistryInv'
  <2>1. /\ rpc[k] = "online" /\ arg' = [arg EXCEPT ![k] = <<>>]
        /\ rpc' = [rpc EXCEPT ![k] = "recv"] /\ mutex' = None
        /\ UNCHANGED <<service, subscribe, toReg, link>>
    BY <1>3 DEF PublishOnline
  <2>2. arg[k] \in Seq(Entries) /\ arg[k] # <<>>
    BY <2>1 DEF ListedInv, HandlerInv
  <2>3. arg[k][1] \in Entries
    BY <2>2
  <2>4. arg[k][1].name \in Services /\ Addr(k) \in Addrs
    BY <2>3 DEF Entries, Conns, Addr
  <2>5. SendPublication(arg[k][1].name, TRUE, Addr(k))
    BY <1>3 DEF PublishOnline
  <2>6. toPool' \in Seq(Lists \cup Publications \cup Acks)
    BY <2>4, <2>5, SendType
  <2>7. \A j \in Conns : rpc'[j] = "online" => arg'[j] # <<>>
    BY <2>1 DEF ListedInv, HandlerInv
  <2> QED
    BY <2>1, <2>6, <2>7
<1>4. ASSUME NEW k \in Conns, HandleUnregisterService(k) PROVE RegistryInv'
  BY <1>4 DEF HandleUnregisterService, ListedInv, HandlerInv
<1>5. ASSUME NEW k \in Conns, EraseEntry(k) PROVE RegistryInv'
  <2>1. /\ service' \subseteq service /\ rpc' = [rpc EXCEPT ![k] = "test"]
        /\ UNCHANGED <<arg, mutex, subscribe, toReg, toPool, link>>
    BY <1>5 DEF EraseEntry
  <2>2. IsFiniteSet(service')
    BY <2>1, FS_Subset
  <2> QED
    BY <2>1, <2>2 DEF ListedInv, HandlerInv
<1>6. ASSUME NEW k \in Conns, PublishTest(k) PROVE RegistryInv'
  BY <1>6 DEF PublishTest, ListedInv, HandlerInv
<1>7. ASSUME NEW k \in Conns, PublishOffline(k) PROVE RegistryInv'
  <2>1. /\ rpc[k] = "offline" /\ arg' = [arg EXCEPT ![k] = Tail(arg[k])] /\ mutex' = None
        /\ rpc' = [rpc EXCEPT ![k] = IF Len(arg[k]) = 1 THEN "drop" ELSE "erase"]
        /\ UNCHANGED <<service, subscribe, toReg, link>>
    BY <1>7 DEF PublishOffline
  <2>2. arg[k] \in Seq(Entries) /\ arg[k] # <<>>
    BY <2>1 DEF ListedInv, HandlerInv, Erasing
  <2>3. arg[k][1] \in Entries
    BY <2>2
  <2>4. arg[k][1].name \in Services /\ Addr(k) \in Addrs
    BY <2>3 DEF Entries, Conns, Addr
  <2>5. PICK s \in {arg[k][1].name, None} : SendPublication(s, FALSE, Addr(k))
    BY <1>7 DEF PublishOffline
  <2>6. toPool' \in Seq(Lists \cup Publications \cup Acks)
    BY <2>4, <2>5, SendType
  <2>7. \A j \in Conns : rpc'[j] = "online" => arg'[j] # <<>>
    BY <2>1 DEF ListedInv, HandlerInv
  <2> QED
    BY <2>1, <2>6, <2>7
<1>8. ASSUME NEW k \in Conns, DropAddress(k) PROVE RegistryInv'
  BY <1>8 DEF DropAddress, ListedInv, HandlerInv
<1>9. ASSUME ServeConsumer PROVE RegistryInv'
  <2> DEFINE m == Head(toReg)
             M == Lists \cup Publications \cup Acks
  <2>1. /\ toReg # <<>> /\ toReg' = Tail(toReg)
        /\ UNCHANGED <<rpc, arg, mutex, service, link>>
    BY <1>9 DEF ServeConsumer
  <2>2. m \in Requests /\ toReg' \in Seq(Requests)
    BY <2>1
  <2>3. m.type # "ack" => m.name \in Services
    BY <2>2 DEF Requests
  <2> HIDE DEF m
  <2>4. CASE m.type = "discover" /\ toPool' = Append(toPool, Answer(m.name, Found(m.name)))
             /\ UNCHANGED subscribe
    <3>1. Found(m.name) \in Seq(Addrs)
      BY FoundType DEF ListedInv, HandlerInv
    <3>2. Answer(m.name, Found(m.name)) \in M
      BY <2>3, <2>4, <3>1 DEF Answer, Lists
    <3>3. toPool' \in Seq(M)
      <4> HIDE DEF M
      <4> QED
        BY <2>4, <3>2 DEF M
    <3> QED
      BY <2>1, <2>2, <2>4, <3>3
  <2>5. CASE m.type = "subscribe" /\ subscribe' = Append(subscribe, m.name)
             /\ toPool' = Append(toPool, Ack)
    <3>1. Ack \in M /\ m.name \in Services
      BY <2>3, <2>5 DEF Ack, Acks
    <3>2. toPool' \in Seq(M)
      <4> HIDE DEF M
      <4> QED
        BY <2>5, <3>1 DEF M
    <3>3. subscribe' \in Seq(Services)
      BY <2>5, <3>1
    <3> QED
      BY <2>1, <2>2, <3>2, <3>3
  <2>6. CASE UNCHANGED <<subscribe, toPool>>
    BY <2>1, <2>2, <2>6
  <2> QED
    BY <1>9, <2>4, <2>5, <2>6 DEF ServeConsumer, m
<1> QED
  BY <1>1, <1>2, <1>3, <1>4, <1>5, <1>6, <1>7, <1>8, <1>9 DEF RegistryNext, HandlerStep

\* The end of a call in call().
LEMMA ReturnTypes ==
    ASSUME CallerInv, NEW c \in Callers, return(c)
    PROVE  /\ pc' \in [Callers \cup {"send", "recv", "user"} -> Labels]
           /\ \A d \in Callers : pc'[d] # "idle" => pc[d] # "idle"
           /\ connMutex' = None /\ pc'["recv"] = pc["recv"]
  BY PoolAssumption DEF CallerInv, return, goto, Labels

\* A push takes channel_ to its capacity and no further.
LEMMA PushTypes ==
    ASSUME CacheInv, NEW m \in Requests, push(m)
    PROVE  channel' \in Seq(Requests) /\ Len(channel') <= Capacity
<1>1. channel \in Seq(Requests) /\ Len(channel) <= Capacity
  BY DEF CacheInv
<1>2. CASE channel' = channel
  BY <1>1, <1>2
<1>3. CASE Len(channel) < Capacity /\ channel' = Append(channel, m)
  <2>1. channel' \in Seq(Requests) /\ Len(channel') = Len(channel) + 1 /\ Len(channel) \in Nat
    BY <1>1, <1>3
  <2> QED
    BY <1>3, <2>1 DEF Capacity
<1> QED
  BY <1>2, <1>3 DEF push

\* A step of call() keeps the types of the pool.
LEMMA CallTypes ==
    ASSUME CallerInv, CacheInv, NEW c \in Callers, Call(c) \/ CallStep(c)
    PROVE  CallerInv' /\ CacheInv'
<1>0. c # "recv" /\ "recv" \in Callers \cup {"send", "recv", "user"}
  BY PoolAssumption
<1>1. CASE Call(c)
  BY <1>0, <1>1, PoolAssumption DEF Call, CallerInv, CacheInv, goto, Labels
<1>2. CASE Enter(c)
  BY <1>0, <1>2 DEF Enter, CallerInv, CacheInv, goto, Labels
<1>3. CASE Invoke(c)
  <2>1. CASE return(c)
    BY <1>3, <2>1, ReturnTypes DEF Invoke, CallerInv, CacheInv
  <2>2. CASE (\E l \in {"remove", "hung"} : goto(c, l)) /\ UNCHANGED connMutex
    BY <1>0, <1>3, <2>2 DEF Invoke, CallerInv, CacheInv, goto, Labels
  <2> QED
    BY <1>3, <2>1, <2>2 DEF Invoke
<1>4. CASE RemoveDead(c)
  <2>1. /\ pc[c] = "remove" /\ pc' = [pc EXCEPT ![c] = "look"] /\ connMutex' = c
        /\ conns' = [conns EXCEPT ![name[c]] = None]
        /\ UNCHANGED <<name, used, subMutex, methodMap, box, handles, channel, closed, msg>>
    BY <1>4 DEF RemoveDead, goto
  <2>2. CallerInv'
    BY <2>1 DEF CallerInv, Labels
  <2>3. name[c] \in Services /\ addrs[name[c]] \in Seq(Addrs \cup {None})
    BY <2>1 DEF CallerInv, CacheInv
  <2>4. addrs' \in [Services -> Seq(Addrs \cup {None})]
    <3> DEFINE q == addrs[name[c]]
               Without(a) == IF Contains(q, a)
                             THEN RemoveAt(q, CHOOSE i \in DOMAIN q :
                                     q[i] = a /\ \A j \in 1 .. i - 1 : q[j] # a)
                             ELSE q
    <3>1. \A a : Without(a) \in Seq(Addrs \cup {None})
      BY <2>3, RemoveFirstType
    <3>2. \E a : addrs' = [addrs EXCEPT ![name[c]] = Without(a)]
      BY <1>4, Zenon DEF RemoveDead
    <3> HIDE DEF Without
    <3> QED
      BY <2>3, <3>1, <3>2 DEF CacheInv
  <2>5. CacheInv'
    BY <1>0, <2>1, <2>3, <2>4 DEF CallerInv, CacheInv
  <2> QED
    BY <2>2, <2>5
<1>5. CASE Look(c)
  <2>1. /\ pc[c] = "look"
        /\ UNCHANGED <<name, used, subMutex, conns, addrs, box, handles, channel, closed, msg>>
    BY <1>5 DEF Look
  <2>2. CASE return(c) /\ UNCHANGED methodMap
    BY <2>1, <2>2, ReturnTypes DEF CallerInv, CacheInv
  <2>3. CASE goto(c, "connect") /\ UNCHANGED <<connMutex, methodMap>>
    BY <1>0, <2>1, <2>3 DEF CallerInv, CacheInv, goto, Labels
  <2>4. CASE /\ methodMap' = IF methodMap[name[c]] = None
                               THEN [methodMap EXCEPT ![name[c]] = c] ELSE methodMap
             /\ goto(c, "ask") /\ UNCHANGED connMutex
    BY <1>0, <2>1, <2>4 DEF CallerInv, CacheInv, goto, Labels
  <2> QED
    BY <1>5, <2>2, <2>3, <2>4 DEF Look
<1>6. CASE Ask(c)
  <2>1. /\ pc[c] = "ask" /\ pc' = [pc EXCEPT ![c] = "await"] /\ push(Discover(name[c]))
        /\ UNCHANGED <<name, used, connMutex, subMutex, conns, addrs, methodMap, box, handles,
                       closed, msg>>
    BY <1>6 DEF Ask, goto
  <2>2. Discover(name[c]) \in Requests
    BY <2>1 DEF CallerInv, Discover, Requests
  <2>3. channel' \in Seq(Requests) /\ Len(channel') <= Capacity
    BY <2>1, <2>2, PushTypes
  <2> QED
    BY <1>0, <2>1, <2>3 DEF CallerInv, CacheInv, Labels
<1>7. CASE Discovered(c)
  <2> DEFINE list == box[c][1]
  <2>1. /\ pc[c] = "await" /\ box[c] # <<>> /\ box' = [box EXCEPT ![c] = <<>>]
        /\ methodMap' = [methodMap EXCEPT ![name[c]] = None]
        /\ UNCHANGED <<name, used, subMutex, conns, handles, channel, closed, msg>>
    BY <1>7 DEF Discovered
  <2>2. name[c] \in Services
    BY <2>1 DEF CallerInv
  <2>3. list \in Seq(Addrs)
    BY <2>1 DEF CallerInv
  <2>4. PICK found \in answers(list) :
           /\ addrs' = [addrs EXCEPT ![name[c]] = found]
           /\ IF found = <<>> THEN return(c)
              ELSE /\ goto(c, IF name[c] \in handles THEN "connect" ELSE "subscribe")
                   /\ UNCHANGED connMutex
    BY <1>7 DEF Discovered
  <2>5. found \in Seq(Addrs \cup {None})
    <3> HIDE DEF list
    <3>1. /\ list \in Seq(Addrs \cup {None}) /\ <<>> \in Seq(Addrs \cup {None})
          /\ <<None>> \in Seq(Addrs \cup {None})
      BY <2>3
    <3>2. found = <<>> \/ found = <<None>> \/ found = list
      BY <2>4 DEF answers
    <3> QED
      BY <3>1, <3>2
  <2>6. addrs' \in [Services -> Seq(Addrs \cup {None})]
    BY <2>2, <2>4, <2>5 DEF CacheInv
  <2>7. /\ box' \in [Callers -> {<<>>} \cup {<<as>> : as \in Seq(Addrs)}]
        /\ methodMap' \in [Services -> Callers \cup {None}]
    BY <2>1, <2>2 DEF CallerInv
  <2>8. CASE return(c)
    BY <2>1, <2>6, <2>7, <2>8, ReturnTypes DEF CallerInv, CacheInv
  <2>9. CASE /\ goto(c, IF name[c] \in handles THEN "connect" ELSE "subscribe")
             /\ UNCHANGED connMutex
    BY <1>0, <2>1, <2>6, <2>7, <2>9 DEF CallerInv, CacheInv, goto, Labels
  <2> QED
    BY <2>4, <2>8, <2>9
<1>8. CASE SubscribeKey(c)
  BY <1>0, <1>8 DEF SubscribeKey, CallerInv, CacheInv, goto, Labels
<1>9. CASE SubscribePush(c)
  <2>1. /\ pc[c] = "subpush" /\ pc' = [pc EXCEPT ![c] = "connect"] /\ push(Subscribe(name[c]))
        /\ subMutex' = None
        /\ UNCHANGED <<name, used, connMutex, conns, addrs, methodMap, box, handles, closed, msg>>
    BY <1>9 DEF SubscribePush, goto
  <2>2. Subscribe(name[c]) \in Requests
    BY <2>1 DEF CallerInv, Subscribe, Requests
  <2>3. channel' \in Seq(Requests) /\ Len(channel') <= Capacity
    BY <2>1, <2>2, PushTypes
  <2> QED
    BY <1>0, <2>1, <2>3 DEF CallerInv, CacheInv, Labels
<1>10. CASE Connect(c)
  <2>1. /\ pc[c] = "connect"
        /\ UNCHANGED <<name, used, subMutex, addrs, methodMap, box, handles, channel, closed, msg>>
    BY <1>10 DEF Connect
  <2>2. CASE return(c) /\ UNCHANGED conns
    BY <2>1, <2>2, ReturnTypes DEF CallerInv, CacheInv
  <2>3. ASSUME NEW a, isUp(a),
               conns' = [conns EXCEPT ![name[c]] = IF @ = None THEN a ELSE @],
               connMutex' = None, goto(c, "first")
        PROVE  CallerInv' /\ CacheInv'
    <3>1. a \in Addrs /\ name[c] \in Services
      BY <2>1, <2>3 DEF isUp, Conns, CallerInv
    <3> QED
      BY <1>0, <2>1, <2>3, <3>1 DEF CallerInv, CacheInv, goto, Labels
  <2> QED
    BY <1>10, <2>2, <2>3 DEF Connect
<1>11. CASE FirstCall(c)
  <2>1. CASE return(c)
    BY <1>11, <2>1, ReturnTypes DEF FirstCall, CallerInv, CacheInv
  <2>2. CASE goto(c, "hung") /\ UNCHANGED connMutex
    BY <1>0, <1>11, <2>2 DEF FirstCall, CallerInv, CacheInv, goto, Labels
  <2> QED
    BY <1>11, <2>1, <2>2 DEF FirstCall
<1> QED
  BY <1>1, <1>2, <1>3, <1>4, <1>5, <1>6, <1>7, <1>8, <1>9, <1>10, <1>11 DEF CallStep

\* handleSend and handleRecv, close() and the end of the registry keep the types.
LEMMA FiberTypes ==
    ASSUME PoolInv, HandleSend \/ RecvStep \/ RegistryEnds \/ Close("user")
    PROVE  PoolInv'
<1> USE DEF PoolInv
<1>0. /\ "recv" \notin Callers /\ "send" \notin Callers /\ "user" \notin Callers
      /\ {"recv", "send", "user"} \subseteq Callers \cup {"send", "recv", "user"}
  BY PoolAssumption
<1> DEFINE M == Lists \cup Publications \cup Acks
<1>1. CASE HandleSend
  <2>1. /\ channel # <<>> /\ channel' = Tail(channel)
        /\ toReg' = IF link = "up" THEN Append(toReg, Head(channel)) ELSE toReg
        /\ UNCHANGED <<rpc, arg, mutex, service, subscribe, toPool, link, name, used, connMutex,
                       subMutex, conns, addrs, methodMap, box, handles, closed, msg>>
    BY <1>1 DEF HandleSend
  <2>2. pc' = pc \/ pc' = [pc EXCEPT !["send"] = "spin"]
    BY <1>1 DEF HandleSend, goto
  <2>3. /\ Head(channel) \in Requests /\ channel' \in Seq(Requests)
        /\ Len(channel') = Len(channel) - 1 /\ Len(channel) \in Nat
    BY <2>1 DEF CacheInv
  <2>4. toReg' \in Seq(Requests)
    BY <2>1, <2>3 DEF RegistryInv
  <2>5. Len(channel') <= Capacity
    BY <2>3 DEF CacheInv, Capacity
  <2>6. /\ pc' \in [Callers \cup {"send", "recv", "user"} -> Labels]
        /\ \A c \in Callers : pc'[c] = pc[c]
        /\ pc'["recv"] = pc["recv"]
    BY <1>0, <2>2 DEF CallerInv, Labels
  <2>7. RegistryInv'
    BY <2>1, <2>4 DEF RegistryInv
  <2>8. CallerInv'
    BY <2>1, <2>6 DEF CallerInv
  <2>9. CacheInv'
    BY <2>1, <2>3, <2>5, <2>6 DEF CacheInv
  <2> QED
    BY <2>7, <2>8, <2>9
<1>2. CASE HandleRecv
  <2>1. UNCHANGED <<rpc, arg, mutex, service, subscribe, toReg, link, name, used, connMutex,
                    subMutex, conns, addrs, methodMap, handles, channel, closed>>
    BY <1>2 DEF HandleRecv
  <2>2. CASE toPool # <<>>
    <3> DEFINE m == Head(toPool)
    <3>1. m \in M /\ Tail(toPool) \in Seq(M)
      <4> HIDE DEF M
      <4> QED
        BY <2>2 DEF RegistryInv, M
    <3>2. /\ toPool' = Tail(toPool)
          /\ msg' = (IF m.type = "publish" THEN m ELSE None)
          /\ pc' = [pc EXCEPT !["recv"] = IF m.type = "publish" THEN "publish" ELSE "idle"]
          /\ IF m.type = "list" THEN handleServiceDiscoverResponse(m) ELSE UNCHANGED box
      BY <1>2, <2>2 DEF HandleRecv, goto
    <3>3. m.type = "publish" => m \in Publications
      BY <3>1 DEF Lists, Acks
    <3>4. m.type = "list" => m.name \in Services /\ m.addrs \in Seq(Addrs)
      BY <3>1 DEF Lists, Publications, Acks
    <3> HIDE DEF m
    <3>5. box' \in [Callers -> {<<>>} \cup {<<as>> : as \in Seq(Addrs)}]
      <4>1. CASE m.type = "list" /\ methodMap[m.name] # None
        <5>1. methodMap[m.name] \in Callers
          BY <3>4, <4>1 DEF CallerInv
        <5>2. box' = [box EXCEPT ![methodMap[m.name]] = <<m.addrs>>]
          BY <3>2, <4>1 DEF handleServiceDiscoverResponse
        <5> QED
          BY <3>4, <4>1, <5>1, <5>2 DEF CallerInv
      <4>2. CASE ~(m.type = "list" /\ methodMap[m.name] # None)
        BY <3>2, <4>2 DEF handleServiceDiscoverResponse, CallerInv
      <4> QED
        BY <4>1, <4>2
    <3>6. /\ pc' \in [Callers \cup {"send", "recv", "user"} -> Labels]
          /\ \A c \in Callers : pc'[c] = pc[c]
          /\ pc'["recv"] = IF m.type = "publish" THEN "publish" ELSE "idle"
      BY <1>0, <3>2 DEF CallerInv, Labels
    <3>7. RegistryInv'
      BY <2>1, <3>1, <3>2 DEF RegistryInv
    <3>8. CallerInv'
      BY <2>1, <3>5, <3>6 DEF CallerInv
    <3>9. CacheInv'
      BY <2>1, <3>2, <3>3, <3>6 DEF CacheInv
    <3> QED
      BY <3>7, <3>8, <3>9
  <2>3. CASE toPool = <<>>
    <3>1. pc' = [pc EXCEPT !["recv"] = "close"] /\ UNCHANGED <<toPool, msg, box>>
      BY <1>2, <2>3 DEF HandleRecv, goto
    <3> QED
      BY <1>0, <2>1, <3>1 DEF RegistryInv, CallerInv, CacheInv, Labels
  <2> QED
    BY <2>2, <2>3
<1>3. CASE HandlePublish
  BY <1>0, <1>3 DEF HandlePublish, regVars, RegistryInv, CallerInv, CacheInv, goto, Labels
<1>4. CASE OnPublication
  <2> DEFINE s == msg.name
             a == msg.addr
             q == addrs[s]
             new == IF ~msg.online THEN Append(q, a)
                    ELSE IF Contains(q, a)
                         THEN RemoveAt(q, CHOOSE i \in DOMAIN q :
                                 q[i] = a /\ \A j \in 1 .. i - 1 : q[j] # a)
                         ELSE q
  <2>1. /\ pc["recv"] = "callback" /\ pc' = [pc EXCEPT !["recv"] = "ack"] /\ subMutex' = None
        /\ UNCHANGED <<rpc, arg, mutex, service, subscribe, toReg, toPool, link, name, used,
                       connMutex, conns, methodMap, box, handles, channel, closed, msg>>
    BY <1>4 DEF OnPublication, goto, regVars
  <2>2. msg \in Publications
    BY <2>1 DEF CacheInv
  <2>3. a \in Addrs
    BY <2>2 DEF Publications
  <2>4. s \in Services => new \in Seq(Addrs \cup {None})
    <3>1. s \in Services => q \in Seq(Addrs \cup {None})
      BY DEF CacheInv
    <3>2. s \in Services => Append(q, a) \in Seq(Addrs \cup {None})
      BY <2>3, <3>1
    <3> QED
      BY <3>1, <3>2, RemoveFirstType
  <2>5. addrs' = [addrs EXCEPT ![s] = new]
    BY <1>4, Zenon DEF OnPublication
  <2> HIDE DEF s, new
  <2>6. addrs' \in [Services -> Seq(Addrs \cup {None})]
    BY <2>4, <2>5 DEF CacheInv
  <2> QED
    BY <1>0, <2>1, <2>6 DEF RegistryInv, CallerInv, CacheInv, Labels
<1>5. CASE PublishAck
  <2>1. /\ pc["recv"] = "ack" /\ push(Ack) /\ pc' = [pc EXCEPT !["recv"] = "idle"]
        /\ UNCHANGED <<rpc, arg, mutex, service, subscribe, toReg, toPool, link, name, used,
                       connMutex, subMutex, conns, addrs, methodMap, box, handles, closed>>
    BY <1>5 DEF PublishAck, goto, regVars
  <2>2. Ack \in Requests
    BY DEF Ack, Requests
  <2>3. channel' \in Seq(Requests) /\ Len(channel') <= Capacity
    BY <2>1, <2>2, PushTypes
  <2> QED
    BY <1>0, <2>1, <2>3 DEF RegistryInv, CallerInv, CacheInv, Labels
<1>6. ASSUME NEW f \in {"recv", "user"}, Close(f) PROVE PoolInv'
  <2>1. /\ channel' = <<>> /\ toReg' = <<>> /\ toPool' = <<>> /\ closed' = TRUE
        /\ link' = (IF link = "up" THEN "down" ELSE link) /\ pc' = [pc EXCEPT ![f] = "done"]
        /\ UNCHANGED <<rpc, arg, mutex, service, subscribe, name, used, connMutex, subMutex,
                       conns, addrs, methodMap, box, handles, msg>>
    BY <1>6 DEF Close, goto
  <2>2. Len(channel') <= Capacity /\ channel' \in Seq(Requests)
    BY <2>1 DEF Capacity
  <2>3. /\ pc' \in [Callers \cup {"send", "recv", "user"} -> Labels]
        /\ \A c \in Callers : pc'[c] = pc[c]
        /\ pc'["recv"] \in {"done", pc["recv"]}
    BY <1>0, <2>1 DEF CallerInv, Labels
  <2>4. RegistryInv'
    BY <2>1 DEF RegistryInv
  <2>5. CallerInv'
    BY <2>1, <2>3 DEF CallerInv
  <2>6. CacheInv'
    BY <2>1, <2>2, <2>3 DEF CacheInv
  <2> QED
    BY <2>4, <2>5, <2>6
<1>7. CASE RegistryEnds
  BY <1>7 DEF RegistryEnds, poolVars, RegistryInv, CallerInv, CacheInv
<1> QED
  BY <1>1, <1>2, <1>3, <1>4, <1>5, <1>6, <1>7 DEF RecvStep

\* Every step keeps the types.
LEMMA PoolStep == ListedInv /\ PoolInv /\ [Next]_vars => PoolInv'
<1> SUFFICES ASSUME ListedInv, PoolInv, [Next]_vars PROVE PoolInv'
  OBVIOUS
<1>1. CASE RegistryNext /\ UNCHANGED poolVars
  <2>1. RegistryInv'
    BY <1>1, RegistryTypes DEF PoolInv
  <2> QED
    BY <1>1, <2>1 DEF PoolInv, poolVars, CallerInv, CacheInv
<1>2. ASSUME NEW c \in Callers, Call(c) \/ CallStep(c) PROVE PoolInv'
  <2>1. CallerInv' /\ CacheInv'
    BY <1>2, CallTypes DEF PoolInv
  <2>2. UNCHANGED regVars
    BY <1>2 DEF Call, CallStep, Enter, Invoke, RemoveDead, Look, Ask, Discovered,
       SubscribeKey, SubscribePush, Connect, FirstCall
  <2> QED
    BY <2>1, <2>2 DEF PoolInv, RegistryInv, regVars
<1>3. CASE HandleSend \/ RecvStep \/ RegistryEnds \/ Close("user")
  BY <1>3, FiberTypes
<1>4. CASE UNCHANGED vars
  BY <1>4 DEF vars, regVars, poolVars, PoolInv, RegistryInv, CallerInv, CacheInv
<1> QED
  BY <1>1, <1>2, <1>3, <1>4 DEF Next

\* Type correctness of the pool and the registry, channel_ within its capacity whoever
\* pushes, for any servers, services, callers and calls (rpc_connection_pool.cc:6,
\* rpc_connection_pool.h:105-137).
THEOREM PoolTypeCorrect == Spec => []TypeOK
<1>1. ASSUME ListedInv, PoolInv PROVE TypeOK
  <2> USE <1>1 DEF ListedInv, PoolInv
  <2>1. RegistryTypeOK
    BY DEF RegistryTypeOK, HandlerInv, RegistryInv, Entries
  <2>2. ASSUME NEW c \in Callers PROVE Len(box[c]) <= 1
    <3>1. box[c] = <<>> \/ \E as \in Seq(Addrs) : box[c] = <<as>>
      BY DEF CallerInv
    <3>2. CASE box[c] = <<>>
      BY <3>2
    <3>3. ASSUME NEW as, box[c] = <<as>> PROVE Len(box[c]) <= 1
      <4>1. Len(<<as>>) = 1
        OBVIOUS
      <4> QED
        BY <3>3, <4>1
    <3> QED
      BY <3>1, <3>2, <3>3
  <2> QED
    BY <2>1, <2>2 DEF TypeOK, CallerInv, CacheInv
<1> QED
  BY <1>1, ListedInit, ListedStep, PoolInit, PoolStep, PTL DEF Spec
=============================================================================
