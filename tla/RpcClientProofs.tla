-------------------------- MODULE RpcClientProofs --------------------------
(***************************************************************************)
(* Machine-checked proofs about RpcClient, for any finite set of callers,  *)
(* any number of calls and publications and any time limits: types and the *)
(* bound of the ids.  For one caller, the exactness of response_handle_,   *)
(* and, without time limits, that every call gets its own answer.          *)
(***************************************************************************)
EXTENDS RpcClient, FiniteSetTheorems, TLAPS

CallerLabels == {"idle", "register", "bump", "push", "wait", "erase"}
FiberLabels == {"idle", "read", "loop", "close", "done", "spin", "deliver", "stuck", "publish",
                "ack", "wake"}

\* Where the fibers are; a caller inside call() has begun one.
FiberInv ==
    /\ pc \in [Fibers -> CallerLabels \cup FiberLabels]
    /\ \A c \in Callers : pc[c] \in CallerLabels
    /\ \A f \in Fibers \ Callers : pc[f] \in FiberLabels
    /\ num \in [Callers -> 0 .. MaxCalls]
    /\ \A c \in Callers : pc[c] # "idle" => num[c] >= 1
    /\ mutex \in Callers \cup Closers \cup {None}

\* The calls that have moved sequence_id_ on, or ended without an id.
Numbered == {k \in Calls : \/ k[2] < num[k[1]]
                           \/ k[2] = num[k[1]] /\ pc[k[1]] \notin {"register", "bump"}}

\* No id that is in use anywhere is larger than their number: sequence_id_ goes back to
\* the id of every answer and on by one per call.
Given == Cardinality(Numbered)

\* The messages whose ids are at most n; those of calls name their call.
MsgsUpTo(n) ==
    {m \in [type : {"method", "heartbeat", "subscribe", "publish", "ack"}, id : 0 .. n,
            call : Calls \cup {None}] : m.type = "method" => m.call \in Calls}

IdInv ==
    /\ seq \in 0 .. Given /\ id \in [Callers -> 0 .. Given]
    /\ channel \in Seq(MsgsUpTo(Given))
    /\ toServer \in Seq(MsgsUpTo(Given)) /\ toClient \in Seq(MsgsUpTo(Given))
    /\ pc["recv"] \in {"deliver", "stuck"} => hand \in MsgsUpTo(Given) /\ hand.type = "method"

BoxValues == {<<>>} \cup {<<x>> : x \in Calls \cup {Closed}}

DataInv ==
    /\ table \in [Ids -> Calls \cup {None}] /\ it \in [Callers -> Calls \cup {None}]
    /\ box \in [Calls -> BoxValues]
    /\ res \in [Calls -> Calls \cup {Closed, TimedOut, None}]
    /\ Len(channel) <= Capacity /\ (closed => channel = <<>>)
    /\ closed \in BOOLEAN /\ heart \in BOOLEAN /\ timer \in BOOLEAN /\ subs \in BOOLEAN
    /\ sock \in {"up", "eof", "closed"} /\ server \in {"serving", "left", "hung"}

ClientInv == FiberInv /\ IdInv /\ DataInv

\* The fibers of the client are no callers.
LEMMA FibersApart ==
    /\ "recv" \notin Callers /\ "user" \notin Callers /\ "heart" \notin Callers
    /\ "send" \notin Callers /\ "sub" \notin Callers
    /\ {"recv", "user", "heart", "send", "sub"} \subseteq Fibers
    /\ Callers \subseteq Fibers /\ Closers \subseteq Fibers /\ Closers \cap Callers = {}
    /\ Closers \subseteq {"user", "recv", "heart"}
  BY ClientAssumption DEF Fibers, Closers

\* There are as many calls as ids, and one more id.
LEMMA CallsFinite ==
    /\ IsFiniteSet(Calls) /\ Cardinality(Calls) = Cardinality(Callers) * MaxCalls
    /\ Cardinality(Calls) \in Nat /\ Ids = 0 .. Cardinality(Calls)
<1>1. IsFiniteSet(1 .. MaxCalls) /\ Cardinality(1 .. MaxCalls) = MaxCalls
  BY ClientAssumption, FS_Interval
<1>2. IsFiniteSet(Calls) /\ Cardinality(Calls) = Cardinality(Callers) * MaxCalls
  BY <1>1, ClientAssumption, FS_Product DEF Calls
<1> QED
  BY <1>2, FS_CardinalityType DEF Ids

\* The number of some calls is a number, and at most that of all calls.
LEMMA SomeCalls ==
    ASSUME NEW S \in SUBSET Calls
    PROVE  /\ IsFiniteSet(S) /\ Cardinality(S) \in Nat
           /\ 0 .. Cardinality(S) \subseteq Ids
<1>1. IsFiniteSet(S) /\ Cardinality(S) <= Cardinality(Calls)
  BY CallsFinite, FS_Subset
<1>2. Cardinality(S) \in Nat
  BY <1>1, FS_CardinalityType
<1> QED
  BY <1>1, <1>2, CallsFinite

\* The numbered calls are some of the calls.
LEMMA GivenType == IsFiniteSet(Numbered) /\ Given \in Nat /\ 0 .. Given \subseteq Ids
<1>1. Numbered \in SUBSET Calls
  BY DEF Numbered
<1> QED
  BY <1>1, SomeCalls DEF Given

\* Append keeps the elements of a sequence in a set.
LEMMA AppendType == ASSUME NEW S, NEW q \in Seq(S), NEW x \in S PROVE Append(q, x) \in Seq(S)
  OBVIOUS

\* Messages stay within a bound that grows.
LEMMA MsgsGrow ==
    ASSUME NEW m \in Nat, NEW n \in Nat, m <= n
    PROVE  MsgsUpTo(m) \subseteq MsgsUpTo(n) /\ \A q \in Seq(MsgsUpTo(m)) : q \in Seq(MsgsUpTo(n))
<1>1. MsgsUpTo(m) \subseteq MsgsUpTo(n)
  BY DEF MsgsUpTo
<1> QED
  BY <1>1

\* The initial state is well typed.
LEMMA ClientInit == Init => ClientInv
<1> SUFFICES ASSUME Init PROVE ClientInv
  OBVIOUS
<1>1. FiberInv
  BY FibersApart, ClientAssumption
     DEF Init, FiberInv, CallerLabels, FiberLabels, Fibers, Closers
<1>2. IdInv
  <2>1. 0 \in 0 .. Given
    BY GivenType
  <2>2. pc["recv"] = "read"
    BY FibersApart DEF Init
  <2> QED
    BY <2>1, <2>2 DEF Init, IdInv
<1>3. DataInv
  <2>1. channel = <<>> /\ Len(channel) <= Capacity
    BY DEF Init, Capacity
  <2>2. box \in [Calls -> BoxValues]
    BY DEF Init, BoxValues
  <2> QED
    BY <2>1, <2>2 DEF Init, DataInv
<1> QED
  BY <1>1, <1>2, <1>3 DEF ClientInv

-----------------------------------------------------------------------------
\* Every step keeps the fibers where they can be.
LEMMA FiberStep == FiberInv /\ [Next]_vars => FiberInv'
<1> SUFFICES ASSUME FiberInv, [Next]_vars PROVE FiberInv'
  OBVIOUS
<1> USE FibersApart DEF FiberInv, CallerLabels, FiberLabels, goto
<1>1. ASSUME NEW c \in Callers, Call(c) PROVE FiberInv'
  BY <1>1, ClientAssumption DEF Call, client
<1>2. ASSUME NEW c \in Callers, Register(c) PROVE FiberInv'
  BY <1>2 DEF Register
<1>3. ASSUME NEW c \in Callers, Bump(c) PROVE FiberInv'
  BY <1>3 DEF Bump, callVars
<1>4. ASSUME NEW c \in Callers, PushRequest(c) PROVE FiberInv'
  BY <1>4 DEF PushRequest, Push, client, callVars
<1>5. ASSUME NEW c \in Callers, Receive(c) PROVE FiberInv'
  BY <1>5 DEF Receive, client
<1>6. ASSUME NEW c \in Callers, Timeout(c) PROVE FiberInv'
  BY <1>6 DEF Timeout, client
<1>7. ASSUME NEW c \in Callers, Erase(c) PROVE FiberInv'
  BY <1>7 DEF Erase
<1>8. CASE Subscribe
  BY <1>8 DEF Subscribe, Push, client, callVars
<1>9. CASE HandleSend
  BY <1>9 DEF HandleSend, client, callVars
<1>10. CASE Recv
  <2>1. /\ \E l \in {"deliver", "publish", "read"} : pc' = [pc EXCEPT !["recv"] = l]
        /\ UNCHANGED <<mutex, num>>
    BY <1>10 DEF Recv, callVars
  <2> QED
    BY <2>1
<1>11. CASE RecvEof \/ HandlePublish \/ PushAck
  BY <1>11 DEF RecvEof, HandlePublish, PushAck, Push, client, callVars
<1>12. CASE Deliver \/ DeliverResumes
  BY <1>12 DEF Deliver, DeliverResumes, Closers
<1>13. CASE Beat \/ BeatMissed
  BY <1>13 DEF Beat, BeatMissed, Push, client, callVars
<1>14. ASSUME NEW f \in Closers, CloseBegin(f) PROVE FiberInv'
  BY <1>14 DEF CloseBegin, AfterClose, callVars
<1>15. ASSUME NEW f \in Closers, CloseWake(f) PROVE FiberInv'
  BY <1>15 DEF CloseWake
<1>16. ASSUME NEW f \in Closers, CloseEnd(f) PROVE FiberInv'
  BY <1>16 DEF CloseEnd, AfterClose, callVars
<1>17. CASE Serve \/ Publish \/ AliveExpires \/ ServerEnds \/ ServerHangs
  BY <1>17 DEF Serve, Publish, AliveExpires, ServerEnds, ServerHangs, client, callVars
<1>18. CASE UNCHANGED vars
  BY <1>18 DEF vars, client, callVars
<1> QED
  BY <1>1, <1>2, <1>3, <1>4, <1>5, <1>6, <1>7, <1>8, <1>9, <1>10, <1>11, <1>12, <1>13, <1>14,
     <1>15, <1>16, <1>17, <1>18 DEF Next, CallStep, RecvStep, CloseStep

\* Only a step of a caller changes its position and the number of its calls.
LEMMA CallerSteps ==
    ASSUME FiberInv, [Next]_vars
    PROVE  \/ \E c \in Callers : Call(c) \/ Timeout(c) \/ CallStep(c)
           \/ num' = num /\ \A c \in Callers : pc'[c] = pc[c]
<1> USE FibersApart DEF FiberInv, goto
<1>8. CASE Subscribe
  BY <1>8 DEF Subscribe, Push, callVars
<1>9. CASE HandleSend
  BY <1>9 DEF HandleSend, callVars
<1>10. CASE Recv
  <2>1. num' = num /\ \E l : pc' = [pc EXCEPT !["recv"] = l]
    BY <1>10 DEF Recv, callVars
  <2> QED
    BY <2>1
<1>11. CASE RecvEof \/ HandlePublish \/ PushAck
  BY <1>11 DEF RecvEof, HandlePublish, PushAck, Push, callVars
<1>12. CASE Deliver \/ DeliverResumes
  BY <1>12 DEF Deliver, DeliverResumes
<1>13. CASE Beat \/ BeatMissed
  BY <1>13 DEF Beat, BeatMissed, Push, callVars
<1>14. ASSUME NEW f \in Closers, CloseStep(f)
       PROVE  num' = num /\ \A c \in Callers : pc'[c] = pc[c]
  BY <1>14 DEF CloseStep, CloseBegin, CloseWake, CloseEnd, callVars
<1>17. CASE Serve \/ Publish \/ AliveExpires \/ ServerEnds \/ ServerHangs
  BY <1>17 DEF Serve, Publish, AliveExpires, ServerEnds, ServerHangs, callVars
<1>18. CASE UNCHANGED vars
  BY <1>18 DEF vars, callVars
<1> QED
  BY <1>8, <1>9, <1>10, <1>11, <1>12, <1>13, <1>14, <1>17, <1>18 DEF Next, RecvStep

\* The numbered calls grow; sequence_id_++ numbers one more.
LEMMA GivenGrows ==
    ASSUME FiberInv, [Next]_vars
    PROVE  /\ Given' \in Nat /\ Given <= Given' /\ 0 .. Given' \subseteq Ids
           /\ \A c \in Callers : Bump(c) => Given' = Given + 1
<1>1. Given' \in Nat /\ 0 .. Given' \subseteq Ids /\ IsFiniteSet(Numbered')
  <2>1. Numbered' \in SUBSET Calls
    BY DEF Numbered
  <2> QED
    BY <2>1, SomeCalls DEF Given
<1>2. Numbered \subseteq Numbered'
  <2> SUFFICES ASSUME NEW k \in Numbered PROVE k \in Numbered'
    OBVIOUS
  <2>0. /\ k \in Calls /\ k[1] \in Callers /\ k[2] \in 1 .. MaxCalls
        /\ num[k[1]] \in Nat /\ k[2] <= num[k[1]]
        /\ k[2] = num[k[1]] => pc[k[1]] \notin {"register", "bump"}
    BY ClientAssumption DEF Numbered, Calls, FiberInv
  <2>1. ASSUME NEW c \in Callers, Call(c) PROVE k \in Numbered'
    BY <2>0, <2>1, ClientAssumption, FibersApart DEF Call, goto, FiberInv, Numbered
  <2>2. ASSUME NEW c \in Callers, Timeout(c) \/ CallStep(c) PROVE k \in Numbered'
    <3>1. /\ num' = num
          /\ \E l \in CallerLabels : /\ pc' = [pc EXCEPT ![c] = l]
                                     /\ l \notin {"register", "bump"} \/ pc[c] = "register"
      BY <2>2 DEF Timeout, CallStep, Register, Bump, PushRequest, Push, Receive, Erase, goto,
         callVars, CallerLabels
    <3> QED
      BY <2>0, <3>1, FibersApart DEF FiberInv, Numbered
  <2>3. CASE num' = num /\ \A c \in Callers : pc'[c] = pc[c]
    BY <2>0, <2>3 DEF Numbered
  <2> QED
    BY <2>1, <2>2, <2>3, CallerSteps
<1>3. Given <= Given'
  BY <1>1, <1>2, FS_Subset DEF Given
<1>4. ASSUME NEW c \in Callers, Bump(c) PROVE Given' = Given + 1
  <2>1. /\ pc[c] = "bump" /\ pc' = [pc EXCEPT ![c] = "push"] /\ num' = num
    BY <1>4 DEF Bump, goto, callVars
  <2>2. num[c] \in 1 .. MaxCalls /\ current(c) \in Calls
    BY <2>1, ClientAssumption DEF FiberInv, Calls, current
  <2>3. current(c) \notin Numbered
    BY <2>1, <2>2 DEF Numbered, current
  <2>4. Numbered' = Numbered \cup {current(c)}
    <3>1. ASSUME NEW k \in Calls, k # current(c) PROVE k \in Numbered' <=> k \in Numbered
      <4>1. k[1] \in Callers /\ k[2] \in 1 .. MaxCalls /\ k = <<k[1], k[2]>>
        BY DEF Calls
      <4>2. k[1] # c => pc'[k[1]] = pc[k[1]]
        BY <2>1, <4>1, FibersApart DEF FiberInv
      <4>3. k[1] = c => k[2] # num[c]
        BY <3>1, <4>1 DEF current
      <4> QED
        BY <2>1, <4>1, <4>2, <4>3 DEF Numbered
    <3>2. current(c) \in Numbered'
      BY <2>1, <2>2, FibersApart DEF Numbered, current, FiberInv
    <3> QED
      BY <2>2, <3>1, <3>2 DEF Numbered
  <2> QED
    BY <2>3, <2>4, GivenType, FS_AddElement DEF Given
<1> QED
  BY <1>1, <1>3, <1>4

\* A push keeps channel_ well typed and within its capacity.
LEMMA PushKeeps ==
    ASSUME DataInv, NEW n \in Nat, channel \in Seq(MsgsUpTo(n)), NEW m \in MsgsUpTo(n),
           NEW f, NEW l, Push(f, m, l)
    PROVE  /\ channel' \in Seq(MsgsUpTo(n)) /\ Len(channel') <= Capacity
           /\ closed => channel' = <<>>
<1>1. CASE closed
  BY <1>1 DEF Push, DataInv
<1>2. CASE ~closed
  <2>1. Len(channel) < Capacity /\ channel' = Append(channel, m)
    BY <1>2 DEF Push, DataInv
  <2>2. channel' \in Seq(MsgsUpTo(n)) /\ Len(channel') = Len(channel) + 1 /\ Len(channel) \in Nat
    BY <2>1
  <2> QED
    BY <1>2, <2>1, <2>2 DEF Capacity
<1> QED
  BY <1>1, <1>2

\* The messages the client and the server make themselves.
LEMMA OwnMessages ==
    ASSUME NEW n \in Nat, NEW ty \in {"subscribe", "publish", "ack", "heartbeat"}
    PROVE  Request(ty, 0, None) \in MsgsUpTo(n)
  BY DEF Request, MsgsUpTo

\* Every step keeps ids, messages and data well typed.
LEMMA DataStep ==
    ASSUME ClientInv, [Next]_vars
    PROVE  IdInv' /\ DataInv'
<1> DEFINE M == MsgsUpTo(Given')
<1>a. /\ Given \in Nat /\ Given' \in Nat /\ Given <= Given'
      /\ 0 .. Given \subseteq Ids /\ 0 .. Given' \subseteq Ids /\ 0 \in 0 .. Given'
      /\ \A c \in Callers : Bump(c) => Given' = Given + 1
  BY GivenType, GivenGrows DEF ClientInv
<1>b. /\ seq \in 0 .. Given' /\ id \in [Callers -> 0 .. Given']
      /\ channel \in Seq(M) /\ toServer \in Seq(M) /\ toClient \in Seq(M)
      /\ pc["recv"] \in {"deliver", "stuck"} => hand \in M /\ hand.type = "method"
  BY <1>a, MsgsGrow DEF ClientInv, IdInv
<1>c. seq \in Ids
  BY <1>a, <1>b
<1>d. ASSUME NEW c \in Callers, pc[c] # "idle" PROVE current(c) \in Calls
  BY <1>d, ClientAssumption DEF current, Calls, ClientInv, FiberInv
<1>e. FiberInv /\ DataInv
  BY DEF ClientInv
<1>f. \A f \in Fibers : \A l : f # "recv" /\ pc' = [pc EXCEPT ![f] = l] => pc'["recv"] = pc["recv"]
  BY <1>e, FibersApart DEF FiberInv
<1> HIDE DEF M
<1>i. ASSUME /\ UNCHANGED <<seq, id, channel, toServer, toClient, hand>>
             /\ pc'["recv"] \in {pc["recv"], "read", "spin", "done", "wake", "close", "ack", "stuck"}
             /\ pc'["recv"] = "stuck" => pc["recv"] \in {"deliver", "stuck"}
      PROVE  IdInv'
  BY <1>i, <1>b DEF IdInv, M
<1>1. ASSUME NEW c \in Callers, Call(c) PROVE IdInv' /\ DataInv'
  <2>1. /\ UNCHANGED <<client, channel, id, it, box, hand, net, srv>>
        /\ pc' = pc \/ pc' = [pc EXCEPT ![c] = "register"]
        /\ res' = res \/ res' = [res EXCEPT ![<<c, num[c] + 1>>] = Closed]
    BY <1>1 DEF Call, goto
  <2>2. pc'["recv"] = pc["recv"]
    BY <1>f, <2>1, FibersApart
  <2> QED
    BY <1>e, <1>i, <2>1, <2>2 DEF client, net, srv, DataInv
<1>2. ASSUME NEW c \in Callers, Register(c) PROVE IdInv' /\ DataInv'
  <2>1. /\ pc[c] = "register" /\ pc' = [pc EXCEPT ![c] = "bump"]
        /\ id' = [id EXCEPT ![c] = seq]
        /\ table' = IF table[seq] = None THEN [table EXCEPT ![seq] = current(c)] ELSE table
        /\ it' = [it EXCEPT ![c] = table'[seq]]
        /\ UNCHANGED <<seq, channel, closed, heart, timer, box, res, hand, net, srv>>
    BY <1>2 DEF Register, goto
  <2>2. table' \in [Ids -> Calls \cup {None}]
    BY <1>d, <1>e, <2>1 DEF DataInv
  <2>3. it' \in [Callers -> Calls \cup {None}]
    BY <1>c, <1>e, <2>1, <2>2 DEF DataInv
  <2>4. pc'["recv"] = pc["recv"] /\ id' \in [Callers -> 0 .. Given']
    BY <1>b, <1>f, <2>1, FibersApart
  <2>5. IdInv'
    BY <1>b, <2>1, <2>4 DEF IdInv, net, M
  <2> QED
    BY <1>e, <2>1, <2>2, <2>3, <2>5 DEF DataInv, net, srv
<1>3. ASSUME NEW c \in Callers, Bump(c) PROVE IdInv' /\ DataInv'
  <2>1. /\ pc' = [pc EXCEPT ![c] = "push"] /\ seq' \in {seq + 1, id[c] + 1}
        /\ UNCHANGED <<table, channel, closed, heart, timer, callVars, hand, net, srv>>
    BY <1>3 DEF Bump, goto
  <2>2. seq \in 0 .. Given /\ id[c] \in 0 .. Given /\ Given' = Given + 1
    BY <1>3, <1>a DEF ClientInv, IdInv
  <2>3. seq' \in 0 .. Given'
    BY <1>a, <2>1, <2>2
  <2>4. pc'["recv"] = pc["recv"]
    BY <1>f, <2>1, FibersApart
  <2>5. IdInv'
    BY <1>b, <2>1, <2>3, <2>4 DEF IdInv, net, callVars, M
  <2> QED
    BY <1>e, <2>1, <2>5 DEF DataInv, net, srv, callVars
<1>4. ASSUME NEW c \in Callers, PushRequest(c) PROVE IdInv' /\ DataInv'
  <2> DEFINE m == Request("method", id[c], current(c))
  <2>1. /\ pc[c] = "push" /\ pc' = [pc EXCEPT ![c] = "wait"] /\ Push(c, m, "wait")
        /\ UNCHANGED <<client, callVars, hand, net, srv>>
    BY <1>4 DEF PushRequest, Push, goto
  <2>2. m \in M
    BY <1>b, <1>d, <2>1 DEF M, MsgsUpTo, Request
  <2>3. /\ channel' \in Seq(M) /\ Len(channel') <= Capacity /\ (closed => channel' = <<>>)
    <3> HIDE DEF m
    <3> QED
      BY <1>a, <1>b, <1>e, <2>1, <2>2, PushKeeps DEF M
  <2>4. pc'["recv"] = pc["recv"]
    BY <1>f, <2>1, FibersApart
  <2>5. IdInv'
    BY <1>b, <2>1, <2>3, <2>4 DEF IdInv, net, client, callVars, M
  <2> QED
    BY <1>e, <2>1, <2>3, <2>5 DEF DataInv, client, net, srv, callVars
<1>5. ASSUME NEW c \in Callers, Receive(c) PROVE IdInv' /\ DataInv'
  <2> DEFINE k == current(c)
  <2>1. /\ pc[c] = "wait" /\ pc' = [pc EXCEPT ![c] = "erase"] /\ box[k] # <<>>
        /\ res' = [res EXCEPT ![k] = Head(box[k])] /\ box' = [box EXCEPT ![k] = Tail(box[k])]
        /\ UNCHANGED <<client, channel, num, id, it, hand, net, srv>>
    BY <1>5 DEF Receive, goto
  <2>2. k \in Calls
    BY <1>d, <2>1
  <2> HIDE DEF k
  <2>3. PICK x \in Calls \cup {Closed} : box[k] = <<x>>
    BY <1>e, <2>1, <2>2 DEF DataInv, BoxValues
  <2>4. Head(box[k]) = x /\ Tail(box[k]) = <<>>
    BY <2>3
  <2>5. box' \in [Calls -> BoxValues]
    BY <1>e, <2>1, <2>2, <2>4 DEF DataInv, BoxValues
  <2>6. res' \in [Calls -> Calls \cup {Closed, TimedOut, None}]
    BY <1>e, <2>1, <2>2, <2>4 DEF DataInv
  <2>7. pc'["recv"] = pc["recv"]
    BY <1>f, <2>1, FibersApart
  <2>8. IdInv'
    BY <1>i, <2>1, <2>7 DEF client, net
  <2> QED
    BY <1>e, <2>1, <2>5, <2>6, <2>8 DEF DataInv, client, net, srv
<1>6. ASSUME NEW c \in Callers, Timeout(c) PROVE IdInv' /\ DataInv'
  <2>1. /\ pc' = [pc EXCEPT ![c] = "erase"] /\ res' = [res EXCEPT ![current(c)] = TimedOut]
        /\ UNCHANGED <<client, channel, num, id, it, box, hand, net, srv>>
    BY <1>6 DEF Timeout, goto
  <2>2. pc'["recv"] = pc["recv"]
    BY <1>f, <2>1, FibersApart
  <2>3. IdInv'
    BY <1>i, <2>1, <2>2 DEF client, net
  <2> QED
    BY <1>e, <2>1, <2>3 DEF DataInv, client, net, srv
<1>7. ASSUME NEW c \in Callers, Erase(c) PROVE IdInv' /\ DataInv'
  <2>1. /\ pc' = [pc EXCEPT ![c] = "idle"]
        /\ id' = [id EXCEPT ![c] = 0] /\ it' = [it EXCEPT ![c] = None]
        /\ UNCHANGED <<seq, channel, closed, heart, timer, num, box, res, hand, net, srv>>
    BY <1>7 DEF Erase, goto
  <2>2. table' \in [Ids -> Calls \cup {None}]
    BY <1>7, <1>e DEF Erase, DataInv
  <2>3. pc'["recv"] = pc["recv"] /\ id' \in [Callers -> 0 .. Given']
    BY <1>a, <1>b, <1>f, <2>1, FibersApart
  <2>4. IdInv'
    BY <1>b, <2>1, <2>3 DEF IdInv, net, M
  <2> QED
    BY <1>e, <2>1, <2>2, <2>4 DEF DataInv, net, srv
<1>8. CASE Subscribe
  <2> DEFINE m == Request("subscribe", 0, None)
  <2>1. /\ pc' = [pc EXCEPT !["sub"] = "done"] /\ Push("sub", m, "done")
        /\ UNCHANGED <<client, callVars, hand, net, srv>>
    BY <1>8 DEF Subscribe, Push, goto
  <2>2. m \in M
    BY <1>a, OwnMessages DEF M
  <2>3. /\ channel' \in Seq(M) /\ Len(channel') <= Capacity /\ (closed => channel' = <<>>)
    <3> HIDE DEF m
    <3> QED
      BY <1>a, <1>b, <1>e, <2>1, <2>2, PushKeeps DEF M
  <2>4. pc'["recv"] = pc["recv"]
    BY <1>f, <2>1, FibersApart
  <2>5. IdInv'
    BY <1>b, <2>1, <2>3, <2>4 DEF IdInv, net, client, callVars, M
  <2> QED
    BY <1>e, <2>1, <2>3, <2>5 DEF DataInv, client, net, srv, callVars
<1>9. CASE HandleSend
  <2>1. UNCHANGED <<client, callVars, hand, sock, toClient, srv>> /\ pc'["recv"] = pc["recv"]
    BY <1>9, <1>f, FibersApart DEF HandleSend, goto
  <2>2. /\ channel' \in Seq(M) /\ toServer' \in Seq(M)
        /\ Len(channel') <= Capacity /\ (closed => channel' = <<>>)
    <3>1. CASE closed
      BY <1>9, <1>b, <1>e, <3>1 DEF HandleSend, DataInv
    <3>2. CASE ~closed
      <4>1. /\ channel # <<>> /\ channel' = Tail(channel)
            /\ toServer' = toServer \/ toServer' = Append(toServer, Head(channel))
        BY <1>9, <3>2 DEF HandleSend
      <4>2. /\ Head(channel) \in M /\ channel' \in Seq(M) /\ Len(channel) \in Nat
            /\ Len(channel') = Len(channel) - 1
        BY <1>b, <4>1
      <4>3. toServer' \in Seq(M)
        <5>1. Append(toServer, Head(channel)) \in Seq(M)
          BY <1>b, <4>2, AppendType
        <5> QED
          BY <1>b, <4>1, <5>1
      <4>4. Len(channel') <= Capacity
        BY <1>e, <4>2 DEF DataInv, Capacity
      <4> QED
        BY <3>2, <4>2, <4>3, <4>4
    <3> QED
      BY <3>1, <3>2
  <2>3. IdInv'
    BY <1>b, <2>1, <2>2 DEF IdInv, client, callVars, M
  <2> QED
    BY <1>e, <2>1, <2>2, <2>3 DEF DataInv, client, srv, callVars
<1>10. CASE Recv
  <2> DEFINE m == Head(toClient)
  <2>1. /\ toClient # <<>> /\ toClient' = Tail(toClient) /\ heart' = FALSE
        /\ hand' = (IF m.type = "method" THEN m ELSE None)
        /\ seq' = (IF m.type = "method" THEN m.id ELSE seq)
        /\ UNCHANGED <<mutex, table, channel, closed, timer, callVars, sock, toServer, srv>>
    BY <1>10 DEF Recv
  <2>2. m \in M /\ toClient' \in Seq(M)
    BY <1>b, <2>1
  <2>3. m.id \in 0 .. Given'
    BY <2>2 DEF M, MsgsUpTo
  <2>4. pc'["recv"] = "deliver" => m.type = "method"
    BY <1>10, <1>e, FibersApart DEF Recv, goto, FiberInv
  <2>5. pc'["recv"] # "stuck"
    BY <1>10, <1>e, FibersApart DEF Recv, goto, FiberInv
  <2> HIDE DEF m
  <2>6. IdInv'
    BY <1>b, <2>1, <2>2, <2>3, <2>4, <2>5 DEF IdInv, callVars, M
  <2> QED
    BY <1>e, <2>1, <2>6 DEF DataInv, callVars, srv
<1>11. CASE RecvEof \/ HandlePublish
  <2>1. /\ UNCHANGED <<client, channel, callVars, hand, net, srv>>
        /\ pc'["recv"] \in {"close", "ack"}
    BY <1>11, <1>e, FibersApart DEF RecvEof, HandlePublish, goto, FiberInv
  <2>2. IdInv'
    BY <1>i, <2>1 DEF client, callVars, net
  <2> QED
    BY <1>e, <2>1, <2>2 DEF DataInv, client, callVars, net, srv
<1>12. CASE PushAck
  <2> DEFINE m == Request("ack", 0, None)
  <2>1. /\ pc'["recv"] = "read" /\ Push("recv", m, "read")
        /\ UNCHANGED <<client, callVars, hand, net, srv>>
    BY <1>12, <1>e, FibersApart DEF PushAck, Push, goto, FiberInv
  <2>2. m \in M
    BY <1>a, OwnMessages DEF M
  <2>3. /\ channel' \in Seq(M) /\ Len(channel') <= Capacity /\ (closed => channel' = <<>>)
    <3> HIDE DEF m
    <3> QED
      BY <1>a, <1>b, <1>e, <2>1, <2>2, PushKeeps DEF M
  <2>5. IdInv'
    BY <1>b, <2>1, <2>3 DEF IdInv, net, client, callVars, M
  <2> QED
    BY <1>e, <2>1, <2>3, <2>5 DEF DataInv, client, net, srv, callVars
<1>13. CASE Deliver \/ DeliverResumes
  <2>1. /\ UNCHANGED <<seq, table, channel, closed, heart, timer, num, id, it, res, net, srv>>
        /\ pc["recv"] \in {"deliver", "stuck"}
        /\ \/ pc'["recv"] = "stuck" /\ UNCHANGED <<box, hand>>
           \/ pc'["recv"] = "read" /\ box' = box
           \/ pc'["recv"] = "read" /\ box' = [box EXCEPT ![table[seq]] = <<hand.call>>]
    BY <1>13, <1>e, FibersApart DEF Deliver, DeliverResumes, goto, FiberInv
  <2>2. hand.call \in Calls
    BY <1>b, <2>1 DEF M, MsgsUpTo
  <2>3. box' \in [Calls -> BoxValues]
    <3>1. <<hand.call>> \in BoxValues
      BY <2>2 DEF BoxValues
    <3> QED
      BY <1>e, <2>1, <3>1 DEF DataInv
  <2>4. IdInv'
    BY <1>b, <2>1 DEF IdInv, net, M
  <2> QED
    BY <1>e, <2>1, <2>3, <2>4 DEF DataInv, net, srv
<1>14. CASE Beat
  <2>1. /\ pc' = [pc EXCEPT !["heart"] = "idle"] /\ Push("heart", HeartBeat, "idle") /\ heart' = TRUE
        /\ UNCHANGED <<mutex, seq, table, closed, timer, callVars, hand, net, srv>>
    BY <1>14 DEF Beat, Push, goto
  <2>2. HeartBeat \in M
    BY <1>a, OwnMessages DEF M, HeartBeat
  <2>3. /\ channel' \in Seq(M) /\ Len(channel') <= Capacity /\ (closed => channel' = <<>>)
    BY <1>a, <1>b, <1>e, <2>1, <2>2, PushKeeps DEF M
  <2>4. pc'["recv"] = pc["recv"]
    BY <1>f, <2>1, FibersApart
  <2>5. IdInv'
    BY <1>b, <2>1, <2>3, <2>4 DEF IdInv, net, callVars, M
  <2> QED
    BY <1>e, <2>1, <2>3, <2>5 DEF DataInv, net, srv, callVars
<1>15. CASE BeatMissed
  <2>1. /\ UNCHANGED <<client, channel, callVars, hand, net, srv>> /\ pc'["recv"] = pc["recv"]
    BY <1>15, <1>f, FibersApart DEF BeatMissed, goto
  <2>2. IdInv'
    BY <1>i, <2>1 DEF client, callVars, net
  <2> QED
    BY <1>e, <2>1, <2>2 DEF DataInv, client, callVars, net, srv
<1>16. ASSUME NEW f \in Closers, CloseBegin(f) PROVE IdInv' /\ DataInv'
  <2>1. /\ UNCHANGED <<seq, table, timer, callVars, hand, net, srv>>
        /\ \/ UNCHANGED <<closed, heart, channel>>
           \/ closed' = TRUE /\ heart' = TRUE /\ channel' = <<>>
    BY <1>16 DEF CloseBegin
  <2>2. pc'["recv"] \in {pc["recv"], "spin", "wake"}
    BY <1>16, <1>e, FibersApart DEF CloseBegin, goto, AfterClose, FiberInv
  <2>3. channel' \in Seq(M) /\ Len(channel') <= Capacity /\ (closed' => channel' = <<>>)
    <3>1. CASE UNCHANGED <<closed, channel>>
      BY <1>b, <1>e, <3>1 DEF DataInv
    <3>2. CASE channel' = <<>>
      BY <3>2 DEF Capacity
    <3> QED
      BY <2>1, <3>1, <3>2
  <2>4. IdInv'
    BY <1>b, <2>1, <2>2, <2>3 DEF IdInv, callVars, net, M
  <2> QED
    BY <1>e, <2>1, <2>3, <2>4 DEF DataInv, callVars, net, srv
<1>17. ASSUME NEW f \in Closers, CloseWake(f) PROVE IdInv' /\ DataInv'
  <2>1. UNCHANGED <<pc, mutex, seq, closed, heart, timer, channel, num, id, it, res, hand, net, srv>>
    BY <1>17 DEF CloseWake
  <2>2. /\ table' \in [Ids -> Calls \cup {None}]
        /\ box' \in [Calls -> BoxValues]
    <3>1. <<Closed>> \in BoxValues
      BY DEF BoxValues
    <3> QED
      BY <1>17, <1>e, <3>1 DEF CloseWake, DataInv
  <2>3. IdInv'
    BY <1>i, <2>1 DEF net
  <2> QED
    BY <1>e, <2>1, <2>2, <2>3 DEF DataInv, net, srv
<1>18. ASSUME NEW f \in Closers, CloseEnd(f) PROVE IdInv' /\ DataInv'
  <2>1. /\ timer' = FALSE /\ sock' = "closed" /\ toServer' = <<>> /\ toClient' = <<>>
        /\ UNCHANGED <<seq, table, closed, heart, channel, callVars, hand, srv>>
    BY <1>18 DEF CloseEnd
  <2>2. pc'["recv"] \in {pc["recv"], "spin"}
    BY <1>18, <1>e, FibersApart DEF CloseEnd, goto, AfterClose, FiberInv
  <2>3. IdInv'
    BY <1>b, <2>1, <2>2 DEF IdInv, callVars, M
  <2> QED
    BY <1>e, <2>1, <2>3 DEF DataInv, callVars, srv
<1>19. CASE Serve
  <2> DEFINE m == Head(toServer)
  <2>1. /\ toServer # <<>> /\ toServer' = Tail(toServer)
        /\ server' \in {"left", "serving"} /\ subs' \in BOOLEAN
        /\ toClient' = toClient \/ toClient' = Append(toClient, m)
        /\ UNCHANGED <<pc, client, channel, callVars, hand, sock, published>>
    BY <1>19 DEF Serve
  <2>2. m \in M /\ toServer' \in Seq(M)
    BY <1>b, <2>1
  <2> HIDE DEF m
  <2>3. toClient' \in Seq(M)
    <3>1. Append(toClient, m) \in Seq(M)
      BY <1>b, <2>2, AppendType
    <3> QED
      BY <1>b, <2>1, <3>1
  <2>4. IdInv'
    BY <1>b, <2>1, <2>2, <2>3 DEF IdInv, client, callVars, M
  <2> QED
    BY <1>e, <2>1, <2>4 DEF DataInv, client, callVars
<1>20. CASE Publish
  <2>1. /\ toClient' = Append(toClient, Request("publish", 0, None))
        /\ UNCHANGED <<pc, client, channel, callVars, hand, sock, toServer, server, subs>>
    BY <1>20 DEF Publish
  <2>2. Request("publish", 0, None) \in M
    BY <1>a, OwnMessages DEF M
  <2>3. toClient' \in Seq(M)
    BY <1>b, <2>1, <2>2
  <2>4. IdInv'
    BY <1>b, <2>1, <2>3 DEF IdInv, client, callVars, M
  <2> QED
    BY <1>e, <2>1, <2>4 DEF DataInv, client, callVars
<1>21. CASE AliveExpires \/ ServerEnds \/ ServerHangs
  <2>1. /\ toServer' = <<>> /\ sock' \in {sock, "eof"} /\ server' \in {server, "left", "hung"}
        /\ subs' \in {subs, FALSE}
        /\ UNCHANGED <<pc, client, channel, callVars, hand, toClient>>
    BY <1>21 DEF AliveExpires, ServerEnds, ServerHangs, srv
  <2>2. IdInv'
    BY <1>b, <2>1 DEF IdInv, client, callVars, M
  <2> QED
    BY <1>e, <2>1, <2>2 DEF DataInv, client, callVars
<1>22. CASE UNCHANGED vars
  BY <1>e, <1>i, <1>22 DEF vars, client, callVars, net, srv, DataInv
<1> QED
  BY <1>1, <1>2, <1>3, <1>4, <1>5, <1>6, <1>7, <1>8, <1>9, <1>10, <1>11, <1>12, <1>13, <1>14,
     <1>15, <1>16, <1>17, <1>18, <1>19, <1>20, <1>21, <1>22
     DEF Next, CallStep, RecvStep, CloseStep

\* Type correctness for any callers and calls: sequence_id_, which every answer sets back,
\* never outgrows the number of calls, channel_ keeps to its capacity and is empty once
\* closed, a response channel holds one answer (rpc_client.cc:5,62-79, rpc_client.h:110).
THEOREM ClientTypeCorrect == Spec => []TypeOK
<1>1. ClientInv /\ [Next]_vars => ClientInv'
  BY FiberStep, DataStep DEF ClientInv
<1>2. ASSUME ClientInv PROVE TypeOK
  <2> USE <1>2 DEF ClientInv
  <2>1. MsgsUpTo(Given) \subseteq Messages
    BY GivenType DEF MsgsUpTo, Messages
  <2>2. channel \in Seq(Messages) /\ toServer \in Seq(Messages) /\ toClient \in Seq(Messages)
    BY <2>1 DEF IdInv
  <2>3. seq \in Ids /\ id \in [Callers -> Ids]
    BY GivenType DEF IdInv
  <2>4. ASSUME NEW k \in Calls PROVE Len(box[k]) <= 1
    <3>1. box[k] = <<>> \/ \E x : box[k] = <<x>>
      BY DEF DataInv, BoxValues
    <3>2. CASE box[k] = <<>>
      BY <3>2
    <3>3. ASSUME NEW x, box[k] = <<x>> PROVE Len(box[k]) <= 1
      <4>1. Len(<<x>>) = 1
        OBVIOUS
      <4> QED
        BY <3>3, <4>1
    <3> QED
      BY <3>1, <3>2, <3>3
  <2>5. {closed, heart, timer, subs} \subseteq BOOLEAN
    BY DEF DataInv
  <2> QED
    BY <2>2, <2>3, <2>4, <2>5 DEF TypeOK, FiberInv, DataInv
<1> QED
  BY <1>1, <1>2, ClientInit, PTL DEF Spec

-----------------------------------------------------------------------------
\* Who has mutex_; who is closing has set is_closed_, and until the session is closed
\* somebody is.
MutexInv ==
    /\ \A c \in Callers : mutex = c <=> pc[c] = "bump"
    /\ \A f \in Closers : mutex = f <=> pc[f] \in {"wake", "stuck"}
    /\ \A f \in Closers : pc[f] = "wake" => closed
    /\ closed /\ sock # "closed" => \E f \in Closers : pc[f] = "wake"
    /\ sock = "closed" => closed
    /\ \A f \in Closers : pc[f] = "stuck" => f = "recv"

\* Every step keeps mutex_ with whom it says.
LEMMA MutexStep == ClientInv /\ MutexInv /\ [Next]_vars => MutexInv'
<1> SUFFICES ASSUME ClientInv, MutexInv, [Next]_vars PROVE MutexInv'
  OBVIOUS
<1>a. /\ pc \in [Fibers -> CallerLabels \cup FiberLabels]
      /\ None \notin Callers /\ None \notin Closers
      /\ "recv" \in Closers /\ "user" \in Closers /\ "heart" \in Closers
  BY ClientAssumption DEF ClientInv, FiberInv, Closers
<1> USE <1>a, FibersApart DEF MutexInv, goto
<1>1. ASSUME NEW c \in Callers, Call(c) PROVE MutexInv'
  BY <1>1 DEF Call, client, net
<1>2. ASSUME NEW c \in Callers, Register(c) PROVE MutexInv'
  BY <1>2 DEF Register, net
<1>3. ASSUME NEW c \in Callers, Bump(c) PROVE MutexInv'
  BY <1>3 DEF Bump, net
<1>4. ASSUME NEW c \in Callers, PushRequest(c) \/ Receive(c) \/ Timeout(c) PROVE MutexInv'
  <2>1. /\ UNCHANGED <<mutex, closed, sock>> /\ pc[c] # "bump"
        /\ \E l \in {"wait", "erase"} : pc' = [pc EXCEPT ![c] = l]
    BY <1>4 DEF PushRequest, Push, Receive, Timeout, client, net
  <2> QED
    BY <2>1
<1>5. ASSUME NEW c \in Callers, Erase(c) PROVE MutexInv'
  <2>1. /\ UNCHANGED <<mutex, closed, sock>> /\ pc[c] # "bump" /\ pc' = [pc EXCEPT ![c] = "idle"]
    BY <1>5 DEF Erase, net
  <2> QED
    BY <2>1
<1>6. CASE Subscribe \/ HandleSend
  <2>1. /\ UNCHANGED <<mutex, closed, sock>>
        /\ \A f \in Callers \cup Closers : pc'[f] = pc[f]
    BY <1>6 DEF Subscribe, Push, HandleSend, client, net, Closers
  <2> QED
    BY <2>1
<1>7. CASE Recv \/ RecvEof \/ HandlePublish \/ PushAck
  <2>1. /\ UNCHANGED <<mutex, closed, sock>> /\ pc["recv"] \notin {"wake", "stuck"}
        /\ \E l : pc' = [pc EXCEPT !["recv"] = l] /\ l \notin {"wake", "stuck"}
    BY <1>7 DEF Recv, RecvEof, HandlePublish, PushAck, Push, client, net
  <2> QED
    BY <2>1
<1>8. CASE Deliver \/ DeliverResumes
  BY <1>8 DEF Deliver, DeliverResumes, net
<1>9. CASE Beat \/ BeatMissed
  <2>1. /\ UNCHANGED <<mutex, closed, sock>> /\ pc["heart"] = "idle"
        /\ \E l \in {"idle", "close"} : pc' = [pc EXCEPT !["heart"] = l]
    BY <1>9 DEF Beat, BeatMissed, Push, client, net
  <2> QED
    BY <2>1
<1>10. ASSUME NEW f \in Closers, CloseBegin(f) PROVE MutexInv'
  BY <1>10 DEF CloseBegin, AfterClose, net
<1>11. ASSUME NEW f \in Closers, CloseWake(f) PROVE MutexInv'
  BY <1>11 DEF CloseWake, net
<1>12. ASSUME NEW f \in Closers, CloseEnd(f) PROVE MutexInv'
  BY <1>12 DEF CloseEnd, AfterClose
<1>13. CASE Serve \/ Publish \/ AliveExpires \/ ServerEnds \/ ServerHangs
  <2>1. UNCHANGED <<mutex, closed, pc>> /\ (sock' = sock \/ (sock = "up" /\ sock' = "eof"))
    BY <1>13 DEF Serve, Publish, AliveExpires, ServerEnds, ServerHangs, client, net
  <2> QED
    BY <2>1
<1>14. CASE UNCHANGED vars
  BY <1>14 DEF vars, client, net
<1> QED
  BY <1>1, <1>2, <1>3, <1>4, <1>5, <1>6, <1>7, <1>8, <1>9, <1>10, <1>11, <1>12, <1>13, <1>14
     DEF Next, CallStep, RecvStep, CloseStep

\* The initial state keeps the rules of mutex_.
LEMMA MutexInit == Init => MutexInv
  BY ClientAssumption, FibersApart DEF Init, MutexInv, Fibers, Closers

-----------------------------------------------------------------------------
InCall == {"bump", "push", "wait", "erase"}

\* With one caller, a client that is not closed has the channel of the call in progress
\* in its table and nothing else, and the iterator of the call points to it.
TableInv ==
    \A c \in Callers : ~closed =>
        /\ \A i \in Ids : table[i] = IF pc[c] \in InCall /\ i = id[c] THEN current(c) ELSE None
        /\ pc[c] \in InCall => it[c] = current(c)

\* Every step of a client with one caller keeps its table.
LEMMA TableStep ==
    ASSUME NEW c, Callers = {c}, ClientInv, MutexInv, TableInv, [Next]_vars
    PROVE  TableInv'
<1>a. /\ pc \in [Fibers -> CallerLabels \cup FiberLabels] /\ c \in Callers
      /\ table \in [Ids -> Calls \cup {None}] /\ it \in [Callers -> Calls \cup {None}]
      /\ id \in [Callers -> 0 .. Given] /\ 0 .. Given \subseteq Ids /\ seq \in Ids
      /\ id[c] \in Ids
  BY GivenType DEF ClientInv, FiberInv, IdInv, DataInv
<1>b. /\ ~closed => /\ \A i \in Ids : table[i] = IF pc[c] \in InCall /\ i = id[c]
                                                   THEN current(c) ELSE None
                    /\ pc[c] \in InCall => it[c] = current(c)
  BY <1>a DEF TableInv
<1> SUFFICES ASSUME ~closed'
             PROVE  /\ \A i \in Ids : table'[i] = IF pc'[c] \in InCall /\ i = id'[c]
                                                    THEN current(c)' ELSE None
                    /\ pc'[c] \in InCall => it'[c] = current(c)'
  BY DEF TableInv
<1> DEFINE Goal == /\ \A i \in Ids : table'[i] = IF pc'[c] \in InCall /\ i = id'[c]
                                                    THEN current(c)' ELSE None
                   /\ pc'[c] \in InCall => it'[c] = current(c)'
<1>s. ASSUME UNCHANGED <<table, id, it, num>>, pc'[c] \in InCall <=> pc[c] \in InCall, ~closed
      PROVE  Goal
  BY <1>b, <1>s DEF current
<1> USE <1>a, FibersApart DEF goto
<1>1. CASE Call(c)
  <2>1. ~closed /\ UNCHANGED <<table, id, it>> /\ pc[c] = "idle" /\ pc'[c] \in {"idle", "register"}
    BY <1>1 DEF Call, client
  <2> QED
    BY <1>b, <2>1 DEF InCall
<1>2. CASE Register(c)
  <2>1. /\ ~closed /\ pc[c] = "register" /\ pc'[c] = "bump" /\ num' = num
        /\ id' = [id EXCEPT ![c] = seq] /\ it' = [it EXCEPT ![c] = table'[seq]]
        /\ table' = IF table[seq] = None THEN [table EXCEPT ![seq] = current(c)] ELSE table
    BY <1>2 DEF Register
  <2>2. \A i \in Ids : table[i] = None
    BY <1>b, <2>1 DEF InCall
  <2>3. table' = [table EXCEPT ![seq] = current(c)] /\ id'[c] = seq /\ it'[c] = current(c)
    BY <2>1, <2>2
  <2> QED
    BY <2>1, <2>2, <2>3 DEF InCall, current
<1>3. CASE Bump(c) \/ PushRequest(c) \/ Receive(c) \/ Timeout(c)
  <2>1. /\ ~closed /\ UNCHANGED <<table, id, it, num>>
        /\ pc[c] \in {"bump", "push", "wait"} /\ pc'[c] \in {"push", "wait", "erase"}
    BY <1>3 DEF Bump, PushRequest, Push, Receive, Timeout, client, callVars
  <2> QED
    BY <1>s, <2>1 DEF InCall
<1>4. CASE Erase(c)
  <2>1. /\ ~closed /\ pc[c] = "erase" /\ pc'[c] = "idle"
    BY <1>4 DEF Erase
  <2>2. table[id[c]] = it[c]
    BY <1>b, <2>1 DEF InCall
  <2>3. table' = [table EXCEPT ![id[c]] = None]
    BY <1>4, <2>1, <2>2 DEF Erase
  <2> QED
    BY <1>b, <2>1, <2>3 DEF InCall
<1>5. CASE Subscribe \/ HandleSend \/ RecvEof \/ HandlePublish \/ PushAck \/ Beat \/ BeatMissed
  BY <1>5, <1>s DEF Subscribe, Push, HandleSend, RecvEof, HandlePublish, PushAck, Beat, BeatMissed,
     client, callVars
<1>6. CASE Recv
  <2>1. ~closed /\ UNCHANGED <<table, id, it, num>> /\ \E l : pc' = [pc EXCEPT !["recv"] = l]
    BY <1>6 DEF Recv, callVars
  <2> QED
    BY <2>1, <1>s
<1>7. CASE Deliver \/ DeliverResumes
  BY <1>7, <1>s DEF Deliver, DeliverResumes
<1>8. ASSUME NEW f \in Closers, CloseBegin(f) PROVE Goal
  <2>1. UNCHANGED <<table, id, it, num>> /\ ~closed /\ pc'[c] = pc[c]
    BY <1>8 DEF CloseBegin, AfterClose, callVars
  <2> QED
    BY <2>1, <1>s
<1>9. ASSUME NEW f \in Closers, CloseWake(f) PROVE Goal
  <2>1. closed /\ closed' = closed
    BY <1>9 DEF CloseWake, MutexInv
  <2> QED
    BY <2>1
<1>10. ASSUME NEW f \in Closers, CloseEnd(f) PROVE Goal
  <2>1. closed /\ closed' = closed
    BY <1>10 DEF CloseEnd, MutexInv
  <2> QED
    BY <2>1
<1>11. CASE Serve \/ Publish \/ AliveExpires \/ ServerEnds \/ ServerHangs
  BY <1>11, <1>s DEF Serve, Publish, AliveExpires, ServerEnds, ServerHangs, client, callVars
<1>12. CASE UNCHANGED vars
  BY <1>12, <1>s DEF vars, client, callVars
<1>13. ASSUME NEW b \in Callers PROVE b = c
  OBVIOUS
<1> QED
  BY <1>1, <1>2, <1>3, <1>4, <1>5, <1>6, <1>7, <1>8, <1>9, <1>10, <1>11, <1>12, <1>13
     DEF Next, CallStep, RecvStep, CloseStep

\* The table of an open client with one caller, whatever it and the server do: nothing is
\* left of an answered or timed-out call and a late answer finds no entry, so the iterator
\* that call() erases is good (rpc_client.h:110-130, rpc_client.cc:147-158).
THEOREM TableExactHolds == Spec => []TableExact
<1>1. CASE Cardinality(Callers) = 1
  <2>1. PICK c : Callers = {c}
    BY <1>1, ClientAssumption, FS_Singleton
  <2>2. Init => ClientInv /\ MutexInv /\ TableInv
    <3>1. Init => TableInv
      BY FibersApart DEF Init, TableInv, InCall
    <3> QED
      BY <3>1, ClientInit, MutexInit
  <2>3. ClientInv /\ MutexInv /\ TableInv /\ [Next]_vars => (ClientInv /\ MutexInv /\ TableInv)'
    <3>1. ClientInv /\ [Next]_vars => ClientInv'
      BY FiberStep, DataStep DEF ClientInv
    <3> QED
      BY <2>1, <3>1, MutexStep, TableStep
  <2>4. TableInv => TableExact
    BY DEF TableInv, TableExact, InCall
  <2> QED
    BY <2>2, <2>3, <2>4, PTL DEF Spec
<1>2. CASE Cardinality(Callers) # 1
  <2>1. TableExact
    BY <1>2 DEF TableExact
  <2> QED
    BY <2>1, PTL
<1> QED
  BY <1>1, <1>2

-----------------------------------------------------------------------------
\* The requests and answers of calls in a stream of messages.
Methods(q) == {i \in 1 .. Len(q) : q[i].type = "method"}
Carried(q) == {q[i] : i \in Methods(q)}
Sole(q) == \A i, j \in Methods(q) : i = j

\* The answer handleRecv has in its hands.
InHand == IF pc["recv"] \in {"deliver", "stuck"} THEN {hand} ELSE {}

InFlight == Carried(channel) \cup Carried(toServer) \cup Carried(toClient) \cup InHand

\* One caller, no time limits, the client not closed: at most one message of a call is
\* anywhere, it is the one of the call in progress, and then no response channel holds
\* an answer yet.
OpenInv ==
    ~closed =>
        /\ Sole(channel) /\ Sole(toServer) /\ Sole(toClient)
        /\ Carried(channel) # {} => Carried(toServer) \cup Carried(toClient) \cup InHand = {}
        /\ Carried(toServer) # {} => Carried(toClient) \cup InHand = {}
        /\ Carried(toClient) # {} => InHand = {}
        /\ InHand # {} => \A c \in Callers : seq = id[c]
        /\ \A m \in InFlight : \A c \in Callers : m.call = current(c) /\ m.id = id[c]
        /\ InFlight # {} => /\ \A c \in Callers : pc[c] = "wait"
                            /\ \A k \in Calls : box[k] = <<>>
        /\ \A k \in Calls : box[k] # <<>> => \A c \in Callers : k = current(c) /\ pc[c] = "wait"

\* The client closed with an answer under way: the call it belongs to can only end after
\* close(), when the table is empty and no call is started any more.
ClosedInv ==
    closed /\ InFlight # {} =>
        /\ \A c \in Callers : pc[c] \in {"wait", "erase"} \/ (pc[c] = "idle" /\ sock = "closed")
        /\ sock = "closed" => \A i \in Ids : table[i] = None

BoxInv == \A k \in Calls : box[k] \in {<<>>, <<k>>, <<Closed>>}

AnswerInv == OpenInv /\ ClosedInv /\ BoxInv /\ pc["recv"] # "stuck" /\ OwnAnswer

\* An empty stream carries nothing.
LEMMA CarriedEmpty == Carried(<<>>) = {} /\ Sole(<<>>)
  BY DEF Carried, Sole, Methods

\* What a message added at the end changes.
LEMMA CarriedAppend ==
    ASSUME NEW S, NEW q \in Seq(S), NEW x \in S
    PROVE  /\ x.type # "method" => Carried(Append(q, x)) = Carried(q) /\ (Sole(q) => Sole(Append(q, x)))
           /\ x.type = "method" /\ Carried(q) = {} =>
                Carried(Append(q, x)) = {x} /\ Sole(Append(q, x))
<1> DEFINE r == Append(q, x)
<1>1. /\ Len(q) \in Nat /\ Len(r) = Len(q) + 1 /\ r[Len(q) + 1] = x
      /\ \A i \in 1 .. Len(q) : r[i] = q[i]
  OBVIOUS
<1> HIDE DEF r
<1>2. CASE x.type # "method"
  <2>1. Methods(r) = Methods(q)
    BY <1>1, <1>2 DEF Methods
  <2>2. \A i \in Methods(q) : r[i] = q[i]
    BY <1>1 DEF Methods
  <2> QED
    BY <1>2, <2>1, <2>2 DEF Carried, Sole, r
<1>3. CASE x.type = "method" /\ Carried(q) = {}
  <2>1. Methods(q) = {}
    BY <1>3 DEF Carried
  <2>2. Methods(r) = {Len(q) + 1}
    BY <1>1, <1>3, <2>1 DEF Methods
  <2> QED
    BY <1>1, <1>3, <2>2 DEF Carried, Sole, r
<1> QED
  BY <1>2, <1>3 DEF r

\* What the removal of the first message changes.
LEMMA CarriedTail ==
    ASSUME NEW S, NEW q \in Seq(S), q # <<>>
    PROVE  /\ Carried(Tail(q)) \subseteq Carried(q) /\ (Sole(q) => Sole(Tail(q)))
           /\ Head(q).type = "method" => Head(q) \in Carried(q)
           /\ Head(q).type = "method" /\ Sole(q) => Carried(Tail(q)) = {}
<1> DEFINE r == Tail(q)
<1>1. /\ Len(q) \in Nat /\ Len(q) > 0 /\ Len(r) = Len(q) - 1 /\ Head(q) = q[1]
      /\ \A i \in 1 .. Len(r) : r[i] = q[i + 1]
  OBVIOUS
<1> HIDE DEF r
<1>2. \A i \in Methods(r) : i \in Nat /\ i >= 1 /\ i + 1 \in Methods(q) /\ r[i] = q[i + 1]
  BY <1>1 DEF Methods
<1>3. Carried(r) \subseteq Carried(q)
  BY <1>2 DEF Carried
<1>4. Sole(q) => Sole(r)
  BY <1>2 DEF Sole
<1>5. Head(q).type = "method" => 1 \in Methods(q) /\ Head(q) \in Carried(q)
  BY <1>1 DEF Methods, Carried
<1>6. ASSUME Head(q).type = "method", Sole(q) PROVE Carried(r) = {}
  <2>1. Methods(r) = {}
    BY <1>2, <1>5, <1>6 DEF Sole
  <2> QED
    BY <2>1 DEF Carried
<1> QED
  BY <1>3, <1>4, <1>5, <1>6 DEF r

\* A step that adds no message of a call and touches no call keeps the invariant.
LEMMA AnswerQuiet ==
    ASSUME NEW c, Callers = {c}, AnswerInv,
           UNCHANGED <<num, id, box, res, seq, closed, table>>, pc'[c] = pc[c],
           sock' = "closed" => sock = "closed", sock = "closed" => sock' = "closed",
           Sole(channel) => Sole(channel'), Sole(toServer) => Sole(toServer'),
           Sole(toClient) => Sole(toClient'),
           Carried(channel') \subseteq Carried(channel),
           Carried(toServer') \subseteq Carried(toServer),
           Carried(toClient') \subseteq Carried(toClient),
           InHand' \subseteq InHand, pc'["recv"] # "stuck"
    PROVE  AnswerInv'
<1> USE DEF AnswerInv
<1>1. InFlight' \subseteq InFlight
  BY DEF InFlight
<1>2. OpenInv'
  BY <1>1 DEF OpenInv, current
<1>3. ClosedInv'
  BY <1>1 DEF ClosedInv
<1> QED
  BY <1>2, <1>3 DEF BoxInv, OwnAnswer

\* Every step of a client with one caller and no time limits keeps the invariant.
LEMMA AnswerStep ==
    ASSUME NEW c, Callers = {c}, Timed = {}, ClientInv, MutexInv, TableInv, AnswerInv, [Next]_vars
    PROVE  AnswerInv'
<1> DEFINE M == MsgsUpTo(Given)
<1>a. /\ pc \in [Fibers -> CallerLabels \cup FiberLabels] /\ c \in Callers /\ c # "recv"
      /\ table \in [Ids -> Calls \cup {None}] /\ seq \in Ids /\ id \in [Callers -> 0 .. Given]
      /\ channel \in Seq(M) /\ toServer \in Seq(M) /\ toClient \in Seq(M)
      /\ num \in [Callers -> 0 .. MaxCalls] /\ res \in [Calls -> Calls \cup {Closed, TimedOut, None}]
      /\ box \in [Calls -> BoxValues]
  BY GivenType, FibersApart DEF ClientInv, FiberInv, IdInv, DataInv
<1>b. /\ pc[c] # "idle" => current(c) \in Calls
      /\ closed => channel = <<>>
  BY <1>a, ClientAssumption DEF current, Calls, ClientInv, FiberInv, DataInv
<1>c. ASSUME mutex = None, closed PROVE sock = "closed"
  BY <1>c, ClientAssumption DEF MutexInv, Closers
<1>d. ~closed => sock # "closed"
  BY DEF MutexInv
<1>e. ASSUME UNCHANGED <<channel, toServer, toClient>>, InHand' = InHand PROVE InFlight' = InFlight
  BY <1>e DEF InFlight
<1>f. ASSUME NEW f \in Fibers, NEW l, f # "recv", pc' = [pc EXCEPT ![f] = l], hand' = hand
      PROVE  InHand' = InHand /\ pc'["recv"] = pc["recv"]
  BY <1>a, <1>f, FibersApart DEF InHand
<1>g. OpenInv /\ ClosedInv /\ BoxInv /\ pc["recv"] # "stuck" /\ OwnAnswer
  BY DEF AnswerInv
<1> HIDE DEF M
<1>1. CASE Call(c)
  <2>1. /\ pc[c] = "idle" /\ UNCHANGED <<client, channel, id, it, box, hand, net, srv>>
        /\ \/ /\ sock = "closed" /\ pc' = pc
              /\ res' = [res EXCEPT ![<<c, num[c] + 1>>] = Closed]
           \/ sock # "closed" /\ pc' = [pc EXCEPT ![c] = "register"] /\ res' = res
    BY <1>1 DEF Call, goto
  <2>2. InHand' = InHand /\ pc'["recv"] = pc["recv"]
    BY <1>a, <2>1, FibersApart DEF InHand
  <2>3. InFlight' = InFlight
    BY <1>e, <2>1, <2>2 DEF net
  <2>4. OpenInv'
    BY <1>g, <2>1, <2>2, <2>3 DEF OpenInv, client, net, InFlight
  <2>5. ClosedInv'
    BY <1>a, <1>g, <2>1, <2>3 DEF ClosedInv, client, net
  <2>6. OwnAnswer'
    BY <1>a, <1>g, <2>1 DEF OwnAnswer
  <2> QED
    BY <1>g, <2>1, <2>2, <2>4, <2>5, <2>6 DEF AnswerInv, BoxInv
<1>2. CASE Register(c) \/ Bump(c)
  <2>1. /\ pc[c] \in {"register", "bump"} /\ pc'[c] \in {"bump", "push"}
        /\ UNCHANGED <<channel, closed, box, res, hand, net, srv>>
        /\ \E l : pc' = [pc EXCEPT ![c] = l]
    BY <1>2, <1>a, FibersApart DEF Register, Bump, goto, callVars
  <2>2. InHand' = InHand /\ pc'["recv"] = pc["recv"]
    BY <1>f, <1>a, <2>1, FibersApart
  <2>3. InFlight' = InFlight
    BY <1>e, <2>1, <2>2 DEF net
  <2>4. InFlight = {}
    BY <1>g, <2>1 DEF OpenInv, ClosedInv
  <2>5. ~closed => \A k \in Calls : box[k] = <<>>
    BY <1>g, <2>1 DEF OpenInv
  <2>6. OpenInv'
    BY <1>g, <2>1, <2>2, <2>3, <2>4, <2>5 DEF OpenInv, net, InFlight
  <2>7. ClosedInv'
    BY <2>3, <2>4 DEF ClosedInv
  <2> QED
    BY <1>g, <2>1, <2>2, <2>6, <2>7 DEF AnswerInv, BoxInv, OwnAnswer
<1>3. CASE PushRequest(c)
  <2> DEFINE m == Request("method", id[c], current(c))
  <2>1. /\ pc[c] = "push" /\ pc' = [pc EXCEPT ![c] = "wait"] /\ pc'[c] = "wait"
        /\ channel' = (IF closed THEN channel ELSE Append(channel, m))
        /\ UNCHANGED <<client, callVars, hand, net, srv>>
    BY <1>3, <1>a, FibersApart DEF PushRequest, Push, goto
  <2>2. InHand' = InHand /\ pc'["recv"] = pc["recv"]
    BY <1>f, <1>a, <2>1, FibersApart
  <2>3. InFlight = {} /\ (~closed => \A k \in Calls : box[k] = <<>>)
    BY <1>g, <2>1 DEF OpenInv, ClosedInv
  <2>4. m.type = "method" /\ m.call = current(c) /\ m.id = id[c] /\ m \in M
    <3>1. m.type = "method" /\ m.call = current(c) /\ m.id = id[c]
      BY DEF Request
    <3>2. m \in M
      BY <1>a, <1>b, <2>1 DEF M, MsgsUpTo, Request
    <3> QED
      BY <3>1, <3>2
  <2> HIDE DEF m
  <2>5. CASE closed
    <3>1. InFlight' = InFlight
      BY <1>e, <2>1, <2>2, <2>5 DEF net
    <3>2. OpenInv' /\ ClosedInv'
      BY <2>1, <2>3, <2>5, <3>1 DEF OpenInv, ClosedInv, client
    <3> QED
      BY <1>g, <2>1, <2>2, <3>2 DEF AnswerInv, BoxInv, OwnAnswer, callVars
  <2>6. CASE ~closed
    <3>1. Carried(channel') = {m} /\ Sole(channel')
      BY <1>a, <2>1, <2>3, <2>4, <2>6, CarriedAppend DEF InFlight
    <3>2. InFlight' = {m} /\ InHand' = {} /\ Carried(toServer') = {} /\ Carried(toClient') = {}
      BY <2>1, <2>2, <2>3, <3>1 DEF InFlight, net
    <3>3. OpenInv'
      BY <1>g, <2>1, <2>3, <2>4, <2>6, <3>1, <3>2 DEF OpenInv, net, callVars, client, current
    <3>4. ClosedInv'
      BY <2>1, <2>6 DEF ClosedInv, client
    <3> QED
      BY <1>g, <2>1, <2>2, <3>3, <3>4 DEF AnswerInv, BoxInv, OwnAnswer, callVars
  <2> QED
    BY <2>5, <2>6
<1>4. CASE Receive(c)
  <2> DEFINE k == current(c)
  <2>1. /\ pc[c] = "wait" /\ box[k] # <<>> /\ pc' = [pc EXCEPT ![c] = "erase"] /\ pc'[c] = "erase"
        /\ res' = [res EXCEPT ![k] = Head(box[k])] /\ box' = [box EXCEPT ![k] = Tail(box[k])]
        /\ UNCHANGED <<client, channel, num, id, it, hand, net, srv>>
    BY <1>4, <1>a, FibersApart DEF Receive, goto
  <2>2. k \in Calls /\ k' = k
    BY <1>b, <2>1 DEF current
  <2>3. InHand' = InHand /\ pc'["recv"] = pc["recv"]
    BY <1>f, <1>a, <2>1, FibersApart
  <2>4. InFlight' = InFlight
    BY <1>e, <2>1, <2>3 DEF net
  <2>5. PICK x \in {k, Closed} : box[k] = <<x>>
    BY <1>g, <2>1, <2>2 DEF BoxInv
  <2>6. Head(box[k]) = x /\ Tail(box[k]) = <<>>
    BY <2>5
  <2>7. OwnAnswer'
    BY <1>a, <1>g, <2>1, <2>2, <2>6 DEF OwnAnswer
  <2>8. BoxInv'
    BY <1>a, <1>g, <2>1, <2>2, <2>6 DEF BoxInv
  <2>9. OpenInv'
    <3>1. ASSUME ~closed PROVE InFlight = {} /\ \A j \in Calls : box'[j] = <<>>
      BY <1>a, <1>g, <2>1, <2>2, <2>6, <3>1 DEF OpenInv
    <3> QED
      BY <1>g, <2>1, <2>3, <2>4, <3>1 DEF OpenInv, client, net, InFlight
  <2>10. ClosedInv'
    BY <1>g, <2>1, <2>4 DEF ClosedInv, client, net
  <2> QED
    BY <1>g, <2>3, <2>7, <2>8, <2>9, <2>10 DEF AnswerInv
<1>5. CASE Erase(c)
  <2>1. /\ pc[c] = "erase" /\ mutex = None /\ pc' = [pc EXCEPT ![c] = "idle"] /\ pc'[c] = "idle"
        /\ closed => table' = table
        /\ UNCHANGED <<mutex, seq, channel, closed, heart, timer, num, box, res, hand, net, srv>>
    BY <1>5, <1>a, FibersApart DEF Erase, goto
  <2>2. InHand' = InHand /\ pc'["recv"] = pc["recv"]
    BY <1>f, <1>a, <2>1, FibersApart
  <2>3. InFlight' = InFlight
    BY <1>e, <2>1, <2>2 DEF net
  <2>4. OpenInv'
    <3>1. ASSUME ~closed PROVE InFlight = {} /\ \A k \in Calls : box[k] = <<>>
      BY <1>g, <2>1, <3>1 DEF OpenInv
    <3> QED
      BY <1>g, <2>1, <2>2, <2>3, <3>1 DEF OpenInv, net, InFlight
  <2>5. ClosedInv'
    BY <1>c, <1>g, <2>1, <2>3 DEF ClosedInv, net
  <2> QED
    BY <1>g, <2>1, <2>2, <2>4, <2>5 DEF AnswerInv, BoxInv, OwnAnswer
<1>6. ~Timeout(c)
  BY DEF Timeout
<1>7. ASSUME NEW m \in M, m.type # "method", NEW f \in Fibers, NEW l, Push(f, m, l),
             l \notin {"deliver", "stuck"}, f # c,
             UNCHANGED <<mutex, seq, table, closed, timer, callVars, hand, net, srv>>
      PROVE  AnswerInv'
  <2>1. channel' = channel \/ channel' = Append(channel, m)
    BY <1>7 DEF Push
  <2>2. Carried(channel') \subseteq Carried(channel) /\ (Sole(channel) => Sole(channel'))
    <3>1. ASSUME m.type # "method"
          PROVE  /\ Carried(Append(channel, m)) = Carried(channel)
                 /\ Sole(channel) => Sole(Append(channel, m))
      BY <1>a, <1>7, <3>1, CarriedAppend
    <3> QED
      BY <1>7, <2>1, <3>1
  <2>3. pc'[c] = pc[c] /\ pc'["recv"] # "stuck" /\ InHand' \subseteq InHand
    BY <1>a, <1>g, <1>7, FibersApart DEF Push, goto, InHand
  <2> QED
    BY <1>7, <2>2, <2>3, AnswerQuiet DEF callVars, net
<1>8. ASSUME NEW ty \in {"subscribe", "ack", "heartbeat", "publish"}
      PROVE  Request(ty, 0, None) \in M /\ Request(ty, 0, None).type # "method"
  BY GivenType, OwnMessages DEF M, Request
<1>9. CASE Subscribe
  <2> DEFINE m == Request("subscribe", 0, None)
  <2>1. /\ Push("sub", m, "done") /\ UNCHANGED <<client, callVars, hand, net, srv>>
        /\ "sub" \in Fibers /\ c # "sub" /\ m \in M /\ m.type # "method"
    BY <1>8, <1>9, FibersApart DEF Subscribe
  <2> HIDE DEF m
  <2> QED
    BY <1>7, <2>1 DEF client
<1>10. CASE PushAck
  <2> DEFINE m == Request("ack", 0, None)
  <2>1. /\ Push("recv", m, "read") /\ UNCHANGED <<client, callVars, hand, net, srv>>
        /\ "recv" \in Fibers /\ c # "recv" /\ m \in M /\ m.type # "method"
    BY <1>8, <1>10, FibersApart DEF PushAck
  <2> HIDE DEF m
  <2> QED
    BY <1>7, <2>1 DEF client
<1>11. CASE Beat
  <2>1. /\ Push("heart", HeartBeat, "idle")
        /\ UNCHANGED <<mutex, seq, table, closed, timer, callVars, hand, net, srv>>
        /\ "heart" \in Fibers /\ c # "heart" /\ HeartBeat \in M /\ HeartBeat.type # "method"
    BY <1>8, <1>11, FibersApart DEF Beat, HeartBeat
  <2> QED
    BY <1>7, <2>1
<1>12. CASE HandleSend
  <2>1. /\ UNCHANGED <<client, callVars, hand, sock, toClient, srv>>
        /\ pc'[c] = pc[c] /\ pc'["recv"] = pc["recv"]
    BY <1>12, <1>a, FibersApart DEF HandleSend, goto
  <2>2. InHand' = InHand
    BY <2>1 DEF InHand
  <2>3. CASE closed
    <3>1. UNCHANGED <<channel, toServer>>
      BY <1>12, <2>3 DEF HandleSend
    <3> QED
      BY <1>g, <2>1, <2>2, <3>1, AnswerQuiet DEF client, callVars
  <2>4. CASE ~closed
    <3> DEFINE m == Head(channel)
    <3>1. /\ channel # <<>> /\ channel' = Tail(channel)
          /\ toServer' = toServer \/ toServer' = Append(toServer, m)
      BY <1>12, <2>4 DEF HandleSend
    <3>2. /\ Carried(channel') \subseteq Carried(channel) /\ (Sole(channel) => Sole(channel'))
          /\ m.type = "method" => m \in Carried(channel)
          /\ m.type = "method" /\ Sole(channel) => Carried(channel') = {}
      BY <1>a, <3>1, CarriedTail
    <3>3. m \in M
      BY <1>a, <3>1
    <3> HIDE DEF m
    <3>4. CASE toServer' = toServer \/ m.type # "method"
      <4>1. Carried(toServer') = Carried(toServer) /\ (Sole(toServer) => Sole(toServer'))
        <5>1. ASSUME m.type # "method"
              PROVE  /\ Carried(Append(toServer, m)) = Carried(toServer)
                     /\ Sole(toServer) => Sole(Append(toServer, m))
          BY <1>a, <3>3, <5>1, CarriedAppend
        <5> QED
          BY <3>1, <3>4, <5>1
      <4> QED
        BY <1>g, <2>1, <2>2, <3>2, <4>1, AnswerQuiet DEF client, callVars
    <3>5. CASE m.type = "method" /\ toServer' = Append(toServer, m)
      <4>1. /\ Carried(toServer) = {} /\ Carried(toClient) = {} /\ InHand = {}
            /\ Carried(channel') = {} /\ Sole(channel') /\ Sole(toClient) /\ m \in InFlight
        BY <1>g, <2>4, <3>2, <3>5 DEF OpenInv, InFlight
      <4>2. Carried(toServer') = {m} /\ Sole(toServer')
        BY <1>a, <3>3, <3>5, <4>1, CarriedAppend
      <4>3. InFlight' = {m}
        BY <2>1, <2>2, <4>1, <4>2 DEF InFlight
      <4>4. OpenInv'
        BY <1>g, <2>1, <2>2, <2>4, <4>1, <4>2, <4>3 DEF OpenInv, client, callVars, current
      <4>5. ClosedInv'
        BY <2>1, <2>4 DEF ClosedInv, client
      <4> QED
        BY <1>g, <2>1, <4>4, <4>5 DEF AnswerInv, BoxInv, OwnAnswer, callVars
    <3> QED
      BY <3>1, <3>4, <3>5
  <2> QED
    BY <2>3, <2>4
<1>13. CASE Recv
  <2> DEFINE m == Head(toClient)
  <2>1. /\ pc["recv"] = "read" /\ sock # "closed" /\ toClient # <<>> /\ toClient' = Tail(toClient)
        /\ hand' = (IF m.type = "method" THEN m ELSE None)
        /\ seq' = (IF m.type = "method" THEN m.id ELSE seq)
        /\ UNCHANGED <<mutex, table, channel, closed, timer, callVars, sock, toServer, srv>>
    BY <1>13 DEF Recv
  <2>2. \E l \in {"deliver", "publish", "read"} :
           pc' = [pc EXCEPT !["recv"] = l] /\ (l = "deliver" <=> m.type = "method")
    BY <1>13 DEF Recv, goto
  <2>3. /\ pc'[c] = pc[c] /\ pc'["recv"] # "stuck" /\ InHand = {}
        /\ pc'["recv"] = "deliver" <=> m.type = "method"
    BY <1>a, <2>1, <2>2, FibersApart DEF InHand
  <2>4. /\ Carried(toClient') \subseteq Carried(toClient) /\ (Sole(toClient) => Sole(toClient'))
        /\ m.type = "method" => m \in Carried(toClient)
        /\ m.type = "method" /\ Sole(toClient) => Carried(toClient') = {}
    BY <1>a, <2>1, CarriedTail
  <2> HIDE DEF m
  <2>5. CASE m.type # "method"
    <3>1. InHand' = {}
      BY <2>3, <2>5 DEF InHand
    <3> QED
      BY <1>g, <2>1, <2>3, <2>4, <2>5, <3>1, AnswerQuiet DEF callVars
  <2>6. CASE m.type = "method"
    <3>1. InHand' = {m} /\ seq' = m.id
      BY <2>1, <2>3, <2>6 DEF InHand
    <3>2. m \in InFlight /\ InFlight' \subseteq InFlight
      BY <2>1, <2>4, <2>6, <3>1 DEF InFlight
    <3>3. ASSUME ~closed PROVE OpenInv'
      <4>1. Carried(toClient') = {} /\ Carried(channel') = {} /\ Carried(toServer') = {}
        BY <1>g, <2>1, <2>4, <2>6, <3>3 DEF OpenInv
      <4>2. InFlight' = {m} /\ m.id = id[c] /\ m.call = current(c)
        BY <1>g, <3>1, <3>2, <3>3, <4>1 DEF InFlight, OpenInv
      <4>3. Sole(channel') /\ Sole(toServer') /\ Sole(toClient')
        BY <1>g, <2>1, <2>4, <3>3 DEF OpenInv
      <4> QED
        BY <1>g, <2>1, <2>3, <3>1, <3>2, <3>3, <4>1, <4>2, <4>3 DEF OpenInv, callVars, current
    <3>4. OpenInv'
      BY <2>1, <3>3 DEF OpenInv
    <3>5. ClosedInv'
      BY <1>g, <2>1, <2>3, <3>2 DEF ClosedInv
    <3> QED
      BY <1>g, <2>1, <2>3, <3>4, <3>5 DEF AnswerInv, BoxInv, OwnAnswer, callVars
  <2> QED
    BY <2>5, <2>6
<1>14. CASE RecvEof \/ HandlePublish
  <2>1. /\ UNCHANGED <<client, channel, callVars, hand, net, srv>> /\ pc'[c] = pc[c]
        /\ pc'["recv"] \in {"close", "ack"}
    BY <1>14, <1>a, FibersApart DEF RecvEof, HandlePublish, goto
  <2>2. InHand' \subseteq InHand
    BY <2>1 DEF InHand
  <2> QED
    BY <2>1, <2>2, AnswerQuiet DEF client, callVars, net
<1>15. CASE Deliver
  <2>1. /\ pc["recv"] = "deliver" /\ mutex = None /\ pc'[c] = pc[c] /\ InHand = {hand}
        /\ UNCHANGED <<seq, table, channel, closed, heart, timer, num, id, it, res, net, srv>>
    BY <1>15, <1>a, FibersApart DEF Deliver, goto, InHand
  <2>2. /\ pc["recv"] = "deliver" /\ hand \in InFlight
    BY <2>1 DEF InFlight
  <2>3. CASE closed
    <3>1. sock = "closed" /\ table[seq] = None
      BY <1>a, <1>c, <1>g, <2>1, <2>2, <2>3 DEF ClosedInv
    <3>2. box' = box /\ pc'["recv"] = "read"
      BY <1>15, <1>a, <3>1, FibersApart DEF Deliver, goto
    <3>3. InHand' = {}
      BY <3>2 DEF InHand
    <3> QED
      BY <2>1, <3>2, <3>3, AnswerQuiet DEF net
  <2>4. CASE ~closed
    <3>1. /\ pc[c] = "wait" /\ hand.call = current(c) /\ seq = id[c]
          /\ \A k \in Calls : box[k] = <<>>
          /\ Carried(channel) = {} /\ Carried(toServer) = {} /\ Carried(toClient) = {}
      BY <1>g, <2>1, <2>2, <2>4 DEF OpenInv
    <3>2. table[seq] = current(c) /\ current(c) \in Calls /\ current(c)' = current(c)
      BY <1>a, <1>b, <2>1, <2>4, <3>1 DEF TableInv, InCall, current
    <3>3. /\ pc'["recv"] = "read"
          /\ box' = box \/ box' = [box EXCEPT ![current(c)] = <<current(c)>>]
      BY <1>15, <1>a, <3>1, <3>2, FibersApart DEF Deliver, goto
    <3>4. InHand' = {} /\ InFlight' = {}
      BY <2>1, <3>1, <3>3 DEF InHand, InFlight, net
    <3>5. \A k \in Calls : box'[k] = <<>> \/ (k = current(c) /\ box'[k] = <<k>>)
      BY <1>a, <3>1, <3>2, <3>3
    <3>6. OpenInv'
      BY <1>g, <2>1, <2>4, <3>1, <3>2, <3>4, <3>5 DEF OpenInv, net
    <3>7. BoxInv'
      BY <3>5 DEF BoxInv
    <3> QED
      BY <1>g, <2>1, <2>4, <3>3, <3>4, <3>6, <3>7 DEF AnswerInv, ClosedInv, OwnAnswer
  <2> QED
    BY <2>3, <2>4
<1>16. ~DeliverResumes
  BY <1>g DEF DeliverResumes
<1>17. CASE BeatMissed
  <2>1. /\ UNCHANGED <<client, channel, callVars, hand, net, srv>> /\ pc'[c] = pc[c]
        /\ pc'["recv"] = pc["recv"]
    BY <1>17, <1>a, FibersApart DEF BeatMissed, goto
  <2>2. InHand' = InHand
    BY <2>1 DEF InHand
  <2> QED
    BY <1>g, <2>1, <2>2, AnswerQuiet DEF client, callVars, net
<1>18. ASSUME NEW f \in Closers, CloseBegin(f) PROVE AnswerInv'
  <2>1. /\ UNCHANGED <<seq, table, timer, callVars, hand, net, srv>> /\ pc'[c] = pc[c]
        /\ f = "recv" => pc["recv"] = "close"
        /\ pc'["recv"] \in {pc["recv"], "wake", "spin"}
        /\ \/ UNCHANGED <<closed, channel>>
           \/ ~closed /\ closed' = TRUE /\ channel' = <<>>
    BY <1>18, <1>a, FibersApart DEF CloseBegin, AfterClose, goto
  <2>2. InHand' \subseteq InHand
    BY <2>1 DEF InHand
  <2>3. CASE UNCHANGED <<closed, channel>>
    BY <1>g, <2>1, <2>2, <2>3, AnswerQuiet DEF callVars, net
  <2>4. CASE ~closed /\ closed' = TRUE /\ channel' = <<>>
    <3>1. InFlight' \subseteq InFlight
      BY <2>1, <2>2, <2>4, CarriedEmpty DEF InFlight, net
    <3>2. ClosedInv'
      BY <1>d, <1>g, <2>1, <2>4, <3>1 DEF ClosedInv, OpenInv, net
    <3> QED
      BY <1>g, <2>1, <2>4, <3>2 DEF AnswerInv, OpenInv, BoxInv, OwnAnswer, callVars
  <2> QED
    BY <2>1, <2>3, <2>4
<1>19. ASSUME NEW f \in Closers, CloseWake(f) PROVE AnswerInv'
  <2>1. /\ UNCHANGED <<pc, mutex, seq, closed, heart, timer, channel, num, id, it, res, hand, net, srv>>
        /\ closed
        /\ \E i \in Ids : /\ box' = [box EXCEPT ![table[i]] = <<Closed>>]
                          /\ table' = [table EXCEPT ![i] = None]
    BY <1>19 DEF CloseWake, MutexInv
  <2>2. InFlight' = InFlight
    BY <2>1 DEF InFlight, InHand, net
  <2>3. BoxInv'
    BY <1>a, <1>g, <2>1 DEF BoxInv
  <2>4. ClosedInv'
    BY <1>a, <1>g, <2>1, <2>2 DEF ClosedInv, net
  <2> QED
    BY <1>g, <2>1, <2>3, <2>4 DEF AnswerInv, OpenInv, OwnAnswer
<1>20. ASSUME NEW f \in Closers, CloseEnd(f) PROVE AnswerInv'
  <2>1. /\ \A i \in Ids : table[i] = None
        /\ UNCHANGED <<seq, table, closed, heart, channel, callVars, hand, srv>>
        /\ closed /\ sock' = "closed" /\ toServer' = <<>> /\ toClient' = <<>>
        /\ pc'[c] = pc[c] /\ pc'["recv"] \in {pc["recv"], "spin"}
    BY <1>20, <1>a, FibersApart DEF CloseEnd, MutexInv, AfterClose, goto
  <2>2. InFlight' \subseteq InFlight
    BY <2>1, CarriedEmpty DEF InFlight, InHand
  <2>3. ClosedInv'
    BY <1>g, <2>1, <2>2 DEF ClosedInv
  <2> QED
    BY <1>g, <2>1, <2>3 DEF AnswerInv, OpenInv, BoxInv, OwnAnswer, callVars
<1>21. CASE Serve
  <2> DEFINE m == Head(toServer)
  <2>1. /\ toServer # <<>> /\ toServer' = Tail(toServer)
        /\ toClient' = toClient \/ toClient' = Append(toClient, m)
        /\ UNCHANGED <<pc, client, channel, callVars, hand, sock, published>>
    BY <1>21 DEF Serve
  <2>2. /\ Carried(toServer') \subseteq Carried(toServer) /\ (Sole(toServer) => Sole(toServer'))
        /\ m.type = "method" => m \in Carried(toServer)
        /\ m.type = "method" /\ Sole(toServer) => Carried(toServer') = {}
    BY <1>a, <2>1, CarriedTail
  <2>3. m \in M
    BY <1>a, <2>1
  <2>4. InHand' = InHand
    BY <2>1 DEF InHand
  <2> HIDE DEF m
  <2>5. CASE toClient' = toClient \/ m.type # "method"
    <3>1. Carried(toClient') = Carried(toClient) /\ (Sole(toClient) => Sole(toClient'))
      <4>1. ASSUME m.type # "method"
            PROVE  /\ Carried(Append(toClient, m)) = Carried(toClient)
                   /\ Sole(toClient) => Sole(Append(toClient, m))
        BY <1>a, <2>3, <4>1, CarriedAppend
      <4> QED
        BY <2>1, <2>5, <4>1
    <3> QED
      BY <1>g, <2>1, <2>2, <2>4, <3>1, AnswerQuiet DEF client, callVars
  <2>6. CASE m.type = "method" /\ toClient' = Append(toClient, m)
    <3>1. ASSUME ~closed PROVE OpenInv'
      <4>1. /\ Carried(channel) = {} /\ Carried(toClient) = {} /\ InHand = {}
            /\ Carried(toServer') = {} /\ Sole(toServer') /\ Sole(channel) /\ m \in InFlight
        BY <1>g, <2>2, <2>6, <3>1 DEF OpenInv, InFlight
      <4>2. Carried(toClient') = {m} /\ Sole(toClient')
        BY <1>a, <2>3, <2>6, <4>1, CarriedAppend
      <4>3. InFlight' = {m}
        BY <2>1, <2>4, <4>1, <4>2 DEF InFlight
      <4> QED
        BY <1>g, <2>1, <2>4, <3>1, <4>1, <4>2, <4>3 DEF OpenInv, client, callVars, current
    <3>2. OpenInv'
      BY <2>1, <3>1 DEF OpenInv, client
    <3>3. InFlight # {}
      BY <2>2, <2>6 DEF InFlight
    <3>4. ClosedInv'
      BY <1>g, <2>1, <3>3 DEF ClosedInv, client
    <3> QED
      BY <1>g, <2>1, <3>2, <3>4 DEF AnswerInv, BoxInv, OwnAnswer, callVars
  <2> QED
    BY <2>1, <2>5, <2>6
<1>22. CASE Publish
  <2> DEFINE m == Request("publish", 0, None)
  <2>1. /\ toClient' = Append(toClient, m) /\ m \in M /\ m.type # "method"
        /\ UNCHANGED <<pc, client, channel, callVars, hand, sock, toServer, server, subs>>
    BY <1>8, <1>22 DEF Publish
  <2> HIDE DEF m
  <2>2. Carried(toClient') = Carried(toClient) /\ (Sole(toClient) => Sole(toClient'))
    BY <1>a, <2>1, CarriedAppend
  <2>3. InHand' = InHand
    BY <2>1 DEF InHand
  <2> QED
    BY <1>g, <2>1, <2>2, <2>3, AnswerQuiet DEF client, callVars
<1>23. CASE AliveExpires \/ ServerEnds \/ ServerHangs
  <2>1. /\ toServer' = <<>> /\ (sock' = sock \/ (sock = "up" /\ sock' = "eof"))
        /\ UNCHANGED <<pc, client, channel, callVars, hand, toClient>>
    BY <1>23 DEF AliveExpires, ServerEnds, ServerHangs
  <2>2. InHand' = InHand
    BY <2>1 DEF InHand
  <2> QED
    BY <1>g, <2>1, <2>2, CarriedEmpty, AnswerQuiet DEF client, callVars
<1>24. CASE UNCHANGED vars
  <2>1. InHand' = InHand /\ pc' = pc
    BY <1>24 DEF InHand, vars
  <2> QED
    BY <1>g, <1>24, <2>1, AnswerQuiet DEF vars, client, callVars, net
<1>25. ASSUME NEW b \in Callers PROVE b = c
  OBVIOUS
<1> QED
  BY <1>1, <1>2, <1>3, <1>4, <1>5, <1>6, <1>9, <1>10, <1>11, <1>12, <1>13, <1>14, <1>15, <1>16,
     <1>17, <1>18, <1>19, <1>20, <1>21, <1>22, <1>23, <1>24, <1>25
     DEF Next, CallStep, RecvStep, CloseStep

\* A client whose calls neither overlap nor have a time limit gives every call its own
\* answer, whatever heartbeats, publications, subscriptions and closings do in between
\* (rpc_client.h:110-130, rpc_client.cc:147-158).  Both conditions are needed: the run
\* RpcClientIds shows the code exchange the answers of two calls in flight.
THEOREM OwnAnswerAlone ==
    ASSUME Cardinality(Callers) = 1, Timed = {}
    PROVE  Spec => []OwnAnswer
<1>1. PICK c : Callers = {c}
  BY ClientAssumption, FS_Singleton
<1> DEFINE I == ClientInv /\ MutexInv /\ TableInv /\ AnswerInv
<1>2. Init => I
  <2> SUFFICES ASSUME Init PROVE I
    OBVIOUS
  <2>1. TableInv
    BY FibersApart DEF Init, TableInv, InCall
  <2>2. InHand = {} /\ pc["recv"] = "read"
    BY FibersApart DEF Init, InHand
  <2>3. InFlight = {} /\ Sole(channel) /\ Sole(toServer) /\ Sole(toClient)
    BY <2>2, CarriedEmpty DEF Init, InFlight
  <2>4. AnswerInv
    BY <2>2, <2>3 DEF Init, AnswerInv, OpenInv, ClosedInv, BoxInv, OwnAnswer, InFlight
  <2> QED
    BY <2>1, <2>4, ClientInit, MutexInit
<1>3. I /\ [Next]_vars => I'
  <2>1. ClientInv /\ [Next]_vars => ClientInv'
    BY FiberStep, DataStep DEF ClientInv
  <2> QED
    BY <1>1, <2>1, MutexStep, TableStep, AnswerStep
<1>4. I => OwnAnswer
  BY DEF AnswerInv
<1> QED
  BY <1>2, <1>3, <1>4, PTL DEF Spec
=============================================================================
