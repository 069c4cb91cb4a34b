---------------------------- MODULE EgressProofs ----------------------------
(***************************************************************************)
(* Theorems about Egress, for any number of nodes, sources and calls, any  *)
(* latency and any time the caches live.                                   *)
(***************************************************************************)
EXTENDS Egress, FiniteSetTheorems, TLAPS

-----------------------------------------------------------------------------
(* Operators *)

\* The lesser of two numbers.
LEMMA MinOfTwo ==
  ASSUME NEW a \in Int, NEW b \in Int
  PROVE  Min({a, b}) = IF a <= b THEN a ELSE b
<1> DEFINE m == IF a <= b THEN a ELSE b
<1>1. m \in {a, b} /\ \A y \in {a, b} : m <= y
  OBVIOUS
<1>2. \A z \in {a, b} : (\A y \in {a, b} : z <= y) => z = m
  OBVIOUS
<1> QED BY <1>1, <1>2 DEF Min

\* A counter that stops at a bound.
LEMMA Capped ==
  ASSUME NEW a \in Nat, NEW b \in Nat
  PROVE  Min({a + 1, b}) \in 0 .. b /\ Min({a + 1, b}) <= a + 1
BY MinOfTwo

\* A cache after a tick: nothing, or the same a tick older.
LEMMA OlderCache ==
  ASSUME NEW cache \in Caches
  PROVE  /\ Older(cache) \in Caches
         /\ Older(cache) # None =>
              /\ cache # None
              /\ Older(cache).meta = cache.meta
              /\ Older(cache).age = cache.age + 1
BY EgressProxyAssumption DEF Older, Caches

-----------------------------------------------------------------------------
(* Types *)

\* Where a call is says what it has: which node it is at, whom it waits for, and
\* that no node is counted as failed that is still to be asked.
CallOK(k) ==
  /\ k.at = "idle" => k = NoCall
  /\ k.at # "idle" => k.node \in Nodes
  /\ k.at = "read" => k.op = "read" /\ k.source \in Sources
  /\ k.at \in {"meta", "ask", "fetched", "collected"} => k.op = "meta"
  /\ k.at = "meta" => k.result = {} /\ k.errs = 0
  /\ k.at = "fetched" => k.client \in k.todo
  /\ k.at = "collected" => k.todo = {}
  /\ k.op # "read" => k.hops = 0
  /\ k.errs + Cardinality(k.todo) <= Cardinality(Nodes)

CallsOK == \A c \in Calls : CallOK(call[c])

TypeInv == TypeOK /\ CallsOK

\* The number of nodes.
LEMMA NodesCount ==
  /\ Cardinality(Nodes) \in Nat
  /\ Cardinality({}) = 0
BY EgressProxyAssumption, FS_CardinalityType, FS_EmptySet

\* A node less to be asked.
LEMMA TodoCount ==
  ASSUME NEW todo \in SUBSET Nodes, NEW n \in todo
  PROVE  /\ Cardinality(todo) \in Nat
         /\ Cardinality(todo \ {n}) = Cardinality(todo) - 1
BY EgressProxyAssumption, FS_Subset, FS_CardinalityType, FS_RemoveElement

\* The records the handlers begin with.
LEMMA NewCalls ==
  /\ NoCall \in CallStates /\ CallOK(NoCall)
  /\ \A n \in Nodes, s \in Sources :
       /\ ToRead(n, s) \in CallStates /\ CallOK(ToRead(n, s))
       /\ ToMeta(n) \in CallStates /\ CallOK(ToMeta(n))
<1>1. 0 \in 0 .. Cardinality(Nodes)
  BY NodesCount
<1>2. NoCall \in CallStates
  BY <1>1 DEF NoCall, CallStates
<1>3. CallOK(NoCall)
  BY NodesCount DEF NoCall, CallOK
<1>4. ASSUME NEW n \in Nodes, NEW s \in Sources
      PROVE  ToRead(n, s) \in CallStates /\ ToMeta(n) \in CallStates
  BY <1>2 DEF ToRead, ToMeta, CallStates
<1>5. ASSUME NEW n \in Nodes, NEW s \in Sources
      PROVE  CallOK(ToRead(n, s)) /\ CallOK(ToMeta(n))
  BY NodesCount DEF ToRead, ToMeta, NoCall, CallOK
<1> QED BY <1>2, <1>3, <1>4, <1>5

\* The record of a call is replaced by a proper one.
LEMMA ReplaceCall ==
  ASSUME TypeInv, NEW c \in Calls, NEW k \in CallStates, CallOK(k),
         call' = [call EXCEPT ![c] = k]
  PROVE  call' \in [Calls -> CallStates] /\ CallsOK'
BY DEF TypeInv, TypeOK, ProxyTypeOK, CallsOK

\* The answer of a node is added.
LEMMA GatherType ==
  ASSUME TypeInv, NEW c \in Calls, NEW n \in call[c].todo,
         NEW meta \in SUBSET Sources,
         call[c].at \in {"ask", "fetched"}, Gather(c, n, meta)
  PROVE  call' \in [Calls -> CallStates] /\ CallsOK'
<1> DEFINE todo == call[c].todo \ {n}
           k == [call[c] EXCEPT !.at = IF todo = {} THEN "collected" ELSE "ask",
                                !.todo = todo, !.got = {}, !.client = None,
                                !.result = @ \cup meta]
<1>1. call[c] \in CallStates /\ CallOK(call[c])
  BY DEF TypeInv, TypeOK, ProxyTypeOK, CallsOK
<1>2. call' = [call EXCEPT ![c] = k]
  BY DEF Gather, TypeInv, TypeOK, ProxyTypeOK
<1>3. k \in CallStates
  BY <1>1 DEF CallStates
<1>4. CallOK(k)
  <2>1. Cardinality(todo) = Cardinality(call[c].todo) - 1 /\ Cardinality(call[c].todo) \in Nat
    BY <1>1, TodoCount DEF CallStates
  <2> QED BY <1>1, <2>1, NodesCount DEF CallOK, CallStates
<1> HIDE DEF k
<1> QED BY <1>2, <1>3, <1>4, ReplaceCall

\* Nobody answers, or is waited for.
LEMMA AskFailsType ==
  ASSUME TypeInv, NEW c \in Calls, AskFails(c)
  PROVE  call' \in [Calls -> CallStates] /\ CallsOK'
<1>1. call[c] \in CallStates /\ CallOK(call[c])
  BY DEF TypeInv, TypeOK, ProxyTypeOK, CallsOK
<1>2. PICK n \in call[c].todo \ {call[c].node} :
        LET todo == call[c].todo \ {n} IN
        call' = [call EXCEPT ![c].at = IF todo = {} THEN "collected" ELSE "ask",
                             ![c].todo = todo, ![c].errs = @ + 1]
  BY DEF AskFails
<1> DEFINE todo == call[c].todo \ {n}
           k == [call[c] EXCEPT !.at = IF todo = {} THEN "collected" ELSE "ask",
                                !.todo = todo, !.errs = @ + 1]
<1>3. call' = [call EXCEPT ![c] = k]
  BY <1>2 DEF TypeInv, TypeOK, ProxyTypeOK
<1>4. Cardinality(todo) = Cardinality(call[c].todo) - 1 /\ Cardinality(call[c].todo) \in Nat
  BY <1>1, TodoCount DEF CallStates
<1>5. Cardinality(todo) \in Nat
  BY <1>1, EgressProxyAssumption, FS_Subset, FS_CardinalityType DEF CallStates
<1>6. /\ call[c].errs + 1 \in 0 .. Cardinality(Nodes)
      /\ call[c].errs + 1 + Cardinality(todo) <= Cardinality(Nodes)
  BY <1>1, <1>4, <1>5, NodesCount DEF CallStates, CallOK
<1>7. k \in CallStates
  BY <1>1, <1>6 DEF CallStates
<1>8. CallOK(k)
  <2> HIDE DEF todo
  <2>1. /\ k.op = "meta" /\ k.node \in Nodes /\ k.hops = 0 /\ k.todo = todo
        /\ k.errs = call[c].errs + 1
        /\ k.at = IF todo = {} THEN "collected" ELSE "ask"
    BY <1>1 DEF CallOK, CallStates, AskFails
  <2> HIDE DEF k
  <2> QED BY <2>1, <1>6 DEF CallOK
<1> HIDE DEF k
<1> QED BY <1>3, <1>7, <1>8, ReplaceCall

\* A step of Read.
LEMMA ReadType ==
  ASSUME TypeInv, NEW c \in Calls, RouteRead(c) \/ ForwardRead(c, 2)
  PROVE  call' \in [Calls -> CallStates] /\ CallsOK'
<1>1. call[c] \in CallStates /\ CallOK(call[c])
  BY DEF TypeInv, TypeOK, ProxyTypeOK, CallsOK
<1>2. CASE RouteRead(c)
  <2>1. PICK at \in {"failed", "done", "read"} :
          call' = [call EXCEPT ![c] = [call[c] EXCEPT !.at = at]]
    <3>1. \/ call' = [call EXCEPT ![c] = [call[c] EXCEPT !.at = "failed"]]
          \/ call' = [call EXCEPT ![c] = [call[c] EXCEPT !.at = "done"]]
          \/ call' = [call EXCEPT ![c] = call[c]]
      BY <1>2 DEF RouteRead, TypeInv, TypeOK, ProxyTypeOK
    <3>2. [call[c] EXCEPT !.at = "read"] = call[c]
      BY <1>1, <1>2 DEF RouteRead, CallStates
    <3> QED BY <3>1, <3>2
  <2>2. [call[c] EXCEPT !.at = at] \in CallStates
    BY <1>1 DEF CallStates
  <2>3. CallOK([call[c] EXCEPT !.at = at])
    BY <1>1, <1>2 DEF CallOK, CallStates, RouteRead
  <2> QED BY <2>1, <2>2, <2>3, ReplaceCall
<1>3. CASE ForwardRead(c, 2)
  <2>1. PICK m \in ReadFrom(call[c].node, call[c].source) \ {call[c].node} :
          call' = [call EXCEPT ![c].node = m, ![c].hops = Min({@ + 1, 2})]
    BY <1>3 DEF ForwardRead
  <2> DEFINE k == [call[c] EXCEPT !.node = m, !.hops = Min({@ + 1, 2})]
  <2>2. call' = [call EXCEPT ![c] = k]
    BY <2>1 DEF TypeInv, TypeOK, ProxyTypeOK
  <2>3. m \in Nodes
    <3>1. call[c].node \in Nodes /\ call[c].source \in Sources
      BY <1>1, <1>3 DEF ForwardRead, CallOK
    <3>2. routes[call[c].node][call[c].source] \subseteq Nodes
      BY <3>1 DEF TypeInv, TypeOK, ProxyTypeOK
    <3> QED BY <2>1, <3>2 DEF ReadFrom
  <2>4. k \in CallStates
    <3>1. call[c].hops \in Nat
      BY <1>1 DEF CallStates
    <3>2. \A h \in Nat : Min({h + 1, 2}) \in Nat
      BY Capped
    <3>3. Min({call[c].hops + 1, 2}) \in Nat
      BY <3>1, <3>2
    <3> QED BY <1>1, <2>3, <3>3 DEF CallStates
  <2>5. CallOK(k)
    BY <1>1, <1>3, <2>3 DEF CallOK, CallStates, ForwardRead, NoCall
  <2> HIDE DEF k
  <2> QED BY <2>2, <2>4, <2>5, ReplaceCall
<1> QED BY <1>2, <1>3

\* A step of Meta at the node that was asked.
LEMMA MetaType ==
  ASSUME TypeInv, NEW c \in Calls, CheckCache(c) \/ StoreRemote(c)
  PROVE  /\ call' \in [Calls -> CallStates] /\ CallsOK'
         /\ remoteMetaCache' \in [Nodes -> Caches]
<1>1. call[c] \in CallStates /\ CallOK(call[c])
  BY DEF TypeInv, TypeOK, ProxyTypeOK, CallsOK
<1>2. CASE CheckCache(c)
  <2> DEFINE cache == remoteMetaCache[call[c].node]
  <2>1. CASE cache = None
    <3> DEFINE k == [call[c] EXCEPT !.at = "ask", !.todo = Nodes]
    <3>1. call' = [call EXCEPT ![c] = k]
      BY <1>2, <2>1 DEF CheckCache, TypeInv, TypeOK, ProxyTypeOK
    <3>2. k \in CallStates
      BY <1>1 DEF CallStates
    <3>3. CallOK(k)
      BY <1>1, <1>2, NodesCount DEF CallOK, CallStates, CheckCache
    <3> HIDE DEF k
    <3> QED BY <1>2, <3>1, <3>2, <3>3, ReplaceCall DEF CheckCache, TypeInv, TypeOK, ProxyTypeOK
  <2>2. CASE cache # None
    <3> DEFINE k == [call[c] EXCEPT !.at = "done", !.result = cache.meta]
    <3>1. call' = [call EXCEPT ![c] = k]
      BY <1>2, <2>2 DEF CheckCache, TypeInv, TypeOK, ProxyTypeOK
    <3>2. call[c].node \in Nodes
      BY <1>1, <1>2 DEF CallOK, CheckCache
    <3>3. cache.meta \in SUBSET Sources
      BY <2>2, <3>2 DEF TypeInv, TypeOK, ProxyTypeOK, Caches
    <3>4. k \in CallStates
      BY <1>1, <3>3 DEF CallStates
    <3>5. CallOK(k)
      BY <1>1, <1>2 DEF CallOK, CallStates, CheckCache
    <3> HIDE DEF k
    <3> QED BY <1>2, <3>1, <3>4, <3>5, ReplaceCall DEF CheckCache, TypeInv, TypeOK, ProxyTypeOK
  <2> QED BY <2>1, <2>2
<1>3. CASE StoreRemote(c)
  <2>1. PICK at \in {"failed", "done"} :
          call' = [call EXCEPT ![c] = [call[c] EXCEPT !.at = at]]
    BY <1>3 DEF StoreRemote, TypeInv, TypeOK, ProxyTypeOK
  <2>2. [call[c] EXCEPT !.at = at] \in CallStates
    BY <1>1 DEF CallStates
  <2>3. CallOK([call[c] EXCEPT !.at = at])
    BY <1>1, <1>3 DEF CallOK, CallStates, StoreRemote
  <2>4. [age |-> 0, meta |-> call[c].result] \in Caches
    BY <1>1, EgressProxyAssumption DEF Caches, CallStates
  <2> QED BY <1>3, <2>1, <2>2, <2>3, <2>4, ReplaceCall
          DEF StoreRemote, TypeInv, TypeOK, ProxyTypeOK
<1> QED BY <1>2, <1>3

\* A node is asked, and the answer comes from its cache or from its store.
LEMMA AskType ==
  ASSUME TypeInv, NEW c \in Calls, AskNode(c) \/ StoreLocal(c)
  PROVE  /\ call' \in [Calls -> CallStates] /\ CallsOK'
         /\ localMetaCache' \in [Nodes -> Caches]
<1>1. call[c] \in CallStates /\ CallOK(call[c])
  BY DEF TypeInv, TypeOK, ProxyTypeOK, CallsOK
<1>2. CASE AskNode(c)
  <2>1. PICK n \in call[c].todo :
          \/ Gather(c, n, LocalMeta(n))
          \/ localMetaCache[n] # None /\ Gather(c, n, localMetaCache[n].meta)
          \/ call' = [call EXCEPT ![c].at = "fetched", ![c].client = n,
                                  ![c].got = LocalMeta(n)]
    BY <1>2 DEF AskNode
  <2>2. n \in Nodes /\ call[c].at = "ask"
    BY <1>1, <1>2 DEF CallStates, AskNode
  <2>3. LocalMeta(n) \in SUBSET Sources
    BY <2>2 DEF LocalMeta, TypeInv, TypeOK, ProxyTypeOK
  <2>4. localMetaCache[n] # None => localMetaCache[n].meta \in SUBSET Sources
    BY <2>2 DEF TypeInv, TypeOK, ProxyTypeOK, Caches
  <2> DEFINE k == [call[c] EXCEPT !.at = "fetched", !.client = n, !.got = LocalMeta(n)]
  <2>5. CASE call' = [call EXCEPT ![c] = k]
    <3>1. k \in CallStates
      BY <1>1, <2>2, <2>3 DEF CallStates
    <3>2. CallOK(k)
      BY <1>1, <2>2 DEF CallOK, CallStates
    <3> HIDE DEF k
    <3> QED BY <1>2, <2>5, <3>1, <3>2, ReplaceCall DEF AskNode, TypeInv, TypeOK, ProxyTypeOK
  <2>6. CASE Gather(c, n, LocalMeta(n))
    BY <1>2, <2>2, <2>3, <2>6, GatherType DEF AskNode, TypeInv, TypeOK, ProxyTypeOK
  <2>7. CASE localMetaCache[n] # None /\ Gather(c, n, localMetaCache[n].meta)
    BY <1>2, <2>2, <2>4, <2>7, GatherType DEF AskNode, TypeInv, TypeOK, ProxyTypeOK
  <2>8. [call EXCEPT ![c].at = "fetched", ![c].client = n, ![c].got = LocalMeta(n)]
          = [call EXCEPT ![c] = k]
    BY DEF TypeInv, TypeOK, ProxyTypeOK
  <2> QED BY <2>1, <2>5, <2>6, <2>7, <2>8
<1>3. CASE StoreLocal(c)
  <2>1. call[c].client \in call[c].todo /\ call[c].at = "fetched"
    BY <1>1, <1>3 DEF CallOK, StoreLocal
  <2>2. call[c].client \in Nodes /\ call[c].got \in SUBSET Sources
    BY <1>1, <2>1 DEF CallStates
  <2>3. call' \in [Calls -> CallStates] /\ CallsOK'
    BY <1>3, <2>1, <2>2, GatherType DEF StoreLocal
  <2>4. [age |-> 0, meta |-> call[c].got] \in Caches
    BY <2>2, EgressProxyAssumption DEF Caches
  <2> QED BY <1>3, <2>3, <2>4 DEF StoreLocal, TypeInv, TypeOK, ProxyTypeOK
<1> QED BY <1>2, <1>3

\* A step of a call.
LEMMA ProceedType ==
  ASSUME TypeInv, UNCHANGED workload, NEW c \in Calls, Proceed(c)
  PROVE  TypeInv'
<1>1. CASE RouteRead(c) \/ ForwardRead(c, 2)
  <2>1. call' \in [Calls -> CallStates] /\ CallsOK'
    BY <1>1, ReadType
  <2> QED BY <1>1, <2>1 DEF Proceed, RouteRead, ForwardRead, TypeInv, TypeOK, ProxyTypeOK
<1>2. CASE CheckCache(c) \/ StoreRemote(c)
  <2>1. /\ call' \in [Calls -> CallStates] /\ CallsOK'
        /\ remoteMetaCache' \in [Nodes -> Caches]
    BY <1>2, MetaType
  <2> QED BY <1>2, <2>1 DEF Proceed, CheckCache, StoreRemote, TypeInv, TypeOK, ProxyTypeOK
<1>3. CASE AskNode(c) \/ StoreLocal(c)
  <2>1. /\ call' \in [Calls -> CallStates] /\ CallsOK'
        /\ localMetaCache' \in [Nodes -> Caches]
    BY <1>3, AskType
  <2> QED BY <1>3, <2>1 DEF Proceed, AskNode, StoreLocal, TypeInv, TypeOK, ProxyTypeOK
<1>4. CASE AskFails(c)
  <2>1. call' \in [Calls -> CallStates] /\ CallsOK'
    BY <1>4, AskFailsType
  <2> QED BY <1>4, <2>1 DEF Proceed, AskFails, TypeInv, TypeOK, ProxyTypeOK
<1> QED BY <1>1, <1>2, <1>3, <1>4 DEF Proceed, Answer

\* A call begins or is over, fails or is cancelled.
LEMMA CallerType ==
  ASSUME TypeInv, UNCHANGED workload, NEW c \in Calls,
         Begin(c) \/ Finish(c) \/ PeerFails(c) \/ Cancel(c)
  PROVE  TypeInv'
<1>1. call[c] \in CallStates /\ CallOK(call[c])
  BY DEF TypeInv, TypeOK, ProxyTypeOK, CallsOK
<1>a. 0 \in 0 .. (Staleness + 1) /\ 0 \in 0 .. MaxLatency
  BY EgressAssumption, EgressProxyAssumption DEF Staleness
<1>2. CASE Begin(c)
  <2>1. PICK n \in Nodes, s \in Sources :
          call' = [call EXCEPT ![c] =
                     IF workload = "meta" THEN ToMeta(n) ELSE ToRead(n, s)]
    BY <1>2 DEF Begin
  <2>2. PICK k \in {ToMeta(n), ToRead(n, s)} : call' = [call EXCEPT ![c] = k]
    BY <2>1
  <2>3. k \in CallStates /\ CallOK(k)
    BY NewCalls
  <2>4. call' \in [Calls -> CallStates] /\ CallsOK'
    BY <2>2, <2>3, ReplaceCall
  <2> QED BY <1>2, <2>4 DEF Begin, TypeInv, TypeOK, ProxyTypeOK
<1>3. CASE Finish(c)
  <2>1. call' \in [Calls -> CallStates] /\ CallsOK'
    BY <1>3, NewCalls, ReplaceCall DEF Finish
  <2>2. clock' \in [Calls -> 0 .. MaxLatency] /\ rerouted' \subseteq Calls
    BY <1>a, <1>3 DEF Finish, TypeInv, TypeOK
  <2> QED BY <1>3, <2>1, <2>2 DEF Finish, TypeInv, TypeOK, ProxyTypeOK
<1>4. CASE PeerFails(c)
  <2>1. call' \in [Calls -> CallStates] /\ CallsOK'
    BY <1>4, AskFailsType DEF PeerFails
  <2>2. settled' \in [Sources -> 0 .. (Staleness + 1)]
    BY <1>a, <1>4 DEF PeerFails, Unsettled
  <2>3. faults' \in 0 .. MaxFaults
    BY <1>4, EgressAssumption DEF PeerFails, TypeInv, TypeOK
  <2> QED BY <1>4, <2>1, <2>2, <2>3 DEF PeerFails, AskFails, TypeInv, TypeOK, ProxyTypeOK
<1>5. CASE Cancel(c)
  <2> DEFINE k == [call[c] EXCEPT !.cancelled = TRUE]
  <2>1. call' = [call EXCEPT ![c] = k]
    BY <1>5 DEF Cancel, TypeInv, TypeOK, ProxyTypeOK
  <2>2. k \in CallStates
    BY <1>1 DEF CallStates
  <2>3. CallOK(k)
    BY <1>1, <1>5 DEF CallOK, CallStates, Cancel
  <2>4. call' \in [Calls -> CallStates] /\ CallsOK'
    <3> HIDE DEF k
    <3> QED BY <2>1, <2>2, <2>3, ReplaceCall
  <2>5. settled' \in [Sources -> 0 .. (Staleness + 1)]
    BY <1>a, <1>5 DEF Cancel, Unsettled
  <2>6. faults' \in 0 .. MaxFaults
    BY <1>5, EgressAssumption DEF Cancel, TypeInv, TypeOK
  <2> QED BY <1>5, <2>4, <2>5, <2>6 DEF Cancel, TypeInv, TypeOK, ProxyTypeOK
<1> QED BY <1>2, <1>3, <1>4, <1>5

\* Sources come and go, and tables change.
LEMMA ChangeType ==
  ASSUME TypeInv, UNCHANGED workload, NEW n \in Nodes, NEW s \in Sources,
         Arrive(n, s) \/ Expire(n, s) \/ Reroute(n, s)
  PROVE  TypeInv'
<1>a. 0 \in 0 .. (Staleness + 1)
  BY EgressAssumption, EgressProxyAssumption DEF Staleness
<1>1. changes' \in 0 .. MaxChanges
  BY EgressAssumption DEF Arrive, Expire, Reroute, TypeInv, TypeOK
<1>2. CASE Arrive(n, s)
  BY <1>a, <1>1, <1>2 DEF Arrive, TypeInv, TypeOK, ProxyTypeOK, CallsOK
<1>3. CASE Expire(n, s)
  BY <1>a, <1>1, <1>3 DEF Expire, TypeInv, TypeOK, ProxyTypeOK, CallsOK
<1>4. CASE Reroute(n, s)
  BY <1>1, <1>4 DEF Reroute, TypeInv, TypeOK, ProxyTypeOK, CallsOK
<1> QED BY <1>2, <1>3, <1>4

\* Time passes.
LEMMA TickType ==
  ASSUME TypeInv, UNCHANGED workload, Tick
  PROVE  TypeInv'
<1>1. /\ remoteMetaCache' \in [Nodes -> Caches]
      /\ localMetaCache' \in [Nodes -> Caches]
  BY OlderCache DEF Tick, CachesTick, TypeInv, TypeOK, ProxyTypeOK
<1>2. clock' \in [Calls -> 0 .. MaxLatency]
  BY EgressAssumption DEF Tick, TypeInv, TypeOK
<1>3. Staleness + 1 \in Nat
  BY EgressAssumption, EgressProxyAssumption DEF Staleness
<1>4. \A a \in Nat : Min({a + 1, Staleness + 1}) \in 0 .. (Staleness + 1)
  BY <1>3, Capped
<1>5. /\ gone' \in [Sources -> 0 .. (Staleness + 1)]
      /\ settled' \in [Sources -> 0 .. (Staleness + 1)]
  BY <1>3, <1>4 DEF Tick, TypeInv, TypeOK
<1> QED BY <1>1, <1>2, <1>5 DEF Tick, TypeInv, TypeOK, ProxyTypeOK, CallsOK

\* At the start.
LEMMA InitType == Init => TypeInv
<1> SUFFICES ASSUME Init PROVE TypeInv
  OBVIOUS
<1>1. Staleness + 1 \in Nat
  BY EgressAssumption, EgressProxyAssumption DEF Staleness
<1>2. routes \in [Nodes -> [Sources -> SUBSET Nodes]]
  BY DEF Init
<1>3. call \in [Calls -> CallStates] /\ CallsOK
  BY NewCalls DEF Init, ProxyInit, CallsOK
<1> QED BY <1>1, <1>2, <1>3, EgressAssumption
        DEF Init, ProxyInit, TypeInv, TypeOK, ProxyTypeOK, Caches

\* Every step keeps the types.
LEMMA NextType == TypeInv /\ [EgressNext]_vars => TypeInv'
<1> SUFFICES ASSUME TypeInv, [EgressNext]_vars
             PROVE  TypeInv'
  OBVIOUS
<1>1. CASE UNCHANGED vars
  BY <1>1 DEF vars, proxyVars, TypeInv, TypeOK, ProxyTypeOK, CallsOK
<1> QED BY <1>1, ProceedType, CallerType, ChangeType, TickType DEF EgressNext

\* What calls, caches and tables hold is always what the handlers of
\* egress_reverse_proxy.go can go on with, and no more nodes are counted as
\* failed than were asked.
THEOREM TypeCorrect == EgressSpec => []TypeOK
<1>1. TypeInv => TypeOK
  BY DEF TypeInv
<1> QED BY <1>1, InitType, NextType, PTL DEF EgressSpec

-----------------------------------------------------------------------------
(* Reads that are passed on *)

\* With the same table everywhere, a Read is either where it began or at a node
\* that has its source.
HopsOK ==
  \A c \in Calls \ rerouted :
    call[c].op = "read" /\ Consistent =>
      \/ call[c].hops = 0
      \/ /\ call[c].hops = 1
         /\ call[c].node \in routes[call[c].node][call[c].source]

\* A step of a Meta leaves alone what a Read has.
LEMMA MetaSteps ==
  ASSUME TypeInv, NEW c \in Calls,
         CheckCache(c) \/ AskNode(c) \/ StoreLocal(c) \/ StoreRemote(c) \/ AskFails(c)
  PROVE  /\ UNCHANGED <<routes, held>>
         /\ call[c].op = "meta" /\ call'[c].op = "meta"
         /\ \A d \in Calls \ {c} : call'[d] = call[d]
<1>1. call \in [Calls -> CallStates] /\ CallOK(call[c])
  BY DEF TypeInv, TypeOK, ProxyTypeOK, CallsOK
<1>2. call[c].op = "meta"
  BY <1>1 DEF CheckCache, AskNode, StoreLocal, StoreRemote, AskFails, CallOK
<1>3. ASSUME NEW n, NEW meta, Gather(c, n, meta)
      PROVE  call'[c].op = call[c].op /\ \A d \in Calls \ {c} : call'[d] = call[d]
  <2> DEFINE k == [call[c] EXCEPT !.at = IF call[c].todo \ {n} = {} THEN "collected" ELSE "ask",
                                  !.todo = @ \ {n}, !.got = {}, !.client = None,
                                  !.result = @ \cup meta]
  <2>1. call' = [call EXCEPT ![c] = k]
    BY <1>1, <1>3 DEF Gather
  <2>2. k.op = call[c].op
    BY <1>1 DEF CallStates
  <2> HIDE DEF k
  <2> QED BY <1>1, <2>1, <2>2
<1>4. call'[c].op = call[c].op /\ \A d \in Calls \ {c} : call'[d] = call[d]
  <2>1. CASE CheckCache(c)
    <3>1. call'[c].op = call[c].op
      BY <1>1, <2>1 DEF CheckCache, CallStates
    <3> QED BY <1>1, <2>1, <3>1 DEF CheckCache
  <2>2. CASE AskNode(c)
    <3>1. PICK n :
            \/ Gather(c, n, LocalMeta(n)) \/ Gather(c, n, localMetaCache[n].meta)
            \/ call' = [call EXCEPT ![c].at = "fetched", ![c].client = n,
                                    ![c].got = LocalMeta(n)]
      BY <2>2 DEF AskNode
    <3> DEFINE k == [call[c] EXCEPT !.at = "fetched", !.client = n, !.got = LocalMeta(n)]
    <3>2. CASE call' = [call EXCEPT ![c] = k]
      <4>1. k.op = call[c].op
        BY <1>1 DEF CallStates
      <4> HIDE DEF k
      <4> QED BY <1>1, <3>2, <4>1
    <3>3. [call EXCEPT ![c].at = "fetched", ![c].client = n, ![c].got = LocalMeta(n)]
            = [call EXCEPT ![c] = k]
      BY <1>1
    <3> QED BY <1>3, <3>1, <3>2, <3>3
  <2>3. CASE StoreLocal(c)
    BY <1>3, <2>3 DEF StoreLocal
  <2>4. CASE StoreRemote(c)
    <3>1. PICK at : call' = [call EXCEPT ![c].at = at]
      BY <2>4 DEF StoreRemote
    <3> QED BY <1>1, <3>1 DEF CallStates
  <2>5. CASE AskFails(c)
    <3>1. PICK at, todo : call' = [call EXCEPT ![c].at = at, ![c].todo = todo,
                                               ![c].errs = @ + 1]
      BY <2>5 DEF AskFails
    <3> QED BY <1>1, <3>1 DEF CallStates
  <2> QED BY <2>1, <2>2, <2>3, <2>4, <2>5
<1> QED BY <1>2, <1>4 DEF CheckCache, AskNode, StoreLocal, StoreRemote, AskFails

\* Every step keeps a Read on its way.
LEMMA NextHops ==
  ASSUME TypeInv, HopsOK, [EgressNext]_vars
  PROVE  HopsOK'
<1>1. call \in [Calls -> CallStates]
  BY DEF TypeInv, TypeOK, ProxyTypeOK
<1>2. ASSUME UNCHANGED routes, rerouted \subseteq rerouted',
             \A c \in Calls \ rerouted' :
               \/ call'[c].op # "read"
               \/ call'[c].hops = 0
               \/ /\ call'[c].op = call[c].op /\ call'[c].hops = call[c].hops
                  /\ call'[c].node = call[c].node /\ call'[c].source = call[c].source
      PROVE  HopsOK'
  BY <1>2 DEF HopsOK, Consistent
<1>3. ASSUME NEW c \in Calls,
             CheckCache(c) \/ AskNode(c) \/ StoreLocal(c) \/ StoreRemote(c) \/ AskFails(c),
             UNCHANGED rerouted
      PROVE  HopsOK'
  BY <1>2, <1>3, MetaSteps
<1>4. ASSUME NEW c \in Calls, Begin(c)
      PROVE  HopsOK'
  <2>1. \A n \in Nodes, s \in Sources : ToMeta(n).hops = 0 /\ ToRead(n, s).hops = 0
    BY DEF ToMeta, ToRead, NoCall
  <2>2. call'[c].hops = 0 /\ \A d \in Calls \ {c} : call'[d] = call[d]
    BY <1>1, <1>4, <2>1 DEF Begin
  <2> QED BY <1>2, <1>4, <2>2 DEF Begin
<1>5. ASSUME NEW c \in Calls, Proceed(c)
      PROVE  HopsOK'
  <2>1. CASE RouteRead(c)
    <3>1. /\ call'[c].op = call[c].op /\ call'[c].hops = call[c].hops
          /\ call'[c].node = call[c].node /\ call'[c].source = call[c].source
          /\ \A d \in Calls \ {c} : call'[d] = call[d]
      BY <1>1, <2>1 DEF RouteRead, CallStates
    <3> QED BY <1>2, <1>5, <2>1, <3>1 DEF Proceed, RouteRead
  <2>2. CASE ForwardRead(c, 2)
    <3>1. PICK m \in ReadFrom(call[c].node, call[c].source) \ {call[c].node} :
            call' = [call EXCEPT ![c].node = m, ![c].hops = Min({@ + 1, 2})]
      BY <2>2 DEF ForwardRead
    <3>2. m \in routes[call[c].node][call[c].source]
          /\ call[c].node \notin routes[call[c].node][call[c].source]
      BY <3>1 DEF ReadFrom
    <3>3. call[c].node \in Nodes /\ call[c].source \in Sources /\ call[c].op = "read"
      BY <2>2 DEF ForwardRead, TypeInv, CallsOK, CallOK
    <3>4. m \in Nodes
      BY <3>2, <3>3 DEF TypeInv, TypeOK, ProxyTypeOK
    <3>5. /\ call'[c].node = m /\ call'[c].source = call[c].source
          /\ call'[c].hops = Min({call[c].hops + 1, 2})
          /\ \A d \in Calls \ {c} : call'[d] = call[d]
      BY <1>1, <3>1 DEF CallStates
    <3>6. Min({0 + 1, 2}) = 1
      BY MinOfTwo
    <3>7. UNCHANGED <<routes, rerouted>>
      BY <1>5, <2>2 DEF Proceed, ForwardRead
    <3>8. ASSUME c \notin rerouted, Consistent
          PROVE  call'[c].hops = 1 /\ m \in routes[m][call[c].source]
      BY <3>2, <3>3, <3>4, <3>5, <3>6, <3>8 DEF HopsOK, Consistent
    <3> QED BY <3>5, <3>7, <3>8 DEF HopsOK, Consistent
  <2>3. CASE CheckCache(c) \/ AskNode(c) \/ StoreLocal(c) \/ StoreRemote(c) \/ AskFails(c)
    BY <1>3, <1>5, <2>3 DEF Proceed
  <2> QED BY <1>5, <2>1, <2>2, <2>3 DEF Proceed, Answer
<1>6. ASSUME NEW c \in Calls, Finish(c)
      PROVE  HopsOK'
  <2>1. call'[c].op # "read" /\ \A d \in Calls \ {c} : call'[d] = call[d]
    BY <1>1, <1>6 DEF Finish, NoCall
  <2> QED BY <1>6, <2>1 DEF Finish, HopsOK, Consistent
<1>7. ASSUME NEW c \in Calls, PeerFails(c)
      PROVE  HopsOK'
  BY <1>3, <1>7 DEF PeerFails
<1>8. ASSUME NEW c \in Calls, Cancel(c)
      PROVE  HopsOK'
  <2>1. /\ call'[c].op = call[c].op /\ call'[c].hops = call[c].hops
        /\ call'[c].node = call[c].node /\ call'[c].source = call[c].source
        /\ \A d \in Calls \ {c} : call'[d] = call[d]
    BY <1>1, <1>8 DEF Cancel, CallStates
  <2> QED BY <1>2, <1>8, <2>1 DEF Cancel
<1>9. ASSUME NEW n \in Nodes, NEW s \in Sources, Arrive(n, s) \/ Expire(n, s)
      PROVE  HopsOK'
  BY <1>2, <1>9 DEF Arrive, Expire
<1>10. ASSUME NEW n \in Nodes, NEW s \in Sources, Reroute(n, s)
       PROVE  HopsOK'
  BY <1>10 DEF Reroute, HopsOK
<1>11. CASE Tick
  BY <1>2, <1>11 DEF Tick
<1>12. CASE UNCHANGED vars
  BY <1>2, <1>12 DEF vars, proxyVars
<1> QED BY <1>4, <1>5, <1>6, <1>7, <1>8, <1>9, <1>10, <1>11, <1>12 DEF EgressNext

\* A Read makes at most one hop (egress_reverse_proxy.go, Read) whatever the
\* number of nodes, while their tables agree and stay as they are: the peer that
\* looks the source up again is a node that has it.
THEOREM ReadsHopOnce == EgressSpec => []OneHop
<1>1. Init => HopsOK
  BY DEF Init, ProxyInit, HopsOK, NoCall
<1>2. TypeInv /\ HopsOK => OneHop
  BY DEF TypeInv, TypeOK, ProxyTypeOK, CallsOK, CallOK, HopsOK, OneHop
<1>3. TypeInv /\ HopsOK /\ [EgressNext]_vars => TypeInv' /\ HopsOK'
  BY NextType, NextHops
<1> QED BY <1>1, <1>2, <1>3, InitType, PTL DEF EgressSpec

-----------------------------------------------------------------------------
(* What Meta gathers *)

Gathering(k) == k.at \in {"ask", "fetched", "collected"}

\* What a call that takes the time t was told is not gone for long.
CallFresh(k, t) ==
  /\ k.at = "fetched" => \A s \in k.got : gone[s] <= t
  /\ Gathering(k) => \A s \in k.result : gone[s] <= MaxLatency + metaCacheDuration + t
  /\ k.op = "meta" /\ k.at = "done" => \A s \in k.result : gone[s] <= Staleness

\* What a node that was asked has, and the call was not told, did not have long.
CallWhole(k, t) ==
  /\ k.cancelled => \A s \in Sources : settled[s] <= t
  /\ k.at = "fetched" => \A s \in held[k.client] \ k.got : settled[s] <= t
  /\ Gathering(k) => \A n \in Nodes \ k.todo : \A s \in held[n] \ k.result :
       settled[s] <= MaxLatency + metaCacheDuration + t
  /\ k.op = "meta" /\ k.at = "done" =>
       \A s \in Sources \ k.result : settled[s] <= Staleness

\* What a cache says is out of date by its age and by what it was when stored.
LocalFresh(n, cache) ==
  cache # None =>
    /\ \A s \in cache.meta : gone[s] <= MaxLatency + cache.age
    /\ \A s \in held[n] \ cache.meta : settled[s] <= MaxLatency + cache.age

RemoteFresh(cache) ==
  cache # None =>
    /\ \A s \in cache.meta :
         gone[s] <= 2 * MaxLatency + metaCacheDuration + cache.age
    /\ \A s \in Sources \ cache.meta :
         settled[s] <= 2 * MaxLatency + metaCacheDuration + cache.age

\* What is held is not gone, and only what is held is settled.
HeldOK ==
  \A s \in Sources : IF Has(s) = {} THEN settled[s] = 0 ELSE gone[s] = 0

CallsFresh == \A c \in Calls : CallFresh(call[c], clock[c]) /\ CallWhole(call[c], clock[c])

CachesFresh ==
  \A n \in Nodes : LocalFresh(n, localMetaCache[n]) /\ RemoteFresh(remoteMetaCache[n])

FreshInv == HeldOK /\ CallsFresh /\ CachesFresh

\* Numbers that the proofs below compare.
LEMMA Times ==
  ASSUME TypeInv
  PROVE  /\ MaxLatency \in Nat /\ metaCacheDuration \in Nat
         /\ Staleness = 2 * MaxLatency + 2 * metaCacheDuration /\ Staleness \in Nat
         /\ \A s \in Sources : gone[s] \in Nat /\ settled[s] \in Nat
         /\ \A c \in Calls : clock[c] \in 0 .. MaxLatency
         /\ \A n \in Nodes : held[n] \in SUBSET Sources
BY EgressAssumption, EgressProxyAssumption DEF TypeInv, TypeOK, ProxyTypeOK, Staleness

\* A step that only one call and the caches take part in.
LEMMA CallStep ==
  ASSUME FreshInv, UNCHANGED <<held, gone, settled>>, NEW c \in Calls,
         \A d \in Calls \ {c} : call'[d] = call[d] /\ clock'[d] = clock[d],
         CallFresh(call'[c], clock'[c]), CallWhole(call'[c], clock'[c]),
         \A n \in Nodes : \/ localMetaCache'[n] = localMetaCache[n]
                          \/ LocalFresh(n, localMetaCache'[n]),
         \A n \in Nodes : \/ remoteMetaCache'[n] = remoteMetaCache[n]
                          \/ RemoteFresh(remoteMetaCache'[n])
  PROVE  FreshInv'
<1>1. HeldOK'
  BY DEF FreshInv, HeldOK, Has
<1>2. ASSUME NEW d \in Calls
      PROVE  (CallFresh(call[d], clock[d]) /\ CallWhole(call[d], clock[d]))'
  <2>1. CallFresh(call'[d], clock'[d]) /\ CallWhole(call'[d], clock'[d])
    BY DEF FreshInv, CallsFresh
  <2> QED BY <2>1 DEF CallFresh, CallWhole
<1>3. ASSUME NEW n \in Nodes
      PROVE  (LocalFresh(n, localMetaCache[n]) /\ RemoteFresh(remoteMetaCache[n]))'
  <2>1. LocalFresh(n, localMetaCache'[n]) /\ RemoteFresh(remoteMetaCache'[n])
    BY DEF FreshInv, CachesFresh
  <2> QED BY <2>1 DEF LocalFresh, RemoteFresh
<1> QED BY <1>1, <1>2, <1>3 DEF FreshInv, CallsFresh, CachesFresh

\* The answer of a node is as old as was said.
LEMMA GatherFresh ==
  ASSUME TypeInv, FreshInv, NEW c \in Calls, NEW n \in call[c].todo,
         NEW meta \in SUBSET Sources,
         call[c].at \in {"ask", "fetched"}, Gather(c, n, meta),
         \A s \in meta : gone[s] <= MaxLatency + metaCacheDuration + clock[c],
         \A s \in held[n] \ meta : settled[s] <= MaxLatency + metaCacheDuration + clock[c]
  PROVE  CallFresh(call'[c], clock[c]) /\ CallWhole(call'[c], clock[c])
<1> DEFINE todo == call[c].todo \ {n}
           k == [call[c] EXCEPT !.at = IF todo = {} THEN "collected" ELSE "ask",
                                !.todo = todo, !.got = {}, !.client = None,
                                !.result = @ \cup meta]
<1>1. call[c] \in CallStates /\ CallFresh(call[c], clock[c]) /\ CallWhole(call[c], clock[c])
  BY DEF TypeInv, TypeOK, ProxyTypeOK, FreshInv, CallsFresh
<1>2. call'[c] = k
  BY DEF Gather, TypeInv, TypeOK, ProxyTypeOK
<1>3. /\ k.at \in {"ask", "collected"} /\ k.cancelled = call[c].cancelled
      /\ k.todo = call[c].todo \ {n} /\ k.result = call[c].result \cup meta
  BY <1>1 DEF CallStates
<1> HIDE DEF k
<1>4. CallFresh(k, clock[c])
  BY <1>1, <1>3 DEF CallFresh, Gathering
<1>5. CallWhole(k, clock[c])
  BY <1>1, <1>3 DEF CallWhole, Gathering
<1> QED BY <1>2, <1>4, <1>5

\* A node that does not answer is not missed for long when the call was cancelled.
LEMMA AskFailsFresh ==
  ASSUME TypeInv, FreshInv, NEW c \in Calls, AskFails(c)
  PROVE  /\ CallFresh(call'[c], clock[c])
         /\ call[c].cancelled => CallWhole(call'[c], clock[c])
         /\ \A d \in Calls \ {c} : call'[d] = call[d]
<1>1. call[c] \in CallStates /\ CallFresh(call[c], clock[c]) /\ CallWhole(call[c], clock[c])
  BY DEF TypeInv, TypeOK, ProxyTypeOK, FreshInv, CallsFresh
<1>2. PICK n \in call[c].todo \ {call[c].node} :
        LET todo == call[c].todo \ {n} IN
        call' = [call EXCEPT ![c].at = IF todo = {} THEN "collected" ELSE "ask",
                             ![c].todo = todo, ![c].errs = @ + 1]
  BY DEF AskFails
<1> DEFINE todo == call[c].todo \ {n}
           k == [call[c] EXCEPT !.at = IF todo = {} THEN "collected" ELSE "ask",
                                !.todo = todo, !.errs = @ + 1]
<1>3. call' = [call EXCEPT ![c] = k]
  BY <1>2 DEF TypeInv, TypeOK, ProxyTypeOK
<1>4. /\ k.at \in {"ask", "collected"} /\ k.cancelled = call[c].cancelled
      /\ k.result = call[c].result
  BY <1>1 DEF CallStates
<1> HIDE DEF k
<1>5. CallFresh(k, clock[c])
  BY <1>1, <1>4 DEF CallFresh, Gathering, AskFails
<1>6. call[c].cancelled => CallWhole(k, clock[c])
  BY <1>1, <1>4, Times DEF CallWhole, Gathering
<1> QED BY <1>3, <1>5, <1>6 DEF TypeInv, TypeOK, ProxyTypeOK

\* What a node answers is as fresh as its store, its cache, or what was fetched.
LEMMA AskFresh ==
  ASSUME TypeInv, FreshInv, NEW c \in Calls, AskNode(c) \/ StoreLocal(c)
  PROVE  /\ CallFresh(call'[c], clock[c]) /\ CallWhole(call'[c], clock[c])
         /\ \A n \in Nodes : \/ localMetaCache'[n] = localMetaCache[n]
                             \/ LocalFresh(n, localMetaCache'[n])
<1>1. /\ call[c] \in CallStates /\ CallOK(call[c])
      /\ CallFresh(call[c], clock[c]) /\ CallWhole(call[c], clock[c])
  BY DEF TypeInv, TypeOK, ProxyTypeOK, CallsOK, FreshInv, CallsFresh
<1>2. CASE AskNode(c)
  <2>1. PICK n \in call[c].todo :
          \/ Gather(c, n, LocalMeta(n))
          \/ localMetaCache[n] # None /\ Gather(c, n, localMetaCache[n].meta)
          \/ call' = [call EXCEPT ![c].at = "fetched", ![c].client = n,
                                  ![c].got = LocalMeta(n)]
    BY <1>2 DEF AskNode
  <2>2. n \in Nodes /\ call[c].at = "ask" /\ UNCHANGED localMetaCache
    BY <1>1, <1>2 DEF CallStates, AskNode
  <2>3. LocalMeta(n) \in SUBSET Sources /\ \A s \in LocalMeta(n) : gone[s] = 0
    BY <2>2, Times DEF LocalMeta, FreshInv, HeldOK, Has
  <2>4. CASE Gather(c, n, LocalMeta(n))
    BY <2>2, <2>3, <2>4, Times, GatherFresh DEF LocalMeta
  <2>5. CASE localMetaCache[n] # None /\ Gather(c, n, localMetaCache[n].meta)
    <3>1. localMetaCache[n].meta \in SUBSET Sources
          /\ localMetaCache[n].age \in 0 .. metaCacheDuration
      BY <2>2, <2>5 DEF TypeInv, TypeOK, ProxyTypeOK, Caches
    <3>2. /\ \A s \in localMetaCache[n].meta :
               gone[s] <= MaxLatency + localMetaCache[n].age
          /\ \A s \in held[n] \ localMetaCache[n].meta :
               settled[s] <= MaxLatency + localMetaCache[n].age
      BY <2>2, <2>5 DEF FreshInv, CachesFresh, LocalFresh
    <3>3. MaxLatency + localMetaCache[n].age <= MaxLatency + metaCacheDuration + clock[c]
          /\ MaxLatency + localMetaCache[n].age \in Nat
          /\ MaxLatency + metaCacheDuration + clock[c] \in Nat
      BY <3>1, Times
    <3>4. /\ \A s \in localMetaCache[n].meta :
               gone[s] <= MaxLatency + metaCacheDuration + clock[c]
          /\ \A s \in held[n] \ localMetaCache[n].meta :
               settled[s] <= MaxLatency + metaCacheDuration + clock[c]
      BY <2>2, <3>1, <3>2, <3>3, Times
    <3> QED BY <2>2, <2>5, <3>1, <3>4, GatherFresh
  <2> DEFINE k == [call[c] EXCEPT !.at = "fetched", !.client = n, !.got = LocalMeta(n)]
  <2>6. CASE call' = [call EXCEPT ![c] = k]
    <3>1. /\ k.at = "fetched" /\ k.client = n /\ k.got = LocalMeta(n)
          /\ k.cancelled = call[c].cancelled /\ k.todo = call[c].todo
          /\ k.result = call[c].result
      BY <1>1 DEF CallStates
    <3> HIDE DEF k
    <3>2. CallFresh(k, clock[c])
      BY <1>1, <2>2, <2>3, <3>1, Times DEF CallFresh, Gathering
    <3>3. CallWhole(k, clock[c])
      BY <1>1, <2>2, <3>1 DEF CallWhole, Gathering, LocalMeta
    <3>4. call'[c] = k
      BY <2>6 DEF TypeInv, TypeOK, ProxyTypeOK
    <3> QED BY <2>2, <3>2, <3>3, <3>4
  <2>7. [call EXCEPT ![c].at = "fetched", ![c].client = n, ![c].got = LocalMeta(n)]
          = [call EXCEPT ![c] = k]
    BY DEF TypeInv, TypeOK, ProxyTypeOK
  <2> QED BY <2>1, <2>4, <2>5, <2>6, <2>7
<1>3. CASE StoreLocal(c)
  <2> DEFINE n == call[c].client
             cache == [age |-> 0, meta |-> call[c].got]
  <2>1. n \in call[c].todo /\ call[c].at = "fetched" /\ n \in Nodes
    BY <1>1, <1>3 DEF CallOK, StoreLocal, CallStates
  <2>2. call[c].got \in SUBSET Sources
    BY <1>1 DEF CallStates
  <2>3. /\ \A s \in call[c].got : gone[s] <= clock[c]
        /\ \A s \in held[n] \ call[c].got : settled[s] <= clock[c]
    BY <1>1, <2>1 DEF CallFresh, CallWhole
  <2>4. CallFresh(call'[c], clock[c]) /\ CallWhole(call'[c], clock[c])
    <3>1. /\ \A s \in call[c].got :
               gone[s] <= MaxLatency + metaCacheDuration + clock[c]
          /\ \A s \in held[n] \ call[c].got :
               settled[s] <= MaxLatency + metaCacheDuration + clock[c]
      BY <2>1, <2>2, <2>3, Times
    <3> QED BY <1>3, <2>1, <2>2, <3>1, GatherFresh DEF StoreLocal
  <2>5. LocalFresh(n, cache)
    BY <2>1, <2>2, <2>3, Times DEF LocalFresh
  <2>6. localMetaCache' = [localMetaCache EXCEPT ![n] = cache]
    BY <1>3 DEF StoreLocal
  <2> HIDE DEF n, cache
  <2> QED BY <2>4, <2>5, <2>6 DEF TypeInv, TypeOK, ProxyTypeOK
<1> QED BY <1>2, <1>3

\* A gathered answer, and one from the cache of its node, are fresh.
LEMMA MetaFreshStep ==
  ASSUME TypeInv, FreshInv, NEW c \in Calls, CheckCache(c) \/ StoreRemote(c)
  PROVE  /\ CallFresh(call'[c], clock[c]) /\ CallWhole(call'[c], clock[c])
         /\ \A n \in Nodes : \/ remoteMetaCache'[n] = remoteMetaCache[n]
                             \/ RemoteFresh(remoteMetaCache'[n])
<1>1. /\ call[c] \in CallStates /\ CallOK(call[c])
      /\ CallFresh(call[c], clock[c]) /\ CallWhole(call[c], clock[c])
  BY DEF TypeInv, TypeOK, ProxyTypeOK, CallsOK, FreshInv, CallsFresh
<1>2. CASE CheckCache(c)
  <2> DEFINE cache == remoteMetaCache[call[c].node]
  <2>1. CASE cache = None
    <3> DEFINE k == [call[c] EXCEPT !.at = "ask", !.todo = Nodes]
    <3>1. call'[c] = k
      BY <1>2, <2>1 DEF CheckCache, TypeInv, TypeOK, ProxyTypeOK
    <3>2. /\ k.at = "ask" /\ k.todo = Nodes /\ k.result = {}
          /\ k.cancelled = call[c].cancelled
      BY <1>1, <1>2 DEF CallStates, CallOK, CheckCache
    <3> HIDE DEF k
    <3>3. CallFresh(k, clock[c]) /\ CallWhole(k, clock[c])
      BY <1>1, <3>2 DEF CallFresh, CallWhole, Gathering
    <3> QED BY <1>2, <3>1, <3>3 DEF CheckCache
  <2>2. CASE cache # None
    <3> DEFINE k == [call[c] EXCEPT !.at = "done", !.result = cache.meta]
    <3>1. call'[c] = k
      BY <1>2, <2>2 DEF CheckCache, TypeInv, TypeOK, ProxyTypeOK
    <3>2. call[c].node \in Nodes
      BY <1>1, <1>2 DEF CallOK, CheckCache
    <3>3. cache.meta \in SUBSET Sources /\ cache.age \in 0 .. metaCacheDuration
      BY <2>2, <3>2 DEF TypeInv, TypeOK, ProxyTypeOK, Caches
    <3>4. k.at = "done" /\ k.result = cache.meta /\ k.cancelled = call[c].cancelled
      BY <1>1 DEF CallStates
    <3> HIDE DEF k
    <3>5. RemoteFresh(cache)
      BY <3>2 DEF FreshInv, CachesFresh
    <3> HIDE DEF cache
    <3>6. /\ \A s \in cache.meta : gone[s] <= Staleness
          /\ \A s \in Sources \ cache.meta : settled[s] <= Staleness
      BY <2>2, <3>3, <3>5, Times DEF RemoteFresh
    <3>7. CallFresh(k, clock[c]) /\ CallWhole(k, clock[c])
      BY <1>1, <3>4, <3>6 DEF CallFresh, CallWhole, Gathering
    <3> QED BY <1>2, <3>1, <3>7 DEF CheckCache
  <2> QED BY <2>1, <2>2
<1>3. CASE StoreRemote(c)
  <2>1. PICK at \in {"failed", "done"} :
          call' = [call EXCEPT ![c] = [call[c] EXCEPT !.at = at]]
    BY <1>3 DEF StoreRemote, TypeInv, TypeOK, ProxyTypeOK
  <2> DEFINE k == [call[c] EXCEPT !.at = at]
             cache == [age |-> 0, meta |-> call[c].result]
             bound == MaxLatency + metaCacheDuration + clock[c]
  <2>2. k.at = at /\ k.result = call[c].result /\ k.cancelled = call[c].cancelled
    BY <1>1 DEF CallStates
  <2>3. call[c].result \in SUBSET Sources /\ call[c].at = "collected" /\ call[c].todo = {}
    BY <1>1, <1>3 DEF CallStates, CallOK, StoreRemote
  <2>4. bound \in Nat /\ bound <= 2 * MaxLatency + metaCacheDuration /\ bound <= Staleness
    BY Times
  <2>5. \A s \in call[c].result : gone[s] <= bound
    BY <1>1, <2>3 DEF CallFresh, Gathering
  <2>6. \A s \in Sources \ call[c].result : settled[s] <= bound
    <3> SUFFICES ASSUME NEW s \in Sources \ call[c].result
                 PROVE  settled[s] <= bound
      OBVIOUS
    <3>1. CASE Has(s) = {}
      BY <2>4, <3>1 DEF FreshInv, HeldOK
    <3>2. CASE Has(s) # {}
      BY <1>1, <2>3, <3>2 DEF Has, CallWhole, Gathering
    <3> QED BY <3>1, <3>2
  <2> HIDE DEF bound, k
  <2>7. CallFresh(k, clock[c]) /\ CallWhole(k, clock[c])
    BY <1>1, <2>2, <2>3, <2>4, <2>5, <2>6, Times DEF CallFresh, CallWhole, Gathering
  <2>8. RemoteFresh(cache)
    BY <2>3, <2>4, <2>5, <2>6, Times DEF RemoteFresh
  <2>9. \/ UNCHANGED remoteMetaCache
        \/ remoteMetaCache' = [remoteMetaCache EXCEPT ![call[c].node] = cache]
    BY <1>3 DEF StoreRemote
  <2>10. call'[c] = k
    BY <2>1 DEF k, TypeInv, TypeOK, ProxyTypeOK
  <2> HIDE DEF cache
  <2> QED BY <2>7, <2>8, <2>9, <2>10 DEF TypeInv, TypeOK, ProxyTypeOK
<1> QED BY <1>2, <1>3

\* A step of a call.
LEMMA ProceedFresh ==
  ASSUME TypeInv, FreshInv, NEW c \in Calls, Proceed(c)
  PROVE  FreshInv'
<1>1. /\ call \in [Calls -> CallStates] /\ CallOK(call[c])
      /\ CallFresh(call[c], clock[c]) /\ CallWhole(call[c], clock[c])
  BY DEF TypeInv, TypeOK, ProxyTypeOK, CallsOK, FreshInv, CallsFresh
<1>2. UNCHANGED <<clock, gone, settled>>
  BY DEF Proceed
<1>3. CASE RouteRead(c) \/ ForwardRead(c, 2)
  <2>1. /\ call[c].at = "read" /\ call[c].op = "read"
        /\ UNCHANGED <<held, localMetaCache, remoteMetaCache>>
    BY <1>1, <1>3 DEF RouteRead, ForwardRead, CallOK
  <2>2. /\ call'[c].at \in {"read", "done", "failed"} /\ call'[c].op = "read"
        /\ call'[c].cancelled = call[c].cancelled
        /\ \A d \in Calls \ {c} : call'[d] = call[d]
    <3>1. \/ \E at \in {"failed", "done"} : call' = [call EXCEPT ![c].at = at]
          \/ call' = call
          \/ \E m, h : call' = [call EXCEPT ![c].node = m, ![c].hops = h]
      <4>1. CASE RouteRead(c)
        BY <1>1, <4>1 DEF RouteRead
      <4>2. CASE ForwardRead(c, 2)
        BY <4>2 DEF ForwardRead
      <4> QED BY <1>3, <4>1, <4>2
    <3> QED BY <1>1, <2>1, <3>1 DEF CallStates
  <2>3. CallFresh(call'[c], clock[c]) /\ CallWhole(call'[c], clock[c])
    BY <1>1, <2>2 DEF CallFresh, CallWhole, Gathering
  <2> QED BY <1>2, <2>1, <2>2, <2>3, CallStep
<1>4. CASE CheckCache(c) \/ StoreRemote(c)
  <2>1. /\ UNCHANGED <<held, localMetaCache>>
        /\ \A d \in Calls \ {c} : call'[d] = call[d]
    BY <1>4, MetaSteps DEF CheckCache, StoreRemote
  <2>2. /\ CallFresh(call'[c], clock[c]) /\ CallWhole(call'[c], clock[c])
        /\ \A n \in Nodes : \/ remoteMetaCache'[n] = remoteMetaCache[n]
                            \/ RemoteFresh(remoteMetaCache'[n])
    BY <1>4, MetaFreshStep
  <2> QED BY <1>2, <2>1, <2>2, CallStep
<1>5. CASE AskNode(c) \/ StoreLocal(c)
  <2>1. /\ UNCHANGED <<held, remoteMetaCache>>
        /\ \A d \in Calls \ {c} : call'[d] = call[d]
    BY <1>5, MetaSteps DEF AskNode, StoreLocal
  <2>2. /\ CallFresh(call'[c], clock[c]) /\ CallWhole(call'[c], clock[c])
        /\ \A n \in Nodes : \/ localMetaCache'[n] = localMetaCache[n]
                            \/ LocalFresh(n, localMetaCache'[n])
    BY <1>5, AskFresh
  <2> QED BY <1>2, <2>1, <2>2, CallStep
<1>6. CASE call[c].cancelled /\ AskFails(c)
  <2>1. UNCHANGED <<held, localMetaCache, remoteMetaCache>>
    BY <1>6 DEF AskFails
  <2> QED BY <1>2, <1>6, <2>1, AskFailsFresh, CallStep
<1> QED BY <1>3, <1>4, <1>5, <1>6 DEF Proceed, Answer

\* When no source is settled, only what was told can be out of date.
LEMMA NothingSettled ==
  ASSUME TypeInv, TypeInv', FreshInv,
         UNCHANGED <<held, gone, clock, localMetaCache, remoteMetaCache>>, Unsettled, \A c \in Calls : CallFresh(call'[c], clock[c])
  PROVE  FreshInv'
<1>1. held' = held /\ \A s \in Sources : gone'[s] = gone[s] /\ settled'[s] = 0
  BY DEF Unsettled
<1>2. \A m \in Nat, s \in Sources : settled'[s] <= m
  BY <1>1
<1>3. HeldOK'
  BY <1>1 DEF FreshInv, HeldOK, Has
<1>4. ASSUME NEW c \in Calls
      PROVE  (CallFresh(call[c], clock[c]) /\ CallWhole(call[c], clock[c]))'
  <2>1. CallFresh(call[c], clock[c])'
    BY DEF CallFresh
  <2>2. /\ clock[c] \in Nat /\ MaxLatency + metaCacheDuration + clock[c] \in Nat
        /\ Staleness \in Nat
    BY Times
  <2>3. call'[c] \in CallStates /\ CallOK(call'[c])
    BY DEF TypeInv, TypeOK, ProxyTypeOK, CallsOK, CallOK
  <2>4. call'[c].at = "fetched" => held[call'[c].client] \in SUBSET Sources
    BY <2>3, Times DEF CallOK, CallStates
  <2>5. \A n \in Nodes : held[n] \in SUBSET Sources
    BY Times
  <2> QED BY <2>1, <2>2, <2>4, <2>5, <1>1, <1>2 DEF CallWhole
<1>5. ASSUME NEW n \in Nodes
      PROVE  (LocalFresh(n, localMetaCache[n]) /\ RemoteFresh(remoteMetaCache[n]))'
  <2>1. localMetaCache[n] # None => localMetaCache[n].age \in Nat
    BY DEF TypeInv, TypeOK, ProxyTypeOK, Caches
  <2>2. remoteMetaCache[n] # None => remoteMetaCache[n].age \in Nat
    BY DEF TypeInv, TypeOK, ProxyTypeOK, Caches
  <2>3. LocalFresh(n, localMetaCache[n]) /\ RemoteFresh(remoteMetaCache[n])
    BY DEF FreshInv, CachesFresh
  <2> QED BY <1>1, <1>2, <2>1, <2>2, <2>3, Times DEF LocalFresh, RemoteFresh
<1> QED BY <1>3, <1>4, <1>5 DEF FreshInv, CallsFresh, CachesFresh

\* A call begins or is over, fails or is cancelled.
LEMMA CallerFresh ==
  ASSUME TypeInv, TypeInv', FreshInv, NEW c \in Calls,
         Begin(c) \/ Finish(c) \/ PeerFails(c) \/ Cancel(c)
  PROVE  FreshInv'
<1>1. /\ call \in [Calls -> CallStates] /\ clock \in [Calls -> 0 .. MaxLatency]
      /\ \A d \in Calls : CallFresh(call[d], clock[d])
  BY DEF TypeInv, TypeOK, ProxyTypeOK, FreshInv, CallsFresh
<1>2. \A k, t : k.at \in {"idle", "read", "meta"} /\ k.cancelled = FALSE
                => CallFresh(k, t) /\ CallWhole(k, t)
  BY DEF CallFresh, CallWhole, Gathering
<1>3. CASE Begin(c)
  <2>1. PICK n \in Nodes, s \in Sources :
          call' = [call EXCEPT ![c] =
                     IF workload = "meta" THEN ToMeta(n) ELSE ToRead(n, s)]
    BY <1>3 DEF Begin
  <2>2. /\ call'[c] \in {ToMeta(n), ToRead(n, s)}
        /\ \A d \in Calls \ {c} : call'[d] = call[d]
    BY <1>1, <2>1
  <2>3. call'[c].at \in {"read", "meta"} /\ call'[c].cancelled = FALSE
    BY <2>2 DEF ToMeta, ToRead, NoCall
  <2> QED BY <1>2, <1>3, <2>2, <2>3, CallStep DEF Begin
<1>4. CASE Finish(c)
  <2>1. /\ call'[c].at = "idle" /\ call'[c].cancelled = FALSE
        /\ \A d \in Calls \ {c} : call'[d] = call[d] /\ clock'[d] = clock[d]
    BY <1>1, <1>4 DEF Finish, NoCall
  <2> QED BY <1>2, <1>4, <2>1, CallStep DEF Finish
<1>5. CASE PeerFails(c)
  <2>1. /\ CallFresh(call'[c], clock[c]) /\ \A d \in Calls \ {c} : call'[d] = call[d]
        /\ UNCHANGED <<held, gone, clock, localMetaCache, remoteMetaCache>> /\ Unsettled
    BY <1>5, AskFailsFresh DEF PeerFails, AskFails
  <2>2. \A d \in Calls : CallFresh(call'[d], clock[d])
    BY <1>1, <2>1
  <2> QED BY <2>1, <2>2, NothingSettled
<1>6. CASE Cancel(c)
  <2> DEFINE k == [call[c] EXCEPT !.cancelled = TRUE]
  <2>1. call' = [call EXCEPT ![c] = k]
    BY <1>1, <1>6 DEF Cancel
  <2>2. k.at = call[c].at /\ k.op = call[c].op /\ k.got = call[c].got
        /\ k.result = call[c].result
    BY <1>1 DEF CallStates
  <2> HIDE DEF k
  <2>3. CallFresh(k, clock[c])
    BY <1>1, <2>2 DEF CallFresh, Gathering
  <2>4. \A d \in Calls : CallFresh(call'[d], clock[d])
    BY <1>1, <2>1, <2>3
  <2> QED BY <1>6, <2>4, NothingSettled DEF Cancel
<1> QED BY <1>3, <1>4, <1>5, <1>6

\* A source that comes or goes is neither gone nor settled.
LEMMA ChangeFresh ==
  ASSUME TypeInv, TypeInv', FreshInv, NEW n \in Nodes, NEW s \in Sources,
         Arrive(n, s) \/ Expire(n, s)
  PROVE  FreshInv'
<1>1. /\ UNCHANGED <<call, clock, localMetaCache, remoteMetaCache>>
      /\ settled'[s] = 0 /\ gone'[s] \in {0, gone[s]}
      /\ \A u \in Sources \ {s} :
           /\ gone'[u] = gone[u] /\ settled'[u] = settled[u]
           /\ \A m \in Nodes : u \in held'[m] <=> u \in held[m]
      /\ \A m \in Nodes : held'[m] \in SUBSET Sources
  <2>1. /\ gone \in [Sources -> 0 .. (Staleness + 1)]
        /\ settled \in [Sources -> 0 .. (Staleness + 1)]
        /\ held \in [Nodes -> SUBSET Sources]
    BY DEF TypeInv, TypeOK, ProxyTypeOK
  <2>2. CASE Arrive(n, s)
    BY <2>1, <2>2 DEF Arrive
  <2>3. CASE Expire(n, s)
    BY <2>1, <2>3 DEF Expire
  <2> QED BY <2>2, <2>3
<1>2. \A m \in Nat :
        /\ settled'[s] <= m
        /\ \A u \in Sources : gone[u] <= m => gone'[u] <= m
  BY <1>1, Times
<1>3. HeldOK'
  <2>1. \A u \in Sources \ {s} : (Has(u) = {} <=> Has(u)' = {})
    BY <1>1 DEF Has
  <2>2. Has(s)' # {} => gone'[s] = 0
    <3>1. CASE Arrive(n, s)
      BY <3>1 DEF Arrive, TypeInv, TypeOK
    <3>2. CASE Expire(n, s)
      <4>1. Has(s) # {} /\ UNCHANGED gone
        BY <3>2 DEF Has, Expire
      <4> QED BY <4>1 DEF FreshInv, HeldOK
    <3> QED BY <3>1, <3>2
  <2> QED BY <1>1, <2>1, <2>2 DEF FreshInv, HeldOK
<1>4. ASSUME NEW c \in Calls
      PROVE  (CallFresh(call[c], clock[c]) /\ CallWhole(call[c], clock[c]))'
  <2>1. /\ call[c] \in CallStates /\ CallOK(call[c])
        /\ CallFresh(call[c], clock[c]) /\ CallWhole(call[c], clock[c])
    BY DEF TypeInv, TypeOK, ProxyTypeOK, CallsOK, FreshInv, CallsFresh
  <2>2. /\ clock[c] \in Nat /\ MaxLatency + metaCacheDuration + clock[c] \in Nat
        /\ Staleness \in Nat
    BY Times
  <2>3. call[c].got \in SUBSET Sources /\ call[c].result \in SUBSET Sources
    BY <2>1 DEF CallStates
  <2>4. call[c].at = "fetched" => call[c].client \in Nodes
    BY <2>1 DEF CallOK, CallStates
  <2>5. CallFresh(call[c], clock[c])'
    BY <1>1, <1>2, <2>1, <2>2, <2>3 DEF CallFresh, Gathering
  <2>6. CallWhole(call[c], clock[c])'
    BY <1>1, <1>2, <2>1, <2>2, <2>4 DEF CallWhole, Gathering
  <2> QED BY <2>5, <2>6
<1>5. ASSUME NEW m \in Nodes
      PROVE  (LocalFresh(m, localMetaCache[m]) /\ RemoteFresh(remoteMetaCache[m]))'
  <2>1. localMetaCache[m] # None =>
          localMetaCache[m].meta \in SUBSET Sources /\ localMetaCache[m].age \in Nat
    BY DEF TypeInv, TypeOK, ProxyTypeOK, Caches
  <2>2. remoteMetaCache[m] # None =>
          remoteMetaCache[m].meta \in SUBSET Sources /\ remoteMetaCache[m].age \in Nat
    BY DEF TypeInv, TypeOK, ProxyTypeOK, Caches
  <2>3. LocalFresh(m, localMetaCache[m]) /\ RemoteFresh(remoteMetaCache[m])
    BY DEF FreshInv, CachesFresh
  <2>4. LocalFresh(m, localMetaCache[m])'
    BY <1>1, <1>2, <2>1, <2>3, Times DEF LocalFresh
  <2>5. RemoteFresh(remoteMetaCache[m])'
    BY <1>1, <1>2, <2>2, <2>3, Times DEF RemoteFresh
  <2> QED BY <2>4, <2>5
<1> QED BY <1>3, <1>4, <1>5 DEF FreshInv, CallsFresh, CachesFresh

\* Everything grows older by a tick at once, and whoever was answered is gone.
LEMMA TickFresh ==
  ASSUME TypeInv, FreshInv, Tick
  PROVE  FreshInv'
<1>1. /\ UNCHANGED <<call, held>>
      /\ \A c \in Calls : call[c].at \notin {"idle", "done"} => clock'[c] = clock[c] + 1
      /\ \A c \in Calls : call[c].at # "done"
  BY DEF Tick, Done
<1>2. \A s \in Sources :
        /\ gone'[s] \in Nat /\ gone'[s] <= gone[s] + 1
        /\ settled'[s] \in Nat /\ settled'[s] <= settled[s] + 1
        /\ IF Has(s) = {} THEN settled'[s] = 0 ELSE gone'[s] = 0
  <2>1. Staleness + 1 \in Nat
    BY Times
  <2>2. \A a \in Nat : /\ Min({a + 1, Staleness + 1}) \in Nat
                      /\ Min({a + 1, Staleness + 1}) <= a + 1
    BY <2>1, Capped
  <2> QED BY <2>2, Times DEF Tick
<1>3. HeldOK'
  BY <1>1, <1>2 DEF HeldOK, Has
<1>4. ASSUME NEW c \in Calls
      PROVE  (CallFresh(call[c], clock[c]) /\ CallWhole(call[c], clock[c]))'
  <2>1. /\ call[c] \in CallStates /\ CallOK(call[c])
        /\ CallFresh(call[c], clock[c]) /\ CallWhole(call[c], clock[c])
    BY DEF TypeInv, TypeOK, ProxyTypeOK, CallsOK, FreshInv, CallsFresh
  <2>2. CASE call[c].at = "idle"
    BY <1>1, <2>1, <2>2 DEF CallFresh, CallWhole, Gathering, CallOK, NoCall
  <2>3. CASE call[c].at # "idle"
    <3>1. clock'[c] = clock[c] + 1 /\ clock[c] \in Nat /\ call[c].at # "done"
      BY <1>1, <2>3, Times
    <3>2. call[c].got \in SUBSET Sources /\ call[c].result \in SUBSET Sources
      BY <2>1 DEF CallStates
    <3>3. call[c].at = "fetched" => held[call[c].client] \in SUBSET Sources
      BY <2>1, Times DEF CallOK, CallStates
    <3>4. CallFresh(call[c], clock[c])'
      BY <1>1, <1>2, <2>1, <3>1, <3>2, Times DEF CallFresh, Gathering
    <3>5. CallWhole(call[c], clock[c])'
      BY <1>1, <1>2, <2>1, <3>1, <3>3, Times DEF CallWhole, Gathering
    <3> QED BY <3>4, <3>5
  <2> QED BY <2>2, <2>3
<1>5. ASSUME NEW n \in Nodes
      PROVE  (LocalFresh(n, localMetaCache[n]) /\ RemoteFresh(remoteMetaCache[n]))'
  <2> DEFINE local == localMetaCache[n]
             remote == remoteMetaCache[n]
  <2>1. local \in Caches /\ remote \in Caches
    BY DEF TypeInv, TypeOK, ProxyTypeOK
  <2>2. localMetaCache'[n] = Older(local) /\ remoteMetaCache'[n] = Older(remote)
    BY DEF Tick, CachesTick
  <2>3. LocalFresh(n, local) /\ RemoteFresh(remote)
    BY DEF FreshInv, CachesFresh
  <2>4. /\ local # None => local.meta \in SUBSET Sources /\ local.age \in Nat
        /\ remote # None => remote.meta \in SUBSET Sources /\ remote.age \in Nat
    BY <2>1 DEF Caches
  <2> HIDE DEF local, remote
  <2>5. LocalFresh(n, localMetaCache[n])'
    BY <1>1, <1>2, <2>1, <2>2, <2>3, <2>4, OlderCache, Times DEF LocalFresh
  <2>6. RemoteFresh(remoteMetaCache[n])'
    BY <1>1, <1>2, <2>1, <2>2, <2>3, <2>4, OlderCache, Times DEF RemoteFresh
  <2> QED BY <2>5, <2>6
<1> QED BY <1>3, <1>4, <1>5 DEF FreshInv, CallsFresh, CachesFresh

\* Every step keeps what is known of the age of answers.
LEMMA NextFresh ==
  ASSUME TypeInv, TypeInv', FreshInv, [EgressNext]_vars
  PROVE  FreshInv'
<1>1. ASSUME NEW n \in Nodes, NEW s \in Sources, Reroute(n, s)
      PROVE  FreshInv'
  BY <1>1 DEF Reroute, FreshInv, HeldOK, Has, CallsFresh, CallFresh, CallWhole,
     CachesFresh, LocalFresh, RemoteFresh
<1>2. CASE UNCHANGED vars
  BY <1>2 DEF vars, proxyVars, FreshInv, HeldOK, Has, CallsFresh, CallFresh, CallWhole,
     CachesFresh, LocalFresh, RemoteFresh
<1> QED BY <1>1, <1>2, ProceedFresh, CallerFresh, ChangeFresh, TickFresh DEF EgressNext

\* However many nodes there are, and whatever calls overlap, Meta names no source
\* that all stores dropped longer ago than two latencies and two lives of a
\* cache, and misses none that a store had as long, when no peer failed
\* (egress_reverse_proxy.go, localMeta and remoteMeta).
THEOREM MetaStaysFresh == EgressSpec => []MetaFresh
<1>1. Init => FreshInv
  <2> SUFFICES ASSUME Init PROVE FreshInv
    OBVIOUS
  <2>1. HeldOK
    BY DEF Init, HeldOK, Has
  <2>2. CallsFresh
    BY DEF Init, ProxyInit, NoCall, CallsFresh, CallFresh, CallWhole, Gathering
  <2>3. CachesFresh
    BY DEF Init, ProxyInit, CachesFresh, LocalFresh, RemoteFresh
  <2> QED BY <2>1, <2>2, <2>3 DEF FreshInv
<1>2. FreshInv => MetaFresh
  BY DEF FreshInv, CallsFresh, CallFresh, CallWhole, MetaFresh, NeverStale, Complete, Answered
<1>3. TypeInv /\ FreshInv /\ [EgressNext]_vars => TypeInv' /\ FreshInv'
  BY NextType, NextFresh
<1> QED BY <1>1, <1>2, <1>3, InitType, PTL DEF EgressSpec
=============================================================================
