---------------------------- MODULE EgressProxy ----------------------------
(***************************************************************************)
(* The Egress service of the nodes (src/internal/routing/                  *)
(* egress_reverse_proxy.go): Read goes to a node that has the source, Meta *)
(* gathers what all nodes have, from caches of their own and of each.      *)
(***************************************************************************)
EXTENDS Integers, FiniteSetsExt

CONSTANTS
  Nodes, Sources,
  Calls,              \* bound: calls that nodes answer at the same time
  None,               \* no cache, node or source
  metaCacheDuration   \* 1 second in the code

ASSUME EgressProxyAssumption ==
  /\ Nodes # {} /\ IsFiniteSet(Nodes)
  /\ metaCacheDuration \in Nat

VARIABLES
  routes,           \* node -> source -> the nodes that its Lookup returns
  held,             \* node -> the sources its store has
  remoteMetaCache,  \* node -> what Meta of all nodes was, and for how long
  localMetaCache,   \* node -> what its own Meta was, and for how long
  call              \* call -> what is done for it

proxyVars == <<routes, held, remoteMetaCache, localMetaCache, call>>

Caches == [age : 0 .. metaCacheDuration, meta : SUBSET Sources] \cup {None}

NoCall ==
  [op |-> "none", at |-> "idle", node |-> None, source |-> None,
   hops |-> 0, todo |-> {}, client |-> None, got |-> {}, result |-> {},
   errs |-> 0, cancelled |-> FALSE]

CallStates ==
  [op : {"none", "read", "meta"},
   at : {"idle", "read", "meta", "ask", "fetched", "collected", "done", "failed"},
   node : Nodes \cup {None}, source : Sources \cup {None},
   hops : Nat, todo : SUBSET Nodes, client : Nodes \cup {None},
   got : SUBSET Sources, result : SUBSET Sources,
   errs : 0 .. Cardinality(Nodes), cancelled : BOOLEAN]

ProxyTypeOK ==
  /\ routes \in [Nodes -> [Sources -> SUBSET Nodes]]
  /\ held \in [Nodes -> SUBSET Sources]
  /\ remoteMetaCache \in [Nodes -> Caches]
  /\ localMetaCache \in [Nodes -> Caches]
  /\ call \in [Calls -> CallStates]

ProxyInit ==
  /\ remoteMetaCache = [n \in Nodes |-> None]
  /\ localMetaCache = [n \in Nodes |-> None]
  /\ call = [c \in Calls |-> NoCall]

ToRead(n, s) == [NoCall EXCEPT !.op = "read", !.at = "read", !.node = n, !.source = s]

ToMeta(n) == [NoCall EXCEPT !.op = "meta", !.at = "meta", !.node = n]

Done(c) == call[c].at \in {"done", "failed"}
-----------------------------------------------------------------------------
\* Mutant: the local node is one of many.
ReadFrom_Any(n, s) == routes[n][s]

\* The nodes that Read may take, the local one first.
ReadFrom(n, s) == IF n \in routes[n][s] THEN {n} ELSE routes[n][s]

\* Read at a node. A peer looks up the route again, in a table of its own.
RouteRead(c) ==
  LET n == call[c].node
      from == ReadFrom(n, call[c].source)
  IN
  /\ call[c].at = "read"
  /\ call' = [call EXCEPT ![c] =
       IF from = {} \/ @.cancelled THEN [@ EXCEPT !.at = "failed"]
       ELSE IF n \in from THEN [@ EXCEPT !.at = "done"] ELSE @]
  /\ from = {} \/ n \in from \/ call[c].cancelled
  /\ UNCHANGED <<routes, held, remoteMetaCache, localMetaCache>>

\* The peers are asked no more than MaxHops times, a bound.
ForwardRead(c, MaxHops) ==
  LET n == call[c].node IN
  /\ call[c].at = "read" /\ ~call[c].cancelled
  /\ \E m \in ReadFrom(n, call[c].source) \ {n} :
       call' = [call EXCEPT ![c].node = m, ![c].hops = Min({@ + 1, MaxHops})]
  /\ UNCHANGED <<routes, held, remoteMetaCache, localMetaCache>>
-----------------------------------------------------------------------------
\* remoteMeta answers from the cache of its node ...
CheckCache(c) ==
  LET cache == remoteMetaCache[call[c].node] IN
  /\ call[c].at = "meta"
  /\ call' = [call EXCEPT ![c] =
       IF cache = None THEN [@ EXCEPT !.at = "ask", !.todo = Nodes]
       ELSE [@ EXCEPT !.at = "done", !.result = cache.meta]]
  /\ UNCHANGED <<routes, held, remoteMetaCache, localMetaCache>>

\* The answer of a node is added, and the next is asked.
Gather(c, n, meta) ==
  LET todo == call[c].todo \ {n} IN
  call' = [call EXCEPT
    ![c].at = IF todo = {} THEN "collected" ELSE "ask",
    ![c].todo = todo, ![c].got = {}, ![c].client = None,
    ![c].result = @ \cup meta]

\* The LocalStoreReader of a node answers from its store.
LocalMeta(n) == held[n]

\* ... or asks one node after another. Its own store is read without a cache;
\* a peer's localMeta may have one.
AskNode(c) ==
  /\ call[c].at = "ask"
  /\ \E n \in call[c].todo :
       \/ n = call[c].node /\ Gather(c, n, LocalMeta(n))
       \/ /\ n # call[c].node /\ ~call[c].cancelled
          /\ IF localMetaCache[n] = None
             THEN call' = [call EXCEPT ![c].at = "fetched", ![c].client = n,
                                       ![c].got = LocalMeta(n)]
             ELSE Gather(c, n, localMetaCache[n].meta)
  /\ UNCHANGED <<routes, held, remoteMetaCache, localMetaCache>>

\* localMeta at the peer caches what its store returned, and answers.
StoreLocal(c) ==
  LET n == call[c].client IN
  /\ call[c].at = "fetched"
  /\ localMetaCache' = [localMetaCache EXCEPT ![n] =
                          [age |-> 0, meta |-> call[c].got]]
  /\ Gather(c, n, call[c].got)
  /\ UNCHANGED <<routes, held, remoteMetaCache>>

\* A peer does not answer, or nobody waits for its answer any more.
AskFails(c) ==
  /\ call[c].at = "ask"
  /\ \E n \in call[c].todo \ {call[c].node} :
       LET todo == call[c].todo \ {n} IN
       call' = [call EXCEPT ![c].at = IF todo = {} THEN "collected" ELSE "ask",
                            ![c].todo = todo, ![c].errs = @ + 1]
  /\ UNCHANGED <<routes, held, remoteMetaCache, localMetaCache>>

\* remoteMeta caches what it got, of however many nodes.
StoreRemote(c) ==
  LET n == call[c].node
      failed == call[c].errs = Cardinality(Nodes)
  IN
  /\ call[c].at = "collected"
  /\ call' = [call EXCEPT ![c].at = IF failed THEN "failed" ELSE "done"]
  /\ remoteMetaCache' = IF failed THEN remoteMetaCache
       ELSE [remoteMetaCache EXCEPT ![n] = [age |-> 0, meta |-> call[c].result]]
  /\ UNCHANGED <<routes, held, localMetaCache>>

Answer(c, MaxHops) ==
  \/ RouteRead(c) \/ ForwardRead(c, MaxHops)
  \/ CheckCache(c) \/ AskNode(c) \/ StoreLocal(c) \/ StoreRemote(c)
  \/ call[c].cancelled /\ AskFails(c)

\* Mutant: what is in a cache is good for ever.
Older_Never(cache) == cache

\* Mutant: a cache is used for a tick too long.
Older_Late(cache) ==
  IF cache = None \/ cache.age > metaCacheDuration THEN None
  ELSE [cache EXCEPT !.age = @ + 1]

\* What is older than metaCacheDuration counts as nothing.
Older(cache) ==
  IF cache = None \/ cache.age = metaCacheDuration THEN None
  ELSE [cache EXCEPT !.age = @ + 1]

CachesTick ==
  /\ remoteMetaCache' = [n \in Nodes |-> Older(remoteMetaCache[n])]
  /\ localMetaCache' = [n \in Nodes |-> Older(localMetaCache[n])]
=============================================================================
