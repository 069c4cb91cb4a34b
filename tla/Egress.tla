------------------------------ MODULE Egress -------------------------------
(***************************************************************************)
(* Callers of the Egress service while sources come and go, time passes,   *)
(* peers fail, routing tables change and callers lose patience.            *)
(***************************************************************************)
EXTENDS EgressProxy

CONSTANTS
  MaxLatency,   \* bound: ticks that a call takes at most
  MaxChanges,   \* bound: arrivals, expiries and changed routes
  MaxFaults     \* bound: failed and cancelled calls

ASSUME EgressAssumption ==
  /\ MaxLatency \in Nat \ {0} /\ MaxChanges \in Nat /\ MaxFaults \in Nat

VARIABLES
  workload,  \* the kind of call made: Read and Meta share no state
  clock,     \* call -> ticks since it began
  changes, faults,
  gone,      \* source -> ticks since no store has had it
  settled,   \* source -> ticks that one store has had it without a mishap
  rerouted   \* the calls during which a route was changed

vars == <<proxyVars, workload, clock, changes, faults, gone, settled, rerouted>>

\* A local answer is stored up to MaxLatency after it was read, and good for
\* metaCacheDuration; then it may be gathered into a remote one, stored and
\* used in the same way.
Staleness == 2 * (MaxLatency + metaCacheDuration)

Has(s) == {n \in Nodes : s \in held[n]}

Consistent == \A n, m \in Nodes : routes[n] = routes[m]

TypeOK ==
  /\ ProxyTypeOK
  /\ workload \in {"read", "meta"}
  /\ clock \in [Calls -> 0 .. MaxLatency]
  /\ changes \in 0 .. MaxChanges /\ faults \in 0 .. MaxFaults
  /\ gone \in [Sources -> 0 .. Staleness + 1]
  /\ settled \in [Sources -> 0 .. Staleness + 1]
  /\ rerouted \subseteq Calls

Init ==
  /\ ProxyInit
  /\ workload \in {"read", "meta"}
  /\ \E n \in Nodes : routes = [m \in Nodes |-> [s \in Sources |-> {n}]]
  /\ held = [n \in Nodes |-> {}]
  /\ clock = [c \in Calls |-> 0] /\ changes = 0 /\ faults = 0
  /\ gone = [s \in Sources |-> Staleness + 1]
  /\ settled = [s \in Sources |-> 0]
  /\ rerouted = {}
-----------------------------------------------------------------------------
Begin(c) ==
  /\ call[c].at = "idle"
  /\ \E n \in Nodes : \E s \in Sources :
       call' = [call EXCEPT ![c] =
                  IF workload = "meta" THEN ToMeta(n) ELSE ToRead(n, s)]
  /\ UNCHANGED <<routes, held, remoteMetaCache, localMetaCache, clock, changes,
                 faults, gone, settled, rerouted>>

Proceed(c) ==
  /\ Answer(c, 2)
  /\ UNCHANGED <<clock, changes, faults, gone, settled, rerouted>>

Finish(c) ==
  /\ Done(c)
  /\ call' = [call EXCEPT ![c] = NoCall]
  /\ clock' = [clock EXCEPT ![c] = 0]
  /\ rerouted' = rerouted \ {c}
  /\ UNCHANGED <<routes, held, remoteMetaCache, localMetaCache, changes, faults,
                 gone, settled>>

Unsettled == settled' = [s \in Sources |-> 0]

PeerFails(c) ==
  /\ faults < MaxFaults /\ faults' = faults + 1
  /\ AskFails(c)
  /\ Unsettled
  /\ UNCHANGED <<clock, changes, gone, rerouted>>

\* The context of a call ends: the caller has gone away or its time is up.
Cancel(c) ==
  /\ call[c].at \notin {"idle", "done", "failed"} /\ ~call[c].cancelled
  /\ faults < MaxFaults /\ faults' = faults + 1
  /\ call' = [call EXCEPT ![c].cancelled = TRUE]
  /\ Unsettled
  /\ UNCHANGED <<routes, held, remoteMetaCache, localMetaCache, clock, changes,
                 gone, rerouted>>

Arrive(n, s) ==
  /\ workload = "meta"
  /\ changes < MaxChanges /\ changes' = changes + 1
  /\ s \notin held[n]
  /\ held' = [held EXCEPT ![n] = @ \cup {s}]
  /\ gone' = [gone EXCEPT ![s] = 0]
  /\ settled' = [settled EXCEPT ![s] = 0]
  /\ UNCHANGED <<routes, remoteMetaCache, localMetaCache, call, clock, faults,
                 rerouted>>

Expire(n, s) ==
  /\ workload = "meta"
  /\ changes < MaxChanges /\ changes' = changes + 1
  /\ s \in held[n]
  /\ held' = [held EXCEPT ![n] = @ \ {s}]
  /\ settled' = [settled EXCEPT ![s] = 0]
  /\ UNCHANGED <<routes, remoteMetaCache, localMetaCache, call, clock, faults,
                 gone, rerouted>>

\* SetRanges at one node.
Reroute(n, s) ==
  /\ workload = "read"
  /\ changes < MaxChanges /\ changes' = changes + 1
  /\ \E idx \in SUBSET Nodes \ {routes[n][s]} :
       routes' = [routes EXCEPT ![n][s] = idx]
  /\ rerouted' = {c \in Calls : call[c].op = "read"}
  /\ UNCHANGED <<held, remoteMetaCache, localMetaCache, call, clock, faults, gone,
                 settled>>

\* Calls return at once when they are answered, and within MaxLatency.
Tick ==
  /\ \A c \in Calls : ~Done(c) /\ (call[c].at # "idle" => clock[c] < MaxLatency)
  /\ CachesTick
  /\ clock' = [c \in Calls |-> IF call[c].at = "idle" THEN 0 ELSE clock[c] + 1]
  /\ gone' = [s \in Sources |->
                IF Has(s) # {} THEN 0 ELSE Min({gone[s] + 1, Staleness + 1})]
  /\ settled' = [s \in Sources |->
                   IF Has(s) = {} THEN 0 ELSE Min({settled[s] + 1, Staleness + 1})]
  /\ UNCHANGED <<routes, held, call, changes, faults, rerouted>>

EgressNext ==
  /\ UNCHANGED workload
  /\ \/ \E c \in Calls : Begin(c) \/ Proceed(c) \/ Finish(c) \/ PeerFails(c) \/ Cancel(c)
     \/ \E n \in Nodes, s \in Sources : Arrive(n, s) \/ Expire(n, s) \/ Reroute(n, s)
     \/ Tick

EgressSpec == Init /\ [][EgressNext]_vars
-----------------------------------------------------------------------------
Answered(c) == call[c].op = "meta" /\ call[c].at = "done"

\* Meta names no source that every store has dropped for longer than Staleness.
NeverStale ==
  \A c \in Calls : Answered(c) =>
    \A s \in call[c].result : gone[s] <= Staleness

\* Meta names every source that a store has had for as long, unless a peer failed
\* or a call was given up meanwhile: what was then gathered is cached.
Complete ==
  \A c \in Calls : Answered(c) =>
    \A s \in Sources \ call[c].result : settled[s] <= Staleness

\* What Meta answers is at most Staleness old, through two caches that start to
\* age when an answer is stored and that concurrent calls overwrite
\* (egress_reverse_proxy.go, localMeta and remoteMeta).
MetaFresh == NeverStale /\ Complete

\* A Read passes from its node to at most one peer when the tables of the nodes
\* agree and did not change under way, though the peer looks the route up again
\* and may be one of several (egress_reverse_proxy.go, Read).
OneHop ==
  \A c \in Calls : Consistent /\ c \notin rerouted => call[c].hops <= 1
=============================================================================
