----------------------------- MODULE Scheduling -----------------------------
(***************************************************************************)
(* How hash ranges get to nodes and routes to routing tables               *)
(* (src/internal/scheduler/scheduler.go, src/internal/routing): schedulers *)
(* that list, add and remove the ranges of every node's OrchestratorAgent  *)
(* and then set every node's RoutingTable; nodes that crash and lose both; *)
(* calls that fail, time out and arrive late; and a leader that changes.   *)
(*                                                                         *)
(* How a term decides what to move is up to the orchestrator library       *)
(* (code.cloudfoundry.org/go-orchestrator, not part of this repository);   *)
(* scheduler_test.go says what is expected of it: every range on           *)
(* replicationFactor nodes, spread evenly, no move without a reason.       *)
(***************************************************************************)
EXTENDS HashRanges, FiniteSets

CONSTANTS
  Nodes,              \* the Log Cache nodes
  Schedulers,
  replicationFactor,
  MaxCrashes, MaxTimeouts, MaxElections,  \* bounds: faults in a behaviour
  MaxFaults                               \* bound: all of them together

ASSUME SchedulingAssumption ==
  /\ IsFiniteSet(Nodes) /\ Nodes # {}
  /\ Schedulers # {}
  /\ replicationFactor \in Nat \ {0}
  /\ {MaxCrashes, MaxTimeouts, MaxElections, MaxFaults} \subseteq Nat

VARIABLES
  up,      \* the nodes that run
  ranges,  \* node -> its OrchestratorAgent's ranges, a bag of tasks
  table,   \* node -> its RoutingTable: node -> bag of the tasks routed there
  leader,  \* the scheduler whose isLeader() is true
  sched,   \* scheduler -> the state of its loop
  late,    \* requests that timed out and may yet be handled
  faults   \* crashes, timeouts and elections so far

vars == <<up, ranges, table, leader, sched, late, faults>>

-----------------------------------------------------------------------------

None == [t \in Tasks |-> 0]

Nothing == [n \in Nodes |-> None]

Smaller(a, b) == IF a < b THEN a ELSE b

\* The instances of a task, where ranges are as a has it.
Copies(a, t) == UNION {{n} \X (1 .. a[n][t]) : n \in Nodes}

\* RoutingTable.Lookup: one route for each range of the table that has h.
Lookup(n, h) ==
  UNION {{k} \X {t} \X (1 .. table[n][k][t]) :
           k \in Nodes, t \in {i \in Tasks : InRange(h, i)}}

\* A scheduler about to run its first term.
NewRound ==
  [pc |-> "list", term |-> 1, toVisit |-> Nodes,
   answered |-> {}, actual |-> Nothing, todo |-> {}]

\* Nodes may hold ranges of an earlier scheduler; their tables are empty.
Init ==
  /\ up = Nodes
  /\ ranges \in [Nodes -> [Tasks -> 0 .. 1]]
  /\ table = [n \in Nodes |-> Nothing]
  /\ leader \in Schedulers
  /\ sched = [c \in Schedulers |-> NewRound]
  /\ late = {}
  /\ faults = [crashes |-> 0, timeouts |-> 0, elections |-> 0]

-----------------------------------------------------------------------------
(* OrchestratorAgent and RoutingTable: the handlers of a node *)

AddRange(n, t) ==
  /\ ranges' = [ranges EXCEPT ![n][t] = @ + 1]
  /\ UNCHANGED table

\* Mutant: a range that is not there is removed too.
RemoveRange_Unchecked(n, t) ==
  /\ ranges' = [ranges EXCEPT ![n][t] = @ - 1]
  /\ UNCHANGED table

\* Removes one instance of a range, if there is one.
RemoveRange(n, t) ==
  /\ ranges' = [ranges EXCEPT ![n][t] = IF @ > 0 THEN @ - 1 ELSE 0]
  /\ UNCHANGED table

SetRanges(n, routes) ==
  /\ table' = [table EXCEPT ![n] = routes]
  /\ UNCHANGED ranges

Handle(r) ==
  \/ r.op = "add" /\ AddRange(r.node, r.task)
  \/ r.op = "remove" /\ RemoveRange(r.node, r.task)
  \/ r.op = "set" /\ SetRanges(r.node, r.routes)

MayFail == faults.crashes + faults.timeouts + faults.elections < MaxFaults

MayTimeOut == MayFail /\ faults.timeouts < MaxTimeouts

TimeOut == faults' = [faults EXCEPT !.timeouts = @ + 1]

\* A call of a scheduler is handled, fails because the node is down, or
\* times out after 5 s: then the node may still handle it later, or never.
Call(r) ==
  \/ /\ r.node \in up
     /\ Handle(r)
     /\ UNCHANGED <<late, faults>>
  \/ /\ r.node \notin up
     /\ UNCHANGED <<ranges, table, late, faults>>
  \/ /\ r.node \in up
     /\ MayTimeOut
     /\ TimeOut
     /\ late' = late \cup {r}
     /\ UNCHANGED <<ranges, table>>

-----------------------------------------------------------------------------
(* A scheduler's loop: two terms, then the tables *)

\* NextTerm collects what a node holds; one that does not answer is left out.
List(c, n) ==
  LET s == sched[c] IN
  /\ s.pc = "list"
  /\ n \in s.toVisit
  /\ \/ /\ n \in up
        /\ sched' = [sched EXCEPT ![c] =
             [s EXCEPT !.toVisit = s.toVisit \ {n}, !.answered = s.answered \cup {n},
                       !.actual[n] = ranges[n]]]
        /\ UNCHANGED faults
     \/ /\ sched' = [sched EXCEPT ![c].toVisit = s.toVisit \ {n}]
        /\ IF n \in up THEN MayTimeOut /\ TimeOut ELSE UNCHANGED faults
  /\ UNCHANGED <<up, ranges, table, leader, late>>

\* The instances of a task that can be had, and the fair share of a node.
Instances(answered) == Smaller(replicationFactor, Cardinality(answered))

Share(answered) ==
  (Instances(answered) * count + Cardinality(answered) - 1) \div Cardinality(answered)

Held(s, n) == {t \in Tasks : s.actual[n][t] > 0}

\* Where a term may want the tasks: on enough nodes, on none above its
\* share, and taken from a node only when there are too many instances or
\* the node has more than its share.
Goals(s) ==
  {goal \in [s.answered -> SUBSET Tasks] :
     /\ \A t \in Tasks :
          Cardinality({n \in s.answered : t \in goal[n]}) = Instances(s.answered)
     /\ \A n \in s.answered :
          /\ Cardinality(goal[n]) <= Share(s.answered)
          /\ \A t \in Held(s, n) \ goal[n] :
               \/ Cardinality(Copies(s.actual, t)) > Instances(s.answered)
               \/ Cardinality(Held(s, n)) > Share(s.answered)}

\* The instances of a task that a node holds and a goal has no use for, and
\* the tasks it is missing.
Removals(s, goal, n, t) ==
  {[op |-> "remove", node |-> n, task |-> t, instance |-> i] :
     i \in (IF t \in goal[n] THEN 2 ELSE 1) .. s.actual[n][t]}

Additions(s, goal, n) ==
  {[op |-> "add", node |-> n, task |-> t, instance |-> 1] :
     t \in goal[n] \ Held(s, n)}

Moves(s, goal) ==
  UNION {Additions(s, goal, n) \cup UNION {Removals(s, goal, n, t) : t \in Tasks} :
           n \in s.answered}

\* The rest of NextTerm: from what was listed to a goal.  Only what the
\* second term listed is looked at again.
Plan(c) ==
  LET s == sched[c] IN
  /\ s.pc = "list"
  /\ s.toVisit = {}
  /\ \E goal \in Goals(s) :
       sched' = [sched EXCEPT ![c] =
         [(IF s.term = 1 THEN NewRound ELSE s) EXCEPT
            !.pc = "act", !.toVisit = {}, !.todo = Moves(s, goal)]]
  /\ UNCHANGED <<up, ranges, table, leader, late, faults>>

\* What NextTerm still has to do: every removal comes before any addition.
Due(s) ==
  {r \in s.todo : r.op = "add" => \A q \in s.todo : q.op = "add"}

\* Mutant: leadership is not asked for.
Act_AnyLeader(c) ==
  /\ sched[c].pc = "act"
  /\ \E r \in Due(sched[c]) :
       /\ Call(r)
       /\ sched' = [sched EXCEPT ![c].todo = @ \ {r}]
  /\ UNCHANGED <<up, leader>>

\* comm.Add and comm.Remove; a scheduler that does not lead only pretends.
Act(c) ==
  /\ sched[c].pc = "act"
  /\ \E r \in Due(sched[c]) :
       /\ IF leader = c THEN Call(r) ELSE UNCHANGED <<ranges, table, late, faults>>
       /\ sched' = [sched EXCEPT ![c].todo = @ \ {r}]
  /\ UNCHANGED <<up, leader>>

\* Mutant: the tables are set after one term.
EndTerm_Once(c) ==
  LET s == sched[c] IN
  /\ s.pc = "act"
  /\ s.todo = {}
  /\ sched' = [sched EXCEPT ![c] =
       IF leader = c THEN [s EXCEPT !.pc = "publish", !.toVisit = Nodes] ELSE NewRound]
  /\ UNCHANGED <<up, ranges, table, leader, late, faults>>

\* The second term queries again; after it the leader sets the tables from
\* what that term listed (LastActual, convertWorkerState).
EndTerm(c) ==
  LET s == sched[c] IN
  /\ s.pc = "act"
  /\ s.todo = {}
  /\ sched' = [sched EXCEPT ![c] =
       IF s.term = 1 THEN [NewRound EXCEPT !.term = 2]
       ELSE IF leader = c THEN [s EXCEPT !.pc = "publish", !.toVisit = Nodes]
       ELSE NewRound]
  /\ UNCHANGED <<up, ranges, table, leader, late, faults>>

\* setRemoteTables: a node that fails does not keep the others from theirs.
Publish(c, n) ==
  LET s == sched[c] IN
  /\ s.pc = "publish"
  /\ n \in s.toVisit
  /\ Call([op |-> "set", node |-> n, routes |-> s.actual])
  /\ sched' = [sched EXCEPT ![c].toVisit = s.toVisit \ {n}]
  /\ UNCHANGED <<up, leader>>

\* Waits for the next tick.
EndRound(c) ==
  /\ sched[c].pc = "publish"
  /\ sched[c].toVisit = {}
  /\ sched' = [sched EXCEPT ![c] = NewRound]
  /\ UNCHANGED <<up, ranges, table, leader, late, faults>>

SchedulerStep(c) ==
  \/ \E n \in Nodes : List(c, n) \/ Publish(c, n)
  \/ Plan(c)
  \/ Act(c)
  \/ EndTerm(c)
  \/ EndRound(c)

-----------------------------------------------------------------------------
(* What happens to them *)

HandleLate ==
  /\ \E r \in late :
       /\ r.node \in up
       /\ Handle(r)
       /\ late' = late \ {r}
  /\ UNCHANGED <<up, leader, sched, faults>>

\* A node keeps its ranges and its table in memory only.
Crash(n) ==
  /\ n \in up
  /\ MayFail /\ faults.crashes < MaxCrashes
  /\ faults' = [faults EXCEPT !.crashes = @ + 1]
  /\ up' = up \ {n}
  /\ ranges' = [ranges EXCEPT ![n] = None]
  /\ table' = [table EXCEPT ![n] = Nothing]
  /\ late' = {r \in late : r.node # n}
  /\ UNCHANGED <<leader, sched>>

Restart(n) ==
  /\ n \notin up
  /\ up' = up \cup {n}
  /\ UNCHANGED <<ranges, table, leader, sched, late, faults>>

Elect(c) ==
  /\ c # leader
  /\ MayFail /\ faults.elections < MaxElections
  /\ faults' = [faults EXCEPT !.elections = @ + 1]
  /\ leader' = c
  /\ UNCHANGED <<up, ranges, table, sched, late>>

Next ==
  \/ \E c \in Schedulers : SchedulerStep(c)
  \/ HandleLate
  \/ \E n \in Nodes : Crash(n) \/ Restart(n)
  \/ \E c \in Schedulers : Elect(c)

Spec == Init /\ [][Next]_vars

\* A scheduler's loop never ends: each call returns within 5 s, and the
\* ticker fires.  A node need not restart.
Fairness == \A c \in Schedulers : WF_vars(SchedulerStep(c))

FairSpec == Spec /\ Fairness

-----------------------------------------------------------------------------
(* Correctness *)

Bags == [Tasks -> Nat]

Requests ==
  [op : {"add", "remove"}, node : Nodes, task : Tasks, instance : Nat]
    \cup [op : {"set"}, node : Nodes, routes : [Nodes -> Bags]]

SchedStates ==
  [pc : {"list", "act", "publish"}, term : 1 .. 2, toVisit : SUBSET Nodes,
   answered : SUBSET Nodes, actual : [Nodes -> Bags], todo : SUBSET Requests]

Faults ==
  [crashes : 0 .. MaxCrashes, timeouts : 0 .. MaxTimeouts,
   elections : 0 .. MaxElections]

\* Type invariant; no range is held less than no time, however often its
\* removal is retried.
TypeOK ==
  /\ up \subseteq Nodes
  /\ ranges \in [Nodes -> Bags]
  /\ table \in [Nodes -> [Nodes -> Bags]]
  /\ leader \in Schedulers
  /\ sched \in [Schedulers -> SchedStates]
  /\ late \subseteq Requests
  /\ faults \in Faults

\* While nothing is delayed and the leader stays, no range gets an instance
\* too many: AddRange appends without a look, so that nobody else may add
\* what a term found missing, however nodes crash in between.
NeverOverAssigned ==
  [][faults'.timeouts = 0 /\ faults'.elections = 0 =>
       \A t \in Tasks :
         Cardinality(Copies(ranges', t)) > Cardinality(Copies(ranges, t)) =>
           Cardinality(Copies(ranges', t)) <= replicationFactor]_vars

\* Every running node routes every hash to as many running nodes as the
\* replication factor asks for, once to each, and all have the same table.
Converged ==
  \A n \in up :
    /\ \A m \in up : table[m] = table[n]
    /\ \A h \in Hashes :
         LET nodes == {route[1] : route \in Lookup(n, h)} IN
         /\ nodes \subseteq up
         /\ Cardinality(nodes) = Instances(up)
         /\ Cardinality(Lookup(n, h)) = Instances(up)

\* After the last crash, timeout, late request and election, a few rounds
\* make the routing right again, for good.
Converges == <>[]Converged
=============================================================================
