-------------------------- MODULE SchedulingProofs --------------------------
(***************************************************************************)
(* Theorems about HashRanges and Scheduling, for any number of ranges,     *)
(* nodes, schedulers and faults: the ranges are a partition of the hashes, *)
(* no undisturbed leader gives a range to too many nodes, and the tables a *)
(* quiet round sets are complete.                                          *)
(* The last two rest on one relation: until the moves a term has planned   *)
(* are made, what a node holds is what the listing and the moves made      *)
(* since come to. A crash makes it less (OverInv); if nothing comes        *)
(* between it is exactly that, so that a term ends with its goal reached   *)
(* (RoundInv).                                                             *)
(***************************************************************************)
EXTENDS MCScheduling, FiniteSetTheorems, TLAPS

-----------------------------------------------------------------------------
(* The ranges *)

\* A multiplication by a natural number keeps the order.
LEMMA TimesMonotone ==
  ASSUME NEW a \in Int, NEW b \in Int, NEW w \in Nat, a <= b
  PROVE  a * w \in Int /\ a * w <= b * w
<1>1. PICK d \in Nat : b = a + d
  <2>1. b - a \in Nat /\ b = a + (b - a)
    OBVIOUS
  <2> QED BY <2>1
<1>2. d * w \in Nat
  OBVIOUS
<1>3. b * w = a * w + d * w
  BY <1>1
<1> QED BY <1>2, <1>3

\* Division leaves less than the divisor.
LEMMA Quotient ==
  ASSUME NEW a \in Nat, NEW b \in Nat \ {0}
  PROVE  /\ a \div b \in Nat
         /\ (a \div b) * b <= a
         /\ a < (a \div b) * b + b
<1>1. a \div b \in Nat
  OBVIOUS
<1>2. b * (a \div b) <= a
  OBVIOUS
<1>3. a < b * (a \div b) + b
  OBVIOUS
<1>4. b * (a \div b) = (a \div b) * b
  BY <1>1
<1> QED BY <1>1, <1>2, <1>3, <1>4

\* The width of a range but for the last, and how many fit.
LEMMA Widths ==
  /\ x \in Nat
  /\ (count - 1) * (x + 1) \in Nat
  /\ (count - 1) * (x + 1) <= maxHash
<1>1. x \in Nat /\ count * x <= maxHash
  BY HashRangesAssumption DEF x
<1>2. (count - 1) * (x + 1) = count * x - x + (count - 1)
  BY <1>1, HashRangesAssumption
<1>3. count - 1 <= x
  BY HashRangesAssumption DEF x
<1>4. (count - 1) * (x + 1) \in Nat
  BY <1>1, HashRangesAssumption
<1> QED BY <1>1, <1>2, <1>3, <1>4, HashRangesAssumption

\* A hash is its own uint64.
LEMMA WrappedHash ==
  ASSUME NEW n \in Hashes
  PROVE  Wrapped(n) = n
BY HashRangesAssumption DEF Wrapped, Hashes

\* No start wraps around.
LEMMA Starts ==
  ASSUME NEW i \in Tasks
  PROVE  Start(i) \in Nat /\ Start(i) = i * (x + 1) /\ Start(i) <= maxHash
<1>1. i \in Nat /\ i <= count - 1 /\ count - 1 \in Nat /\ x + 1 \in Nat
  BY Widths, HashRangesAssumption DEF Tasks
<1>2. i * (x + 1) \in Nat
  BY <1>1
<1>3. i * (x + 1) <= (count - 1) * (x + 1)
  BY <1>1, TimesMonotone
<1>4. i * (x + 1) \in Hashes
  BY <1>2, <1>3, Widths, HashRangesAssumption DEF Hashes
<1> QED BY <1>2, <1>4, WrappedHash DEF Start, Hashes

\* Each range ends where the next one starts.
LEMMA Ends ==
  ASSUME NEW i \in Tasks, i # count - 1
  PROVE  i + 1 \in Tasks /\ End(i) = Start(i + 1) - 1
<1>1. i + 1 \in Tasks
  BY HashRangesAssumption DEF Tasks
<1>2. x \in Nat /\ i \in Int
  BY Widths, HashRangesAssumption DEF Tasks
<1>3. (i + 1) * (x + 1) = i * (x + 1) + x + 1
  BY <1>2
<1>4. Start(i + 1) = Start(i) + x + 1
  BY <1>1, <1>3, Starts
<1>5. Start(i) + x \in Hashes
  BY <1>1, <1>2, <1>4, Starts, HashRangesAssumption DEF Hashes
<1> QED BY <1>1, <1>2, <1>4, <1>5, WrappedHash, Starts DEF End

\* A range ends before any later one starts.
LEMMA Disjoint ==
  ASSUME NEW i \in Tasks, NEW j \in Tasks, i < j
  PROVE  End(i) < Start(j)
<1>1. i # count - 1
  BY HashRangesAssumption DEF Tasks
<1>2. i + 1 \in Tasks /\ End(i) = Start(i + 1) - 1
  BY <1>1, Ends
<1>3. Start(i + 1) <= Start(j)
  <2>1. i + 1 \in Int /\ j \in Int /\ i + 1 <= j /\ x + 1 \in Nat
    BY Widths, HashRangesAssumption DEF Tasks
  <2>2. (i + 1) * (x + 1) <= j * (x + 1)
    BY <2>1, TimesMonotone
  <2> QED BY <1>2, <2>2, Starts
<1> QED BY <1>2, <1>3, Starts

\* The ranges the scheduler makes tasks of (Start in scheduler.go) leave no
\* hash out and share none: Lookup finds each hash in exactly one of them,
\* for every count the loop does not wrap around for.
THEOREM HashInOneRange ==
  \A h \in Hashes :
    \E i \in Tasks : InRange(h, i) /\ \A j \in Tasks : InRange(h, j) => j = i
<1> SUFFICES ASSUME NEW h \in Hashes
             PROVE  \E i \in Tasks :
                      InRange(h, i) /\ \A j \in Tasks : InRange(h, j) => j = i
  OBVIOUS
<1>h. h \in Nat /\ h <= maxHash
  BY HashRangesAssumption DEF Hashes
<1> DEFINE w == x + 1
           q == h \div w
<1>1. w \in Nat /\ w > 0
  BY Widths
<1>2. q \in Nat /\ q * w \in Nat /\ q * w <= h /\ h < q * w + w
  <2> HIDE DEF w
  <2>1. w \in Nat \ {0}
    BY <1>1
  <2>2. q \in Nat /\ q * w <= h /\ h < q * w + w
    BY <1>h, <2>1, Quotient
  <2> QED BY <1>1, <2>2
<1>3. PICK i \in Tasks : InRange(h, i)
  <2>1. CASE q < count - 1
    <3>1. q \in Tasks /\ q # count - 1
      BY <1>2, <2>1, HashRangesAssumption DEF Tasks
    <3>2. Start(q) = q * w
      BY <3>1, Starts
    <3>3. q + 1 \in Tasks /\ End(q) = (q + 1) * w - 1
      BY <3>1, Ends, Starts
    <3>4. (q + 1) * w = q * w + w
      BY <1>1, <1>2
    <3> HIDE DEF q, w
    <3>5. InRange(h, q)
      BY <1>1, <1>2, <1>h, <3>2, <3>3, <3>4 DEF InRange
    <3> QED BY <3>1, <3>5
  <2>2. CASE ~ (q < count - 1)
    <3>1. count - 1 \in Tasks /\ count - 1 \in Int
      BY HashRangesAssumption DEF Tasks
    <3>2. count - 1 <= q
      BY <1>2, <2>2, <3>1
    <3>3. (count - 1) * w <= q * w
      BY <1>1, <1>2, <3>1, <3>2, TimesMonotone
    <3>4. Start(count - 1) = (count - 1) * w /\ Start(count - 1) \in Nat
      BY <3>1, Starts
    <3>5. End(count - 1) = maxHash
      BY DEF End
    <3> HIDE DEF q, w
    <3>6. InRange(h, count - 1)
      BY <1>2, <1>h, <3>3, <3>4, <3>5 DEF InRange
    <3> QED BY <3>1, <3>6
  <2> QED BY <2>1, <2>2
<1>4. ASSUME NEW j \in Tasks, NEW k \in Tasks, InRange(h, j), InRange(h, k)
      PROVE  ~ (j < k)
  <2> SUFFICES ASSUME j < k
               PROVE  FALSE
    OBVIOUS
  <2>1. End(j) < Start(k) /\ Start(k) \in Nat
    BY Disjoint, Starts
  <2>2. h <= End(j) /\ Start(k) <= h
    BY <1>4 DEF InRange
  <2>3. End(j) \in Int
    <3>1. j # count - 1
      BY HashRangesAssumption DEF Tasks
    <3> QED BY <3>1, Ends, Starts
  <2> QED BY <1>h, <2>1, <2>2, <2>3
<1>5. \A j \in Tasks : InRange(h, j) => j = i
  <2> SUFFICES ASSUME NEW j \in Tasks, InRange(h, j)
               PROVE  j = i
    OBVIOUS
  <2>1. ~ (j < i) /\ ~ (i < j)
    BY <1>3, <1>4
  <2>2. i \in Int /\ j \in Int
    BY HashRangesAssumption DEF Tasks
  <2> QED BY <2>1, <2>2
<1> QED BY <1>3, <1>5

-----------------------------------------------------------------------------
(* Types *)

\* A term begins with nothing known and everything to visit.
LEMMA NewRoundType == NewRound \in SchedStates /\ None \in Bags /\ Nothing \in [Nodes -> Bags]
BY DEF NewRound, SchedStates, None, Nothing, Bags

\* Handlers keep ranges bags, and tables bags for each node.
LEMMA HandleType ==
  ASSUME TypeOK, NEW r \in Requests, Handle(r)
  PROVE  ranges' \in [Nodes -> Bags] /\ table' \in [Nodes -> [Nodes -> Bags]]
<1>1. CASE r.op = "add" /\ AddRange(r.node, r.task)
  <2>1. r.node \in Nodes /\ r.task \in Tasks
    BY <1>1 DEF Requests
  <2> QED BY <1>1, <2>1 DEF AddRange, TypeOK, Bags
<1>2. CASE r.op = "remove" /\ RemoveRange(r.node, r.task)
  <2>1. r.node \in Nodes /\ r.task \in Tasks
    BY <1>2 DEF Requests
  <2> QED BY <1>2, <2>1 DEF RemoveRange, TypeOK, Bags
<1>3. CASE r.op = "set" /\ SetRanges(r.node, r.routes)
  <2>1. r.node \in Nodes /\ r.routes \in [Nodes -> Bags]
    BY <1>3 DEF Requests
  <2> QED BY <1>3, <2>1 DEF SetRanges, TypeOK
<1> QED BY <1>1, <1>2, <1>3 DEF Handle

\* Whatever becomes of a call, nodes and requests keep their types.
LEMMA CallType ==
  ASSUME TypeOK, NEW r \in Requests, Call(r)
  PROVE  /\ ranges' \in [Nodes -> Bags]
         /\ table' \in [Nodes -> [Nodes -> Bags]]
         /\ late' \subseteq Requests
         /\ faults' \in Faults
<1>1. CASE Handle(r) /\ UNCHANGED <<late, faults>>
  BY <1>1, HandleType DEF TypeOK
<1>2. CASE UNCHANGED <<ranges, table, late, faults>>
  BY <1>2 DEF TypeOK
<1>3. CASE MayTimeOut /\ TimeOut /\ late' = late \cup {r} /\ UNCHANGED <<ranges, table>>
  BY <1>3, SchedulingAssumption DEF MayTimeOut, TimeOut, TypeOK, Faults
<1> QED BY <1>1, <1>2, <1>3 DEF Call

\* Init satisfies TypeOK.
LEMMA InitType == Init => TypeOK
<1> SUFFICES ASSUME Init
             PROVE  TypeOK
  OBVIOUS
<1>1. ranges \in [Nodes -> Bags]
  BY DEF Init, Bags
<1>2. faults \in Faults
  BY SchedulingAssumption DEF Init, Faults
<1> QED BY <1>1, <1>2, NewRoundType DEF Init, TypeOK

\* Listing what a node holds, or finding that it does not answer.
LEMMA ListType ==
  ASSUME TypeOK, NEW c \in Schedulers, NEW n \in Nodes, List(c, n)
  PROVE  TypeOK'
<1> DEFINE s == sched[c]
<1>1. s \in SchedStates
  BY DEF TypeOK
<1>2. faults' \in Faults
  BY SchedulingAssumption DEF List, MayTimeOut, TimeOut, TypeOK, Faults
<1>3. sched' \in [Schedulers -> SchedStates]
  <2>1. CASE sched' = [sched EXCEPT ![c] =
               [s EXCEPT !.toVisit = s.toVisit \ {n}, !.answered = s.answered \cup {n},
                         !.actual[n] = ranges[n]]]
    <3>1. [s EXCEPT !.toVisit = s.toVisit \ {n}, !.answered = s.answered \cup {n},
                    !.actual[n] = ranges[n]] \in SchedStates
      BY <1>1 DEF SchedStates, TypeOK
    <3> QED BY <2>1, <3>1 DEF TypeOK
  <2>2. CASE sched' = [sched EXCEPT ![c].toVisit = s.toVisit \ {n}]
    <3>1. [s EXCEPT !.toVisit = s.toVisit \ {n}] \in SchedStates
      BY <1>1 DEF SchedStates
    <3> QED BY <2>2, <3>1 DEF TypeOK
  <2> QED BY <2>1, <2>2 DEF List
<1> QED BY <1>2, <1>3 DEF List, TypeOK

\* What a term plans are requests.
LEMMA MovesType ==
  ASSUME NEW s \in SchedStates, NEW goal \in Goals(s)
  PROVE  Moves(s, goal) \subseteq Requests
<1>1. s.answered \subseteq Nodes /\ s.actual \in [Nodes -> Bags]
  BY DEF SchedStates
<1>2. goal \in [s.answered -> SUBSET Tasks]
  BY DEF Goals
<1>3. ASSUME NEW n \in s.answered, NEW t \in Tasks
      PROVE  Removals(s, goal, n, t) \subseteq Requests
  <2>1. s.actual[n][t] \in Nat /\ n \in Nodes
    BY <1>1 DEF Bags
  <2>2. \A i \in (IF t \in goal[n] THEN 2 ELSE 1) .. s.actual[n][t] : i \in Nat
    BY <2>1
  <2> QED BY <2>1, <2>2 DEF Removals, Requests
<1>4. ASSUME NEW n \in s.answered
      PROVE  Additions(s, goal, n) \subseteq Requests
  <2>1. n \in Nodes /\ \A t \in goal[n] \ Held(s, n) : t \in Tasks
    BY <1>1, <1>2
  <2> QED BY <2>1 DEF Additions, Requests
<1> QED BY <1>3, <1>4 DEF Moves

\* The plan of a term.
LEMMA PlanType ==
  ASSUME TypeOK, NEW c \in Schedulers, Plan(c)
  PROVE  TypeOK'
<1> DEFINE s == sched[c]
           base == IF s.term = 1 THEN NewRound ELSE s
<1>1. s \in SchedStates /\ base \in SchedStates
  BY NewRoundType DEF TypeOK
<1>2. PICK goal \in Goals(s) :
        sched' = [sched EXCEPT ![c] =
          [base EXCEPT !.pc = "act", !.toVisit = {}, !.todo = Moves(s, goal)]]
  BY DEF Plan
<1>3. [base EXCEPT !.pc = "act", !.toVisit = {}, !.todo = Moves(s, goal)] \in SchedStates
  <2>1. Moves(s, goal) \subseteq Requests
    BY <1>1, MovesType
  <2> HIDE DEF base
  <2> QED BY <1>1, <2>1 DEF SchedStates
<1>4. sched' \in [Schedulers -> SchedStates]
  BY <1>2, <1>3 DEF TypeOK
<1> QED BY <1>4 DEF Plan, TypeOK

\* A planned move, made or only pretended.
LEMMA ActType ==
  ASSUME TypeOK, NEW c \in Schedulers, Act(c)
  PROVE  TypeOK'
<1>1. PICK r \in Due(sched[c]) :
        /\ IF leader = c THEN Call(r) ELSE UNCHANGED <<ranges, table, late, faults>>
        /\ sched' = [sched EXCEPT ![c].todo = @ \ {r}]
  BY DEF Act
<1>2. sched[c] \in SchedStates
  BY DEF TypeOK
<1>3. r \in Requests
  BY <1>2 DEF Due, SchedStates
<1>4. [sched[c] EXCEPT !.todo = @ \ {r}] \in SchedStates
  BY <1>2 DEF SchedStates
<1>5. sched' \in [Schedulers -> SchedStates]
  BY <1>1, <1>4 DEF TypeOK
<1>6. /\ ranges' \in [Nodes -> Bags] /\ table' \in [Nodes -> [Nodes -> Bags]]
      /\ late' \subseteq Requests /\ faults' \in Faults
  BY <1>1, <1>3, CallType DEF TypeOK
<1> QED BY <1>5, <1>6 DEF Act, TypeOK

\* The end of a term.
LEMMA EndTermType ==
  ASSUME TypeOK, NEW c \in Schedulers, EndTerm(c)
  PROVE  TypeOK'
<1> DEFINE s == sched[c]
<1>1. s \in SchedStates
  BY DEF TypeOK
<1>2. [NewRound EXCEPT !.term = 2] \in SchedStates
  BY DEF NewRound, SchedStates, Nothing, None, Bags
<1>3. [s EXCEPT !.pc = "publish", !.toVisit = Nodes] \in SchedStates
  BY <1>1 DEF SchedStates
<1>4. sched' \in [Schedulers -> SchedStates]
  BY <1>2, <1>3, NewRoundType DEF EndTerm, TypeOK
<1> QED BY <1>4 DEF EndTerm, TypeOK

\* Setting the table of a node.
LEMMA PublishType ==
  ASSUME TypeOK, NEW c \in Schedulers, NEW n \in Nodes, Publish(c, n)
  PROVE  TypeOK'
<1> DEFINE s == sched[c]
           r == [op |-> "set", node |-> n, routes |-> s.actual]
<1>1. s \in SchedStates
  BY DEF TypeOK
<1>2. r \in Requests
  BY <1>1 DEF Requests, SchedStates
<1>3. [s EXCEPT !.toVisit = s.toVisit \ {n}] \in SchedStates
  BY <1>1 DEF SchedStates
<1>4. sched' \in [Schedulers -> SchedStates]
  BY <1>3 DEF Publish, TypeOK
<1>5. Call(r)
  BY DEF Publish
<1>6. /\ ranges' \in [Nodes -> Bags] /\ table' \in [Nodes -> [Nodes -> Bags]]
      /\ late' \subseteq Requests /\ faults' \in Faults
  <2> HIDE DEF r
  <2> QED BY <1>2, <1>5, CallType
<1> QED BY <1>4, <1>6 DEF Publish, TypeOK

\* Nodes that crash and restart, late requests and elections.
LEMMA EnvironmentType ==
  ASSUME TypeOK,
         \/ HandleLate
         \/ \E n \in Nodes : Crash(n) \/ Restart(n)
         \/ \E c \in Schedulers : Elect(c)
  PROVE  TypeOK'
<1>1. CASE HandleLate
  <2>1. PICK r \in late : Handle(r) /\ late' = late \ {r}
    BY <1>1 DEF HandleLate
  <2>2. r \in Requests
    BY DEF TypeOK
  <2> QED BY <1>1, <2>1, <2>2, HandleType DEF HandleLate, TypeOK
<1>2. ASSUME NEW n \in Nodes, Crash(n)
      PROVE  TypeOK'
  <2>1. faults' \in Faults
    BY <1>2, SchedulingAssumption DEF Crash, TypeOK, Faults
  <2>2. ranges' \in [Nodes -> Bags] /\ table' \in [Nodes -> [Nodes -> Bags]]
    BY <1>2, NewRoundType DEF Crash, TypeOK
  <2> QED BY <1>2, <2>1, <2>2 DEF Crash, TypeOK
<1>3. ASSUME NEW n \in Nodes, Restart(n)
      PROVE  TypeOK'
  BY <1>3 DEF Restart, TypeOK
<1>4. ASSUME NEW c \in Schedulers, Elect(c)
      PROVE  TypeOK'
  <2>1. faults' \in Faults
    BY <1>4, SchedulingAssumption DEF Elect, TypeOK, Faults
  <2> QED BY <1>4, <2>1 DEF Elect, TypeOK
<1> QED BY <1>1, <1>2, <1>3, <1>4

\* Every step keeps the types.
LEMMA NextType == TypeOK /\ [Next]_vars => TypeOK'
<1> SUFFICES ASSUME TypeOK, [Next]_vars
             PROVE  TypeOK'
  OBVIOUS
<1>1. ASSUME NEW c \in Schedulers, EndRound(c)
      PROVE  TypeOK'
  BY <1>1, NewRoundType DEF EndRound, TypeOK
<1>2. ASSUME NEW c \in Schedulers, SchedulerStep(c)
      PROVE  TypeOK'
  BY <1>1, <1>2, ListType, PlanType, ActType, EndTermType, PublishType DEF SchedulerStep
<1>3. CASE UNCHANGED vars
  BY <1>3 DEF vars, TypeOK
<1> QED BY <1>2, <1>3, EnvironmentType DEF Next

\* No node ever holds less than no instance of a range, no delayed or
\* repeated RemoveRange (orchestrator.go) takes away what is not there, and
\* whatever a scheduler has in hand is a request some node can handle.
THEOREM TypeCorrect == Spec => []TypeOK
<1> QED BY InitType, NextType, PTL DEF Spec

-----------------------------------------------------------------------------
(* What a term has planned *)

\* Whom a goal gives a range to.
Takers(g, t) == {n \in Nodes : t \in g[n]}

\* The instances of a range that are still to be removed from a node, and
\* whether it is still to be added.
Removing(s, n, t) ==
  {r.instance : r \in {q \in s.todo : q.op = "remove" /\ q.node = n /\ q.task = t}}

Adding(s, n, t) == \E r \in s.todo : r.op = "add" /\ r.node = n /\ r.task = t

\* What is planned leads to the goal g ...
PlanOK(s, g) ==
  /\ g \in [Nodes -> SUBSET Tasks]
  /\ \A r \in s.todo :
       /\ r.op \in {"add", "remove"}
       /\ r.op = "add" => r.instance = 1 /\ r.task \in g[r.node]
  /\ \A n \in Nodes, t \in Tasks : IsFiniteSet(Removing(s, n, t))

\* ... from so many instances of a range on a node.
Expected(s, g, n, t) ==
  Cardinality(Removing(s, n, t)) + (IF t \in g[n] /\ ~Adding(s, n, t) THEN 1 ELSE 0)

-----------------------------------------------------------------------------
(* No instance too many *)

\* A crash may leave less than the leader listed or expects, nothing leaves more.
AtMostListed(s) ==
  \A n \in Nodes, t \in Tasks :
    /\ n \in s.answered => ranges[n][t] <= s.actual[n][t]
    /\ n \notin s.answered \cup s.toVisit => ranges[n][t] = 0

AtMostPlanned(s) ==
  \E g \in [Nodes -> SUBSET Tasks] :
    /\ PlanOK(s, g)
    /\ \A t \in Tasks : Cardinality(Takers(g, t)) <= replicationFactor
    /\ \A n \in Nodes, t \in Tasks : ranges[n][t] <= Expected(s, g, n, t)

\* A node that is down has no ranges, and no node has more than some number.
Empties == \A n \in Nodes \ up, t \in Tasks : ranges[n][t] = 0
Bounded == \E b \in Nat : \A n \in Nodes, t \in Tasks : ranges[n][t] <= b

Undisturbed == faults.timeouts = 0 /\ faults.elections = 0

\* Of any scheduler but the leader nothing is asked.
LeaderOver ==
  /\ late = {}
  /\ sched[leader].pc = "list" => AtMostListed(sched[leader])
  /\ sched[leader].pc = "act" => AtMostPlanned(sched[leader])

OverInv == Empties /\ Bounded /\ (Undisturbed => LeaderOver)

-----------------------------------------------------------------------------
(* A quiet round *)

\* A goal that gives every range to as many of the running nodes as it should.
Exact(g) ==
  \A t \in Tasks : Takers(g, t) \subseteq up /\ Cardinality(Takers(g, t)) = Instances(up)

Complete(s) == \A t \in Tasks : Cardinality(Copies(s.actual, t)) = Instances(up)

Listed(s) ==
  /\ s.answered \subseteq up /\ up \subseteq s.answered \cup s.toVisit
  /\ \A n \in Nodes : s.actual[n] = IF n \in s.answered THEN ranges[n] ELSE None

Reached ==
  \E g \in [Nodes -> SUBSET Tasks] :
    /\ Exact(g)
    /\ \A n \in up, t \in Tasks : ranges[n][t] = IF t \in g[n] THEN 1 ELSE 0

Planned(s) ==
  \E g \in [Nodes -> SUBSET Tasks] :
    /\ Exact(g) /\ PlanOK(s, g)
    /\ \A n \in up, t \in Tasks : ranges[n][t] = Expected(s, g, n, t)

RoundOK(s) ==
  /\ s.pc = "list" => Listed(s) /\ (s.term = 2 => Reached)
  /\ s.pc = "act" => Planned(s) /\ (s.term = 2 => Complete(s))
  /\ s.pc = "publish" => Complete(s)

\* Only the leader sets tables, and the rounds of the others move nothing.
RoundInv ==
  \A c \in Schedulers : quiet[c] =>
    /\ sched[c].pc = "publish" => leader = c
    /\ leader = c => RoundOK(sched[c])

-----------------------------------------------------------------------------
\* A range has at most replicationFactor instances.
LEMMA InstancesIs ==
  ASSUME NEW S \in SUBSET Nodes
  PROVE  /\ IsFiniteSet(S) /\ Cardinality(S) \in Nat
         /\ Instances(S) \in Nat /\ Instances(S) <= replicationFactor
<1>1. IsFiniteSet(S) /\ Cardinality(S) \in Nat
  BY SchedulingAssumption, FS_Subset, FS_CardinalityType
<1> QED BY <1>1, SchedulingAssumption DEF Instances, Smaller

\* Less on every node is fewer copies.
LEMMA CopiesFewer ==
  ASSUME NEW a \in [Nodes -> Bags], NEW b \in [Nodes -> Bags], NEW t \in Tasks,
         NEW m \in Nat,
         \A n \in Nodes : a[n][t] <= b[n][t] /\ b[n][t] <= m
  PROVE  /\ IsFiniteSet(Copies(b, t)) /\ Cardinality(Copies(b, t)) \in Nat
         /\ Cardinality(Copies(a, t)) \in Nat
         /\ Cardinality(Copies(a, t)) <= Cardinality(Copies(b, t))
<1>1. \A n \in Nodes : a[n][t] \in Nat /\ b[n][t] \in Nat
  BY DEF Bags
<1>2. Copies(a, t) \subseteq Copies(b, t)
  <2>1. \A n \in Nodes : 1 .. a[n][t] \subseteq 1 .. b[n][t]
    BY <1>1
  <2> QED BY <2>1 DEF Copies
<1>3. Copies(b, t) \subseteq Nodes \X (1 .. m)
  <2>1. \A n \in Nodes : 1 .. b[n][t] \subseteq 1 .. m
    BY <1>1
  <2> QED BY <2>1 DEF Copies
<1>4. IsFiniteSet(Nodes \X (1 .. m))
  <2>1. IsFiniteSet(1 .. m)
    BY FS_Interval
  <2> QED BY <2>1, SchedulingAssumption, FS_Product
<1>5. IsFiniteSet(Copies(b, t))
  BY <1>3, <1>4, FS_Subset
<1> QED BY <1>2, <1>5, FS_Subset, FS_CardinalityType

\* One on each of some nodes, or none.
LEMMA CopiesOfGoal ==
  ASSUME NEW a \in [Nodes -> Bags], NEW g \in [Nodes -> SUBSET Tasks], NEW t \in Tasks
  PROVE  /\ (\A n \in Nodes : a[n][t] = IF t \in g[n] THEN 1 ELSE 0) =>
              Cardinality(Copies(a, t)) = Cardinality(Takers(g, t))
         /\ (\A n \in Nodes : a[n][t] <= IF t \in g[n] THEN 1 ELSE 0) =>
              Cardinality(Copies(a, t)) <= Cardinality(Takers(g, t))
<1> DEFINE S == Takers(g, t)
<1>1. S \subseteq Nodes /\ IsFiniteSet(S) /\ Cardinality(S) \in Nat
  <2>1. S \subseteq Nodes
    BY DEF Takers
  <2> QED BY <2>1, InstancesIs
<1>2. IsFiniteSet(S \X {1}) /\ Cardinality(S \X {1}) = Cardinality(S)
  <2>1. IsFiniteSet({1}) /\ Cardinality({1}) = 1
    BY FS_Singleton
  <2> HIDE DEF S
  <2>2. IsFiniteSet(S \X {1}) /\ Cardinality(S \X {1}) = Cardinality(S) * Cardinality({1})
    BY <1>1, <2>1, FS_Product
  <2> QED BY <1>1, <2>1, <2>2
<1>3. \A n \in Nodes : a[n][t] \in Nat
  BY DEF Bags
<1>4. ASSUME \A n \in Nodes : a[n][t] = IF t \in g[n] THEN 1 ELSE 0
      PROVE  Cardinality(Copies(a, t)) = Cardinality(Takers(g, t))
  <2>1. ASSUME NEW n \in Nodes
        PROVE  1 .. a[n][t] = IF t \in g[n] THEN {1} ELSE {}
    <3>1. CASE t \in g[n]
      <4>1. a[n][t] = 1 /\ 1 .. 1 = {1}
        BY <1>4, <3>1
      <4> QED BY <3>1, <4>1
    <3>2. CASE t \notin g[n]
      <4>1. a[n][t] = 0 /\ 1 .. 0 = {}
        BY <1>4, <3>2
      <4> QED BY <3>2, <4>1
    <3> QED BY <3>1, <3>2
  <2>a. \A z : z \in Copies(a, t) <=> \E n \in Nodes : \E i \in 1 .. a[n][t] : z = <<n, i>>
    BY DEF Copies
  <2>b. \A n \in Nodes : \A i : i \in 1 .. a[n][t] <=> t \in g[n] /\ i = 1
    BY <2>1
  <2>2. \A z : z \in Copies(a, t) <=> \E n \in Nodes : t \in g[n] /\ z = <<n, 1>>
    BY <2>a, <2>b
  <2>3. Copies(a, t) = S \X {1}
    BY <2>2 DEF Takers
  <2> QED BY <1>2, <2>3
<1>5. ASSUME \A n \in Nodes : a[n][t] <= IF t \in g[n] THEN 1 ELSE 0
      PROVE  Cardinality(Copies(a, t)) <= Cardinality(Takers(g, t))
  <2>1. \A n \in Nodes : 1 .. a[n][t] \subseteq IF t \in g[n] THEN {1} ELSE {}
    BY <1>3, <1>5
  <2>2. Copies(a, t) \subseteq S \X {1}
    BY <2>1 DEF Copies, Takers
  <2> QED BY <1>2, <2>2, FS_Subset
<1> QED BY <1>4, <1>5

\* What the plan of a term expects is what it listed.
LEMMA PlanExpects ==
  ASSUME NEW s \in SchedStates, NEW goal \in Goals(s), NEW k, k.todo = Moves(s, goal)
  PROVE  \E g \in [Nodes -> SUBSET Tasks] :
           /\ PlanOK(k, g)
           /\ \A t \in Tasks :
                /\ Takers(g, t) \subseteq s.answered
                /\ Cardinality(Takers(g, t)) = Instances(s.answered)
           /\ \A n \in Nodes, t \in Tasks :
                Expected(k, g, n, t) = IF n \in s.answered THEN s.actual[n][t] ELSE 0
<1>1. /\ s.answered \subseteq Nodes /\ s.actual \in [Nodes -> Bags]
      /\ goal \in [s.answered -> SUBSET Tasks]
      /\ \A t \in Tasks :
           Cardinality({n \in s.answered : t \in goal[n]}) = Instances(s.answered)
  BY DEF SchedStates, Goals
<1> DEFINE g == [n \in Nodes |-> IF n \in s.answered THEN goal[n] ELSE {}]
<1>2. /\ g \in [Nodes -> SUBSET Tasks]
      /\ \A n \in Nodes : g[n] = IF n \in s.answered THEN goal[n] ELSE {}
  BY <1>1
<1> HIDE DEF g
<1>3. \A t \in Tasks : /\ Takers(g, t) \subseteq s.answered
                       /\ Cardinality(Takers(g, t)) = Instances(s.answered)
  <2> SUFFICES ASSUME NEW t \in Tasks
               PROVE  /\ Takers(g, t) \subseteq s.answered
                      /\ Cardinality(Takers(g, t)) = Instances(s.answered)
    OBVIOUS
  <2>1. Takers(g, t) = {n \in s.answered : t \in goal[n]}
    BY <1>1, <1>2 DEF Takers
  <2> QED BY <1>1, <2>1
<1>4. \A r : r \in k.todo <=>
        \E n \in s.answered :
          \/ \E t \in goal[n] \ Held(s, n) :
               r = [op |-> "add", node |-> n, task |-> t, instance |-> 1]
          \/ \E t \in Tasks : \E i \in (IF t \in goal[n] THEN 2 ELSE 1) .. s.actual[n][t] :
               r = [op |-> "remove", node |-> n, task |-> t, instance |-> i]
  BY DEF Moves, Additions, Removals
<1>5. \A n \in Nodes, t \in Tasks : Removing(k, n, t) =
        IF n \in s.answered THEN (IF t \in goal[n] THEN 2 ELSE 1) .. s.actual[n][t] ELSE {}
  <2> SUFFICES ASSUME NEW n \in Nodes, NEW t \in Tasks, NEW i
               PROVE  i \in Removing(k, n, t) <=>
                        /\ n \in s.answered
                        /\ i \in (IF t \in goal[n] THEN 2 ELSE 1) .. s.actual[n][t]
    BY Zenon
  <2>1. ASSUME i \in Removing(k, n, t)
        PROVE  /\ n \in s.answered
               /\ i \in (IF t \in goal[n] THEN 2 ELSE 1) .. s.actual[n][t]
    <3>1. PICK r \in k.todo : r.op = "remove" /\ r.node = n /\ r.task = t /\ r.instance = i
      BY <2>1 DEF Removing
    <3> QED BY <1>4, <3>1
  <2>2. ASSUME n \in s.answered,
               i \in (IF t \in goal[n] THEN 2 ELSE 1) .. s.actual[n][t]
        PROVE  i \in Removing(k, n, t)
    <3> DEFINE r == [op |-> "remove", node |-> n, task |-> t, instance |-> i]
    <3>1. r \in k.todo
      BY <1>4, <2>2
    <3>2. r.op = "remove" /\ r.node = n /\ r.task = t /\ r.instance = i
      OBVIOUS
    <3> HIDE DEF r
    <3> QED BY <3>1, <3>2 DEF Removing
  <2> QED BY <2>1, <2>2
<1>6. \A n \in Nodes, t \in Tasks :
        Adding(k, n, t) <=> n \in s.answered /\ t \in goal[n] /\ ~(s.actual[n][t] > 0)
  <2> SUFFICES ASSUME NEW n \in Nodes, NEW t \in Tasks
               PROVE  Adding(k, n, t) <=>
                        n \in s.answered /\ t \in goal[n] /\ ~(s.actual[n][t] > 0)
    OBVIOUS
  <2>1. ASSUME Adding(k, n, t)
        PROVE  n \in s.answered /\ t \in goal[n] /\ ~(s.actual[n][t] > 0)
    <3>1. PICK r \in k.todo : r.op = "add" /\ r.node = n /\ r.task = t
      BY <2>1 DEF Adding
    <3>2. n \in s.answered /\ t \in goal[n] \ Held(s, n)
      BY <1>4, <3>1
    <3> QED BY <3>2 DEF Held
  <2>2. ASSUME n \in s.answered, t \in goal[n], ~(s.actual[n][t] > 0)
        PROVE  Adding(k, n, t)
    <3> DEFINE r == [op |-> "add", node |-> n, task |-> t, instance |-> 1]
    <3>1. t \in goal[n] \ Held(s, n)
      BY <2>2 DEF Held
    <3>2. r \in k.todo
      BY <1>4, <2>2, <3>1
    <3>3. r.op = "add" /\ r.node = n /\ r.task = t
      OBVIOUS
    <3> HIDE DEF r
    <3> QED BY <3>2, <3>3 DEF Adding
  <2> QED BY <2>1, <2>2
<1>7. ASSUME NEW n \in Nodes, NEW t \in Tasks
      PROVE  /\ IsFiniteSet(Removing(k, n, t))
             /\ Expected(k, g, n, t) = IF n \in s.answered THEN s.actual[n][t] ELSE 0
  <2>1. CASE n \in s.answered
    <3> DEFINE a == s.actual[n][t]
               from == IF t \in goal[n] THEN 2 ELSE 1
    <3>1. a \in Nat /\ from \in Int
      BY <1>1 DEF Bags
    <3>2. Removing(k, n, t) = from .. a
      BY <1>5, <2>1
    <3>3. g[n] = goal[n] /\ (Adding(k, n, t) <=> t \in goal[n] /\ ~(a > 0))
      BY <1>2, <1>6, <2>1
    <3> HIDE DEF a
    <3>4. /\ IsFiniteSet(Removing(k, n, t))
          /\ Cardinality(Removing(k, n, t)) = IF from > a THEN 0 ELSE a - from + 1
      <4> HIDE DEF from
      <4> QED BY <3>1, <3>2, FS_Interval
    <3>5. Expected(k, g, n, t) = a
      <4>1. CASE t \in goal[n]
        BY <3>1, <3>3, <3>4, <4>1 DEF Expected
      <4>2. CASE t \notin goal[n]
        BY <3>1, <3>3, <3>4, <4>2 DEF Expected
      <4> QED BY <4>1, <4>2
    <3> QED BY <2>1, <3>4, <3>5 DEF a
  <2>2. CASE n \notin s.answered
    <3>1. Removing(k, n, t) = {} /\ t \notin g[n]
      BY <1>2, <1>5, <2>2
    <3> QED BY <2>2, <3>1, FS_EmptySet DEF Expected
  <2> QED BY <2>1, <2>2
<1>8. PlanOK(k, g)
  <2>1. ASSUME NEW r \in k.todo
        PROVE  /\ r.op \in {"add", "remove"}
               /\ r.op = "add" => r.instance = 1 /\ r.task \in g[r.node]
    BY <1>1, <1>2, <1>4, <2>1
  <2> QED BY <1>2, <1>7, <2>1 DEF PlanOK
<1> QED BY <1>2, <1>3, <1>7, <1>8

\* What is expected after a request less: removals come first.
LEMMA ActExpects ==
  ASSUME NEW s \in SchedStates, NEW g, PlanOK(s, g), NEW r \in Due(s),
         NEW k, k.todo = s.todo \ {r}
  PROVE  /\ PlanOK(k, g)
         /\ r.op \in {"add", "remove"} /\ r.node \in Nodes /\ r.task \in Tasks
         /\ \A n \in Nodes, t \in Tasks :
              /\ Expected(s, g, n, t) \in Nat /\ Expected(k, g, n, t) \in Nat
              /\ Expected(k, g, n, t) =
                   IF n = r.node /\ t = r.task
                   THEN (IF r.op = "add" THEN Expected(s, g, n, t) + 1
                         ELSE Expected(s, g, n, t) - 1)
                   ELSE Expected(s, g, n, t)
              /\ r.op = "add" => Expected(k, g, n, t) <= IF t \in g[n] THEN 1 ELSE 0
<1>1. r \in s.todo /\ s.todo \subseteq Requests
  BY DEF Due, SchedStates
<1>2. /\ r.op \in {"add", "remove"} /\ (r.op = "add" => r.instance = 1 /\ r.task \in g[r.node])
      /\ g \in [Nodes -> SUBSET Tasks]
  BY <1>1 DEF PlanOK
<1>m. \A q \in s.todo :
        q \in [op : {"add", "remove"}, node : Nodes, task : Tasks, instance : Nat]
  BY <1>1 DEF PlanOK, Requests
<1>3. r.node \in Nodes /\ r.task \in Tasks /\ r.instance \in Nat
  BY <1>1, <1>m
<1>4. \A q \in s.todo : q.op = r.op /\ q.node = r.node /\ q.task = r.task
                          /\ q.instance = r.instance => q = r
  BY <1>1, <1>m
<1>5. ASSUME NEW n \in Nodes, NEW t \in Tasks
      PROVE  /\ IsFiniteSet(Removing(s, n, t)) /\ Cardinality(Removing(s, n, t)) \in Nat
             /\ IsFiniteSet(Removing(k, n, t)) /\ Cardinality(Removing(k, n, t)) \in Nat
             /\ Cardinality(Removing(k, n, t)) =
                  IF r.op = "remove" /\ n = r.node /\ t = r.task
                  THEN Cardinality(Removing(s, n, t)) - 1 ELSE Cardinality(Removing(s, n, t))
  <2>1. IsFiniteSet(Removing(s, n, t)) /\ Cardinality(Removing(s, n, t)) \in Nat
    BY FS_CardinalityType DEF PlanOK
  <2>2. CASE r.op = "remove" /\ n = r.node /\ t = r.task
    <3>1. r.instance \in Removing(s, n, t)
      BY <1>1, <2>2 DEF Removing
    <3>2. Removing(k, n, t) = Removing(s, n, t) \ {r.instance}
      BY <1>4, <2>2 DEF Removing
    <3>3. /\ IsFiniteSet(Removing(k, n, t))
          /\ Cardinality(Removing(k, n, t)) = Cardinality(Removing(s, n, t)) - 1
      <4> DEFINE S == Removing(s, n, t)
                 i == r.instance
      <4>1. i \in S /\ IsFiniteSet(S) /\ Removing(k, n, t) = S \ {i}
        BY <2>1, <3>1, <3>2
      <4> HIDE DEF S, i
      <4>2. IsFiniteSet(S \ {i}) /\ Cardinality(S \ {i}) = Cardinality(S) - 1
        BY <4>1, FS_RemoveElement
      <4> QED BY <4>1, <4>2 DEF S
    <3> QED BY <2>1, <2>2, <3>3, FS_CardinalityType
  <2>3. CASE ~(r.op = "remove" /\ n = r.node /\ t = r.task)
    <3>1. Removing(k, n, t) = Removing(s, n, t)
      BY <2>3 DEF Removing
    <3> QED BY <2>1, <2>3, <3>1
  <2> QED BY <2>2, <2>3
<1>6. PlanOK(k, g)
  BY <1>5 DEF PlanOK
\* A range that is to be added has nothing to be removed: no copy of it was there.
<1>7. ASSUME NEW n \in Nodes, NEW t \in Tasks
      PROVE  /\ Adding(s, n, t) => t \in g[n]
             /\ Adding(k, n, t) <=>
                  Adding(s, n, t) /\ ~(r.op = "add" /\ n = r.node /\ t = r.task)
  <2>1. Adding(s, n, t) => t \in g[n]
    BY DEF Adding, PlanOK
  <2>2. ASSUME Adding(k, n, t)
        PROVE  Adding(s, n, t) /\ ~(r.op = "add" /\ n = r.node /\ t = r.task)
    <3>1. PICK q \in k.todo : q.op = "add" /\ q.node = n /\ q.task = t
      BY <2>2 DEF Adding
    <3>2. q \in s.todo /\ q # r /\ q.instance = 1
      BY <3>1 DEF PlanOK
    <3>3. ~(r.op = "add" /\ n = r.node /\ t = r.task)
      BY <1>2, <1>4, <3>1, <3>2
    <3> QED BY <3>1, <3>2, <3>3 DEF Adding
  <2>3. ASSUME Adding(s, n, t), ~(r.op = "add" /\ n = r.node /\ t = r.task)
        PROVE  Adding(k, n, t)
    BY <2>3 DEF Adding
  <2> QED BY <2>1, <2>2, <2>3
<1>8. ASSUME NEW n \in Nodes, NEW t \in Tasks
      PROVE  /\ Expected(s, g, n, t) \in Nat /\ Expected(k, g, n, t) \in Nat
             /\ Expected(k, g, n, t) =
                  IF n = r.node /\ t = r.task
                  THEN (IF r.op = "add" THEN Expected(s, g, n, t) + 1
                        ELSE Expected(s, g, n, t) - 1)
                  ELSE Expected(s, g, n, t)
  <2> DEFINE was == Cardinality(Removing(s, n, t))
             is == Cardinality(Removing(k, n, t))
             one == IF t \in g[n] /\ ~Adding(s, n, t) THEN 1 ELSE 0
             then == IF t \in g[n] /\ ~Adding(k, n, t) THEN 1 ELSE 0
  <2>1. /\ was \in Nat /\ is \in Nat
        /\ is = IF r.op = "remove" /\ n = r.node /\ t = r.task THEN was - 1 ELSE was
    BY <1>5
  <2>2. one \in {0, 1} /\ then \in {0, 1} /\ Expected(s, g, n, t) = was + one
        /\ Expected(k, g, n, t) = is + then
    BY DEF Expected
  <2>3. CASE r.op = "add" /\ n = r.node /\ t = r.task
    <3>1. Adding(s, n, t) /\ ~Adding(k, n, t) /\ t \in g[n]
      BY <1>1, <1>7, <2>3 DEF Adding
    <3>2. one = 0 /\ then = 1
      BY <3>1
    <3> HIDE DEF one, then, was, is
    <3> QED BY <2>1, <2>2, <2>3, <3>2
  <2>4. CASE ~(r.op = "add" /\ n = r.node /\ t = r.task)
    <3>1. then = one
      BY <1>7, <2>4
    <3> HIDE DEF one, then, was, is
    <3>2. n = r.node /\ t = r.task => r.op = "remove"
      BY <1>2, <2>4
    <3> QED BY <2>1, <2>2, <2>4, <3>1, <3>2
  <2> QED BY <2>3, <2>4
<1>9. ASSUME NEW n \in Nodes, NEW t \in Tasks, r.op = "add"
      PROVE  Expected(k, g, n, t) <= IF t \in g[n] THEN 1 ELSE 0
  <2>1. \A q \in s.todo : q.op = "add"
    BY <1>9 DEF Due
  <2>2. Removing(k, n, t) = {}
    BY <2>1 DEF Removing
  <2>3. Cardinality(Removing(k, n, t)) = 0
    BY <2>2, FS_EmptySet
  <2> QED BY <2>3 DEF Expected
<1> QED BY <1>2, <1>3, <1>6, <1>8, <1>9

-----------------------------------------------------------------------------
\* What a request does to the ranges of nodes.
LEMMA HandleRanges ==
  ASSUME TypeOK, NEW r \in Requests, Handle(r)
  PROVE  /\ r.node \in Nodes
         /\ \A n \in Nodes, t \in Tasks :
              /\ ranges[n][t] \in Nat
              /\ n # r.node \/ r.op = "set" \/ t # r.task => ranges'[n][t] = ranges[n][t]
              /\ n = r.node /\ r.op = "add" /\ t = r.task => ranges'[n][t] = ranges[n][t] + 1
              /\ n = r.node /\ r.op = "remove" /\ t = r.task =>
                   ranges'[n][t] = IF ranges[n][t] > 0 THEN ranges[n][t] - 1 ELSE 0
<1>1. ranges \in [Nodes -> Bags] /\ \A n \in Nodes, t \in Tasks : ranges[n][t] \in Nat
  BY DEF TypeOK, Bags
<1>2. r.node \in Nodes /\ (r.op # "set" => r.task \in Tasks)
  BY DEF Requests
<1>3. CASE r.op = "add" /\ AddRange(r.node, r.task)
  BY <1>1, <1>2, <1>3 DEF AddRange, Bags
<1>4. CASE r.op = "remove" /\ RemoveRange(r.node, r.task)
  BY <1>1, <1>2, <1>4 DEF RemoveRange, Bags
<1>5. CASE r.op = "set" /\ SetRanges(r.node, r.routes)
  BY <1>1, <1>2, <1>5 DEF SetRanges
<1> QED BY <1>3, <1>4, <1>5 DEF Handle

\* How ranges change.
LEMMA RangesMove ==
  ASSUME TypeOK, [Next]_vars
  PROVE  \/ UNCHANGED ranges /\ up \subseteq up'
         \/ \E n \in up : Crash(n)
         \/ \E r \in Requests : r.node \in up /\ Handle(r) /\ up' = up
<1>1. ASSUME NEW r \in Requests, Call(r)
      PROVE  UNCHANGED ranges \/ (r.node \in up /\ Handle(r))
  BY <1>1 DEF Call
<1>2. ASSUME NEW c \in Schedulers, NEW n \in Nodes, Publish(c, n)
      PROVE  \/ UNCHANGED ranges /\ up \subseteq up'
             \/ \E r \in Requests : r.node \in up /\ Handle(r) /\ up' = up
  <2> DEFINE r == [op |-> "set", node |-> n, routes |-> sched[c].actual]
  <2>1. r \in Requests
    BY DEF Requests, TypeOK, SchedStates
  <2>2. Call(r) /\ up' = up
    BY <1>2 DEF Publish
  <2> HIDE DEF r
  <2> QED BY <1>1, <2>1, <2>2
<1>3. ASSUME NEW c \in Schedulers, Act(c)
      PROVE  \/ UNCHANGED ranges /\ up \subseteq up'
             \/ \E r \in Requests : r.node \in up /\ Handle(r) /\ up' = up
  <2>1. PICK r \in Due(sched[c]) : Call(r) \/ UNCHANGED ranges
    BY <1>3 DEF Act
  <2>2. r \in Requests
    BY DEF Due, TypeOK, SchedStates
  <2> QED BY <1>1, <1>3, <2>1, <2>2 DEF Act
<1>4. CASE HandleLate
  BY <1>4 DEF HandleLate, TypeOK
<1>5. ASSUME NEW c \in Schedulers, SchedulerStep(c)
      PROVE  \/ UNCHANGED ranges /\ up \subseteq up'
             \/ \E r \in Requests : r.node \in up /\ Handle(r) /\ up' = up
  <2>1. ASSUME (\E n \in Nodes : List(c, n)) \/ Plan(c) \/ EndTerm(c) \/ EndRound(c)
        PROVE  UNCHANGED ranges /\ up \subseteq up'
    BY <2>1 DEF List, Plan, EndTerm, EndRound
  <2> QED BY <1>2, <1>3, <1>5, <2>1 DEF SchedulerStep
<1>6. ASSUME NEW n \in Nodes, Crash(n) \/ Restart(n)
      PROVE  (UNCHANGED ranges /\ up \subseteq up') \/ \E m \in up : Crash(m)
  BY <1>6 DEF Crash, Restart
<1>7. ASSUME NEW c \in Schedulers, Elect(c)
      PROVE  UNCHANGED ranges /\ up \subseteq up'
  BY <1>7 DEF Elect
<1> QED BY <1>4, <1>5, <1>6, <1>7 DEF Next, vars

\* A crash takes all ranges of one node.
LEMMA CrashRanges ==
  ASSUME TypeOK, NEW m \in up, Crash(m)
  PROVE  /\ up' = up \ {m}
         /\ \A n \in Nodes, t \in Tasks :
              /\ ranges[n][t] \in Nat
              /\ ranges'[n][t] = IF n = m THEN 0 ELSE ranges[n][t]
<1>1. ranges \in [Nodes -> Bags] /\ \A n \in Nodes, t \in Tasks : ranges[n][t] \in Nat
  BY DEF TypeOK, Bags
<1> QED BY <1>1 DEF Crash, None, TypeOK

\* A node that is down has nothing, and ranges stay finitely many.
LEMMA NextBounded ==
  ASSUME TypeOK, Empties, Bounded, [Next]_vars
  PROVE  Empties' /\ Bounded'
<1>1. CASE UNCHANGED ranges /\ up \subseteq up'
  BY <1>1 DEF Empties, Bounded
<1>2. ASSUME NEW m \in up, Crash(m)
      PROVE  Empties' /\ Bounded'
  <2>1. /\ up' = up \ {m}
        /\ \A n \in Nodes, t \in Tasks :
             /\ ranges[n][t] \in Nat
             /\ ranges'[n][t] = IF n = m THEN 0 ELSE ranges[n][t]
    BY <1>2, CrashRanges
  <2> QED BY <2>1 DEF Empties, Bounded
<1>3. ASSUME NEW r \in Requests, r.node \in up, Handle(r), up' = up
      PROVE  Empties' /\ Bounded'
  <2>1. Empties'
    BY <1>3, HandleRanges DEF Empties
  <2>2. PICK b \in Nat : \A n \in Nodes, t \in Tasks : ranges[n][t] <= b
    BY DEF Bounded
  <2>3. ASSUME NEW n \in Nodes, NEW t \in Tasks
        PROVE  ranges'[n][t] <= b + 1
    <3>1. /\ ranges[n][t] \in Nat /\ ranges[n][t] <= b
          /\ \/ ranges'[n][t] = ranges[n][t] \/ ranges'[n][t] = ranges[n][t] + 1
             \/ ranges'[n][t] = IF ranges[n][t] > 0 THEN ranges[n][t] - 1 ELSE 0
      <4>1. r.op \in {"add", "remove", "set"}
        BY DEF Requests
      <4> QED BY <1>3, <2>2, <4>1, HandleRanges
    <3> QED BY <3>1
  <2>4. b + 1 \in Nat
    OBVIOUS
  <2> QED BY <2>1, <2>3, <2>4 DEF Bounded
<1> QED BY <1>1, <1>2, <1>3, RangesMove

\* A behaviour that is undisturbed has been so, under one leader.
LEMMA StaysUndisturbed ==
  ASSUME TypeOK, [Next]_vars, Undisturbed'
  PROVE  Undisturbed /\ ~TimeOut /\ leader' = leader
<1>1. /\ faults.timeouts \in Nat /\ faults.elections \in Nat
      /\ \A n : [faults EXCEPT !.timeouts = n].timeouts = n
      /\ \A n : [faults EXCEPT !.elections = n].elections = n
      /\ \A n : [faults EXCEPT !.timeouts = n].elections = faults.elections
      /\ \A n : /\ [faults EXCEPT !.crashes = n].elections = faults.elections
                /\ [faults EXCEPT !.crashes = n].timeouts = faults.timeouts
  BY SchedulingAssumption DEF TypeOK, Faults
<1>2. ~TimeOut
  <2>1. TimeOut => faults'.timeouts = faults.timeouts + 1
    BY <1>1 DEF TimeOut
  <2> QED BY <1>1, <2>1 DEF Undisturbed
<1>3. ASSUME NEW c \in Schedulers, SchedulerStep(c)
      PROVE  faults' = faults /\ leader' = leader
  <2>1. ASSUME NEW r, Call(r)
        PROVE  faults' = faults
    BY <1>2, <2>1 DEF Call
  <2>2. ASSUME NEW n \in Nodes, List(c, n)
        PROVE  faults' = faults /\ leader' = leader
    BY <1>2, <2>2 DEF List
  <2>3. ASSUME NEW n \in Nodes, Publish(c, n)
        PROVE  faults' = faults /\ leader' = leader
    <3> DEFINE r == [op |-> "set", node |-> n, routes |-> sched[c].actual]
    <3>1. Call(r) /\ leader' = leader
      BY <2>3 DEF Publish
    <3> HIDE DEF r
    <3> QED BY <2>1, <3>1
  <2>4. CASE Act(c)
    <3>1. PICK r \in Due(sched[c]) : Call(r) \/ UNCHANGED faults
      BY <2>4 DEF Act
    <3> QED BY <2>1, <2>4, <3>1 DEF Act
  <2>5. CASE Plan(c) \/ EndTerm(c) \/ EndRound(c)
    BY <2>5 DEF Plan, EndTerm, EndRound
  <2> QED BY <1>3, <2>2, <2>3, <2>4, <2>5 DEF SchedulerStep
<1>4. CASE HandleLate
  BY <1>2, <1>4 DEF HandleLate, Undisturbed
<1>5. ASSUME NEW n \in Nodes, Crash(n) \/ Restart(n)
      PROVE  /\ faults'.timeouts = faults.timeouts /\ faults'.elections = faults.elections
             /\ leader' = leader
  BY <1>1, <1>5 DEF Crash, Restart
<1>6. ASSUME NEW c \in Schedulers, Elect(c)
      PROVE  FALSE
  <2>1. faults'.elections = faults.elections + 1
    BY <1>1, <1>6 DEF Elect
  <2> QED BY <1>1, <2>1 DEF Undisturbed
<1> QED BY <1>2, <1>3, <1>4, <1>5, <1>6 DEF Next, vars, Undisturbed

\* Fewer ranges, and a scheduler as it was.
LEMMA LessStaysOver ==
  ASSUME TypeOK, TypeOK', NEW s \in SchedStates,
         \A n \in Nodes, t \in Tasks : ranges'[n][t] <= ranges[n][t]
  PROVE  (AtMostListed(s) => AtMostListed(s)') /\ (AtMostPlanned(s) => AtMostPlanned(s)')
<1>1. \A n \in Nodes, t \in Tasks : ranges[n][t] \in Nat /\ ranges'[n][t] \in Nat
  BY DEF TypeOK, Bags
<1>2. \A n \in Nodes, t \in Tasks : s.actual[n][t] \in Nat
  BY DEF SchedStates, Bags
<1>3. AtMostListed(s) => AtMostListed(s)'
  BY <1>1, <1>2 DEF AtMostListed
<1>4. ASSUME AtMostPlanned(s)
      PROVE  AtMostPlanned(s)'
  <2>1. PICK g \in [Nodes -> SUBSET Tasks] :
          /\ PlanOK(s, g)
          /\ \A t \in Tasks : Cardinality(Takers(g, t)) <= replicationFactor
          /\ \A n \in Nodes, t \in Tasks : ranges[n][t] <= Expected(s, g, n, t)
    BY <1>4 DEF AtMostPlanned
  <2>2. \A n \in Nodes, t \in Tasks : Expected(s, g, n, t) \in Nat
    BY <2>1, FS_CardinalityType DEF PlanOK, Expected
  <2>3. \A n \in Nodes, t \in Tasks : ranges'[n][t] <= Expected(s, g, n, t)
    <3> SUFFICES ASSUME NEW n \in Nodes, NEW t \in Tasks
                 PROVE  ranges'[n][t] <= Expected(s, g, n, t)
      OBVIOUS
    <3> DEFINE m == Expected(s, g, n, t)
    <3>1. m \in Nat /\ ranges[n][t] <= m
      BY <2>1, <2>2
    <3> HIDE DEF m
    <3>2. ranges'[n][t] <= m
      BY <1>1, <3>1
    <3> QED BY <3>2 DEF m
  <2> QED BY <2>1, <2>3 DEF AtMostPlanned
<1> QED BY <1>3, <1>4

\* A node that answers is listed as it is; one that is down has nothing.
LEMMA ListOver ==
  ASSUME TypeOK, Empties, NEW c \in Schedulers, AtMostListed(sched[c]),
         NEW n \in Nodes, List(c, n), ~TimeOut
  PROVE  AtMostListed(sched[c])'
<1> DEFINE s == sched[c]
<1>1. /\ sched \in [Schedulers -> SchedStates] /\ s \in SchedStates
      /\ s.actual \in [Nodes -> Bags] /\ ranges' = ranges
      /\ \A m \in Nodes, t \in Tasks : ranges[m][t] \in Nat
  BY DEF List, TypeOK, SchedStates, Bags
<1>2. CASE /\ n \in up
           /\ sched' = [sched EXCEPT ![c] =
                [s EXCEPT !.toVisit = s.toVisit \ {n}, !.answered = s.answered \cup {n},
                          !.actual[n] = ranges[n]]]
  <2> DEFINE k == [s EXCEPT !.toVisit = s.toVisit \ {n}, !.answered = s.answered \cup {n},
                            !.actual[n] = ranges[n]]
  <2>1. /\ sched'[c] = k /\ k.toVisit = s.toVisit \ {n} /\ k.answered = s.answered \cup {n}
        /\ k.actual = [s.actual EXCEPT ![n] = ranges[n]]
    BY <1>1, <1>2 DEF SchedStates
  <2>2. \A m \in Nodes : k.actual[m] = IF m = n THEN ranges[n] ELSE s.actual[m]
    BY <1>1, <2>1
  <2> HIDE DEF k
  <2> QED BY <1>1, <2>1, <2>2 DEF AtMostListed
<1>3. CASE n \notin up /\ sched' = [sched EXCEPT ![c].toVisit = s.toVisit \ {n}]
  <2>1. /\ sched'[c].toVisit = s.toVisit \ {n} /\ sched'[c].answered = s.answered
        /\ sched'[c].actual = s.actual
    BY <1>1, <1>3 DEF SchedStates
  <2>2. \A t \in Tasks : ranges[n][t] = 0
    BY <1>3 DEF Empties
  <2> QED BY <1>1, <2>1, <2>2 DEF AtMostListed
<1> QED BY <1>2, <1>3 DEF List

\* What the plan expects is what was listed.
LEMMA PlanOver ==
  ASSUME TypeOK, NEW c \in Schedulers, AtMostListed(sched[c]), Plan(c)
  PROVE  AtMostPlanned(sched[c])'
<1> DEFINE s == sched[c]
           base == IF s.term = 1 THEN NewRound ELSE s
<1>1. /\ sched \in [Schedulers -> SchedStates] /\ s \in SchedStates
      /\ base \in SchedStates /\ s.toVisit = {} /\ ranges' = ranges
  BY NewRoundType DEF Plan, TypeOK
<1>2. PICK goal \in Goals(s) :
        sched' = [sched EXCEPT ![c] =
          [base EXCEPT !.pc = "act", !.toVisit = {}, !.todo = Moves(s, goal)]]
  BY DEF Plan
<1>3. PICK k : k = sched'[c]
  OBVIOUS
<1>4. k.todo = Moves(s, goal)
  <2> HIDE DEF base
  <2>1. k = [base EXCEPT !.pc = "act", !.toVisit = {}, !.todo = Moves(s, goal)]
    BY <1>1, <1>2, <1>3
  <2> QED BY <1>1, <2>1 DEF SchedStates
<1>5. PICK g \in [Nodes -> SUBSET Tasks] :
        /\ PlanOK(k, g)
        /\ \A t \in Tasks :
             /\ Takers(g, t) \subseteq s.answered
             /\ Cardinality(Takers(g, t)) = Instances(s.answered)
        /\ \A n \in Nodes, t \in Tasks :
             Expected(k, g, n, t) = IF n \in s.answered THEN s.actual[n][t] ELSE 0
  BY <1>1, <1>4, PlanExpects
<1>6. \A t \in Tasks : Cardinality(Takers(g, t)) <= replicationFactor
  <2>1. Instances(s.answered) <= replicationFactor
    BY <1>1, InstancesIs DEF SchedStates
  <2> QED BY <1>5, <2>1
<1>7. \A n \in Nodes, t \in Tasks : ranges'[n][t] <= Expected(k, g, n, t)
  <2>1. \A n \in Nodes, t \in Tasks :
          ranges[n][t] <= IF n \in s.answered THEN s.actual[n][t] ELSE 0
    BY <1>1 DEF AtMostListed
  <2> QED BY <1>1, <1>5, <2>1
<1>8. AtMostPlanned(k)'
  BY <1>5, <1>6, <1>7 DEF AtMostPlanned
<1> QED BY <1>3, <1>8 DEF AtMostPlanned

\* The leader makes a planned move, or the node is down.
LEMMA ActOver ==
  ASSUME TypeOK, Empties, NEW c \in Schedulers, leader = c, AtMostPlanned(sched[c]),
         Act(c), ~TimeOut
  PROVE  /\ AtMostPlanned(sched[c])'
         /\ \/ \A n \in Nodes, t \in Tasks : ranges'[n][t] <= ranges[n][t]
            \/ \E g \in [Nodes -> SUBSET Tasks] : \A t \in Tasks :
                 /\ Cardinality(Takers(g, t)) <= replicationFactor
                 /\ \A n \in Nodes : ranges'[n][t] <= IF t \in g[n] THEN 1 ELSE 0
<1> DEFINE s == sched[c]
<1>1. /\ sched \in [Schedulers -> SchedStates] /\ s \in SchedStates
      /\ \A n \in Nodes, t \in Tasks : ranges[n][t] \in Nat
  BY DEF TypeOK, Bags
<1>2. PICK r \in Due(s) : Call(r) /\ sched' = [sched EXCEPT ![c].todo = @ \ {r}]
  BY DEF Act
<1>3. PICK k : k = sched'[c] /\ k.todo = s.todo \ {r}
  BY <1>1, <1>2 DEF SchedStates
<1>4. r \in Requests
  BY <1>1 DEF Due, SchedStates
<1>5. PICK g \in [Nodes -> SUBSET Tasks] :
        /\ PlanOK(s, g)
        /\ \A t \in Tasks : Cardinality(Takers(g, t)) <= replicationFactor
        /\ \A n \in Nodes, t \in Tasks : ranges[n][t] <= Expected(s, g, n, t)
  BY DEF AtMostPlanned
<1> HIDE DEF s
<1>6. /\ PlanOK(k, g)
      /\ r.op \in {"add", "remove"} /\ r.node \in Nodes /\ r.task \in Tasks
      /\ \A n \in Nodes, t \in Tasks :
           /\ Expected(s, g, n, t) \in Nat /\ Expected(k, g, n, t) \in Nat
           /\ Expected(k, g, n, t) =
                IF n = r.node /\ t = r.task
                THEN (IF r.op = "add" THEN Expected(s, g, n, t) + 1
                      ELSE Expected(s, g, n, t) - 1)
                ELSE Expected(s, g, n, t)
           /\ r.op = "add" => Expected(k, g, n, t) <= IF t \in g[n] THEN 1 ELSE 0
  BY <1>1, <1>3, <1>5, ActExpects
<1>7. \/ r.node \in up /\ Handle(r)
      \/ r.node \notin up /\ UNCHANGED ranges
  BY <1>2 DEF Call
<1>8. ASSUME NEW n \in Nodes, NEW t \in Tasks
      PROVE  /\ ranges'[n][t] \in Nat /\ ranges'[n][t] <= Expected(k, g, n, t)
             /\ r.op = "remove" \/ r.node \notin up => ranges'[n][t] <= ranges[n][t]
  <2> DEFINE was == Expected(s, g, n, t)
             is == Expected(k, g, n, t)
             a == ranges[n][t]
  <2>1. /\ was \in Nat /\ is \in Nat /\ a \in Nat /\ a <= was
        /\ is = IF n = r.node /\ t = r.task
                THEN (IF r.op = "add" THEN was + 1 ELSE was - 1) ELSE was
    BY <1>1, <1>5, <1>6
  <2>2. CASE r.node \in up /\ Handle(r)
    <3>1. ranges'[n][t] = IF n = r.node /\ t = r.task
            THEN (IF r.op = "add" THEN a + 1 ELSE IF a > 0 THEN a - 1 ELSE 0) ELSE a
      BY <1>4, <1>6, <2>2, HandleRanges
    <3> HIDE DEF was, is, a
    <3>2. ranges'[n][t] \in Nat /\ ranges'[n][t] <= is /\ (r.op = "remove" => ranges'[n][t] <= a)
      BY <1>6, <2>1, <3>1
    <3> QED BY <2>2, <3>2 DEF is, a
  <2>3. CASE r.node \notin up /\ UNCHANGED ranges
    <3>1. ranges'[n][t] = a /\ (n = r.node => a = 0)
      BY <2>3 DEF Empties
    <3> HIDE DEF was, is, a
    <3>2. ranges'[n][t] \in Nat /\ ranges'[n][t] <= is /\ ranges'[n][t] <= a
      BY <2>1, <3>1
    <3> QED BY <3>2 DEF is, a
  <2> QED BY <1>7, <2>2, <2>3
<1>9. AtMostPlanned(k)'
  BY <1>5, <1>6, <1>8 DEF AtMostPlanned
<1>10. ASSUME r.op = "add"
       PROVE  \A n \in Nodes, t \in Tasks : ranges'[n][t] <= IF t \in g[n] THEN 1 ELSE 0
  <2> SUFFICES ASSUME NEW n \in Nodes, NEW t \in Tasks
               PROVE  ranges'[n][t] <= IF t \in g[n] THEN 1 ELSE 0
    OBVIOUS
  <2> DEFINE is == Expected(k, g, n, t)
  <2>1. is \in Nat /\ ranges'[n][t] \in Nat /\ ranges'[n][t] <= is
        /\ is <= IF t \in g[n] THEN 1 ELSE 0
    BY <1>6, <1>8, <1>10
  <2> HIDE DEF is
  <2> QED BY <2>1
<1> QED BY <1>3, <1>5, <1>6, <1>8, <1>9, <1>10 DEF AtMostPlanned

\* A range with a copy more has not too many.
FewEnough ==
  \A t \in Tasks :
    Cardinality(Copies(ranges', t)) > Cardinality(Copies(ranges, t)) =>
      Cardinality(Copies(ranges', t)) <= replicationFactor

\* A step that only takes ranges away gives nobody too many.
LEMMA FewerIsFewEnough ==
  ASSUME TypeOK, TypeOK', Bounded,
         \A n \in Nodes, t \in Tasks : ranges'[n][t] <= ranges[n][t]
  PROVE  FewEnough
<1> SUFFICES ASSUME NEW t \in Tasks
             PROVE  ~(Cardinality(Copies(ranges', t)) > Cardinality(Copies(ranges, t)))
  BY DEF FewEnough
<1>1. PICK b \in Nat : \A n \in Nodes : ranges[n][t] <= b
  BY DEF Bounded
<1>2. ranges \in [Nodes -> Bags] /\ ranges' \in [Nodes -> Bags]
  BY DEF TypeOK
<1> DEFINE new == Cardinality(Copies(ranges', t))
           old == Cardinality(Copies(ranges, t))
<1>3. new \in Nat /\ old \in Nat /\ new <= old
  BY <1>1, <1>2, CopiesFewer
<1> HIDE DEF new, old
<1>4. ~(new > old)
  BY <1>3
<1> QED BY <1>4 DEF new, old

\* Each step of an undisturbed behaviour, the steps of other schedulers included.
LEMMA NextOver ==
  ASSUME TypeOK, TypeOK', Empties, Bounded, LeaderOver, [Next]_vars, Undisturbed'
  PROVE  LeaderOver' /\ FewEnough
<1>0. ~TimeOut /\ leader' = leader /\ leader \in Schedulers
  BY StaysUndisturbed DEF TypeOK
<1> DEFINE c == leader
<1>t. /\ sched \in [Schedulers -> SchedStates] /\ sched[c] \in SchedStates
      /\ \A n \in Nodes, t \in Tasks : ranges[n][t] \in Nat
  BY <1>0 DEF TypeOK, Bags
\* Steps after which the leader is where it was.
<1>a. ASSUME sched'[c] = sched[c], late' = {},
             \A n \in Nodes, t \in Tasks : ranges'[n][t] <= ranges[n][t]
      PROVE  LeaderOver' /\ FewEnough
  <2> PICK s \in SchedStates : s = sched[c]
    BY <1>t
  <2>1. (AtMostListed(s) => AtMostListed(s)') /\ (AtMostPlanned(s) => AtMostPlanned(s)')
    BY <1>a, LessStaysOver
  <2>2. s = sched'[leader']
    BY <1>0, <1>a
  <2>3. /\ s.pc = "list" => AtMostListed(s)
        /\ s.pc = "act" => AtMostPlanned(s)
    BY DEF LeaderOver
  <2>4. /\ s.pc = "list" => AtMostListed(s)'
        /\ s.pc = "act" => AtMostPlanned(s)'
    BY <2>1, <2>3
  <2>5. LeaderOver'
    BY <1>a, <2>2, <2>4 DEF LeaderOver, AtMostListed, AtMostPlanned
  <2> QED BY <1>a, <2>5, FewerIsFewEnough
<1>b. ASSUME UNCHANGED ranges
      PROVE  FewEnough
  <2>1. \A n \in Nodes, t \in Tasks : ranges'[n][t] <= ranges[n][t]
    BY <1>b, <1>t
  <2> QED BY <2>1, FewerIsFewEnough
<1>l. late = {}
  BY DEF LeaderOver
<1>r. ASSUME NEW r \in Requests, Call(r)
      PROVE  late' = {} /\ (r.op = "set" => UNCHANGED ranges)
  <2>1. late' = {} /\ (UNCHANGED ranges \/ Handle(r))
    BY <1>0, <1>l, <1>r DEF Call
  <2>2. Handle(r) /\ r.op = "set" => UNCHANGED ranges
    BY DEF Handle, SetRanges
  <2> QED BY <2>1, <2>2
<1>1. ASSUME NEW d \in Schedulers, d # c, SchedulerStep(d)
      PROVE  LeaderOver' /\ FewEnough
  <2>1. sched'[c] = sched[c]
    BY <1>0, <1>1, <1>t DEF SchedulerStep, List, Plan, Act, EndTerm, Publish, EndRound
  <2>2. late' = {} /\ UNCHANGED ranges
    <3>1. ASSUME NEW n \in Nodes, Publish(d, n)
          PROVE  late' = {} /\ UNCHANGED ranges
      <4> DEFINE r == [op |-> "set", node |-> n, routes |-> sched[d].actual]
      <4>1. r \in Requests /\ r.op = "set"
        BY DEF Requests, TypeOK, SchedStates
      <4>2. Call(r)
        BY <3>1 DEF Publish
      <4> HIDE DEF r
      <4> QED BY <1>r, <4>1, <4>2
    <3>2. CASE Act(d)
      BY <1>1, <1>l, <3>2 DEF Act
    <3>3. CASE Plan(d) \/ EndTerm(d) \/ EndRound(d) \/ \E n \in Nodes : List(d, n)
      BY <1>l, <3>3 DEF List, Plan, EndTerm, EndRound
    <3> QED BY <1>1, <3>1, <3>2, <3>3 DEF SchedulerStep
  <2> QED BY <1>a, <1>t, <2>1, <2>2
<1>2. ASSUME NEW n \in Nodes, List(c, n)
      PROVE  LeaderOver' /\ FewEnough
  <2>1. AtMostListed(sched[c])
    BY <1>2 DEF LeaderOver, List
  <2>2. PICK d \in Schedulers : d = c /\ d = leader'
    BY <1>0
  <2>3. AtMostListed(sched[d])'
    BY <1>0, <1>2, <2>1, <2>2, ListOver
  <2>4. /\ UNCHANGED <<ranges, late>> /\ sched'[d].pc = "list"
    <3>1. sched[c].pc = "list" /\ UNCHANGED <<ranges, late>>
      BY <1>2 DEF List
    <3>2. CASE sched' = [sched EXCEPT ![c].toVisit = sched[c].toVisit \ {n}]
      <4>1. sched'[c].pc = sched[c].pc
        BY <1>t, <3>2 DEF SchedStates
      <4> QED BY <2>2, <3>1, <4>1
    <3>3. CASE sched' = [sched EXCEPT ![c] =
                 [sched[c] EXCEPT !.toVisit = sched[c].toVisit \ {n},
                                  !.answered = sched[c].answered \cup {n},
                                  !.actual[n] = ranges[n]]]
      <4>1. sched'[c].pc = sched[c].pc
        BY <1>0, <1>t, <3>3 DEF SchedStates
      <4> QED BY <2>2, <3>1, <4>1
    <3> QED BY <1>2, <3>2, <3>3 DEF List
  <2>5. LeaderOver'
    BY <1>l, <2>2, <2>3, <2>4 DEF LeaderOver
  <2> QED BY <1>b, <2>4, <2>5
<1>3. CASE Plan(c)
  <2>1. AtMostListed(sched[c])
    BY <1>3 DEF LeaderOver, Plan
  <2>2. PICK d \in Schedulers : d = c /\ d = leader'
    BY <1>0
  <2>3. AtMostPlanned(sched[d])'
    BY <1>3, <2>1, <2>2, PlanOver
  <2>4. /\ UNCHANGED <<ranges, late>> /\ sched'[d].pc = "act"
    BY <1>0, <1>3, <1>t, <2>2, NewRoundType DEF Plan, SchedStates
  <2>5. LeaderOver'
    BY <1>l, <2>2, <2>3, <2>4 DEF LeaderOver
  <2> QED BY <1>b, <2>4, <2>5
<1>4. CASE Act(c)
  <2>1. AtMostPlanned(sched[c])
    BY <1>4 DEF LeaderOver, Act
  <2>2. PICK d \in Schedulers : d = c /\ d = leader'
    BY <1>0
  <2>3. /\ AtMostPlanned(sched[d])'
        /\ \/ \A n \in Nodes, t \in Tasks : ranges'[n][t] <= ranges[n][t]
           \/ \E g \in [Nodes -> SUBSET Tasks] : \A t \in Tasks :
                /\ Cardinality(Takers(g, t)) <= replicationFactor
                /\ \A n \in Nodes : ranges'[n][t] <= IF t \in g[n] THEN 1 ELSE 0
    BY <1>0, <1>4, <2>1, <2>2, ActOver
  <2>4. PICK r \in Due(sched[c]) : Call(r) /\ sched' = [sched EXCEPT ![c].todo = @ \ {r}]
    BY <1>4 DEF Act
  <2>5. r \in Requests /\ sched'[d].pc = "act"
    BY <1>0, <1>4, <1>t, <2>2, <2>4 DEF Due, SchedStates, Act
  <2>6. LeaderOver'
    BY <1>r, <2>2, <2>3, <2>4, <2>5 DEF LeaderOver
  <2>7. FewEnough
    <3>1. CASE \A n \in Nodes, t \in Tasks : ranges'[n][t] <= ranges[n][t]
      BY <3>1, FewerIsFewEnough
    <3>2. ASSUME NEW g \in [Nodes -> SUBSET Tasks],
                 \A t \in Tasks :
                   /\ Cardinality(Takers(g, t)) <= replicationFactor
                   /\ \A n \in Nodes : ranges'[n][t] <= IF t \in g[n] THEN 1 ELSE 0
          PROVE  FewEnough
      <4> SUFFICES ASSUME NEW t \in Tasks
                   PROVE  Cardinality(Copies(ranges', t)) <= replicationFactor
        BY DEF FewEnough
      <4> DEFINE new == Cardinality(Copies(ranges', t))
                 most == Cardinality(Takers(g, t))
      <4>1. ranges' \in [Nodes -> Bags] /\ Takers(g, t) \subseteq Nodes
        BY DEF TypeOK, Takers
      <4>2. most \in Nat /\ new <= most /\ most <= replicationFactor
        BY <3>2, <4>1, CopiesOfGoal, InstancesIs
      <4>3. new \in Nat
        <5>1. PICK b \in Nat : \A n \in Nodes : ranges'[n][t] <= b
          BY NextBounded DEF Bounded
        <5>2. \A n \in Nodes : ranges'[n][t] \in Nat /\ ranges'[n][t] <= ranges'[n][t]
          BY DEF TypeOK, Bags
        <5> QED BY <4>1, <5>1, <5>2, CopiesFewer
      <4> HIDE DEF new, most
      <4>4. new <= replicationFactor
        BY <4>2, <4>3, SchedulingAssumption
      <4> QED BY <4>4 DEF new
    <3> QED BY <2>3, <3>1, <3>2
  <2> QED BY <2>6, <2>7
<1>5. ASSUME EndTerm(c) \/ EndRound(c) \/ \E n \in Nodes : Publish(c, n)
      PROVE  LeaderOver' /\ FewEnough
  <2>1. PICK d \in Schedulers : d = c /\ d = leader'
    BY <1>0
  <2>2. late' = {} /\ UNCHANGED ranges
    <3>1. ASSUME NEW n \in Nodes, Publish(c, n)
          PROVE  late' = {} /\ UNCHANGED ranges
      <4> DEFINE r == [op |-> "set", node |-> n, routes |-> sched[c].actual]
      <4>1. r \in Requests /\ r.op = "set"
        BY <1>t DEF Requests, SchedStates
      <4>2. Call(r)
        BY <3>1 DEF Publish
      <4> HIDE DEF r
      <4> QED BY <1>r, <4>1, <4>2
    <3> QED BY <1>5, <1>l, <3>1 DEF EndTerm, EndRound
  <2>3. sched'[d].pc = "publish" \/ (sched'[d].pc = "list" /\ sched'[d].toVisit = Nodes
                                       /\ sched'[d].answered = {})
    <3>1. /\ NewRound.pc = "list" /\ NewRound.toVisit = Nodes /\ NewRound.answered = {}
          /\ \A k : /\ [NewRound EXCEPT !.term = k].pc = "list"
                    /\ [NewRound EXCEPT !.term = k].toVisit = Nodes
                    /\ [NewRound EXCEPT !.term = k].answered = {}
      BY DEF NewRound
    <3>2. CASE EndTerm(c)
      <4>1. \/ sched'[c] = [NewRound EXCEPT !.term = 2] \/ sched'[c] = NewRound
            \/ sched'[c] = [sched[c] EXCEPT !.pc = "publish", !.toVisit = Nodes]
        BY <1>0, <1>t, <3>2 DEF EndTerm
      <4>2. [sched[c] EXCEPT !.pc = "publish", !.toVisit = Nodes].pc = "publish"
        BY <1>t DEF SchedStates
      <4> QED BY <2>1, <3>1, <4>1, <4>2
    <3>3. CASE EndRound(c)
      BY <1>0, <1>t, <2>1, <3>1, <3>3 DEF EndRound
    <3>4. ASSUME NEW n \in Nodes, Publish(c, n)
          PROVE  sched'[d].pc = "publish"
      <4>1. sched[c].pc = "publish" /\ sched' = [sched EXCEPT ![c].toVisit = sched[c].toVisit \ {n}]
        BY <3>4 DEF Publish
      <4> QED BY <1>0, <1>t, <2>1, <4>1 DEF SchedStates
    <3> QED BY <1>5, <3>2, <3>3, <3>4
  <2>4. LeaderOver'
    BY <2>1, <2>2, <2>3 DEF LeaderOver, AtMostListed
  <2> QED BY <1>b, <2>2, <2>4
<1>6. CASE HandleLate
  BY <1>6, <1>l DEF HandleLate
<1>7. ASSUME NEW n \in Nodes, Crash(n)
      PROVE  LeaderOver' /\ FewEnough
  <2>1. n \in up /\ sched' = sched /\ late' = {}
    BY <1>7, <1>l DEF Crash
  <2>2. \A m \in Nodes, t \in Tasks : ranges'[m][t] <= ranges[m][t]
    BY <1>7, <1>t, <2>1, CrashRanges
  <2> QED BY <1>a, <2>1, <2>2
<1>8. CASE UNCHANGED <<ranges, sched, late>>
  <2>1. \A m \in Nodes, t \in Tasks : ranges'[m][t] <= ranges[m][t]
    BY <1>8, <1>t
  <2> QED BY <1>8, <1>a, <1>l, <2>1
<1>9. ASSUME NEW d \in Schedulers, Elect(d)
      PROVE  LeaderOver' /\ FewEnough
  BY <1>0, <1>9 DEF Elect
<1>10. ASSUME NEW n \in Nodes, Restart(n)
       PROVE  LeaderOver' /\ FewEnough
  BY <1>10, <1>8 DEF Restart
<1>11. ASSUME SchedulerStep(c)
       PROVE  LeaderOver' /\ FewEnough
  BY <1>2, <1>3, <1>4, <1>5, <1>11 DEF SchedulerStep
<1>12. ASSUME NEW d \in Schedulers, SchedulerStep(d)
       PROVE  LeaderOver' /\ FewEnough
  BY <1>1, <1>11, <1>12
<1> QED BY <1>6, <1>7, <1>8, <1>9, <1>10, <1>12 DEF Next, vars

\* A leader that has listed nothing expects nothing.
LEMMA InitOver == Init => OverInv
<1> SUFFICES ASSUME Init
             PROVE  OverInv
  OBVIOUS
<1>1. \A n \in Nodes, t \in Tasks : ranges[n][t] \in 0 .. 1
  BY DEF Init
<1>2. Empties
  BY DEF Init, Empties
<1>3. Bounded
  <2>1. 1 \in Nat /\ \A n \in Nodes, t \in Tasks : ranges[n][t] <= 1
    BY <1>1
  <2> QED BY <2>1 DEF Bounded
<1>4. PICK s : s = sched[leader] /\ s.pc = "list" /\ s.toVisit = Nodes /\ s.answered = {}
  BY DEF Init, NewRound
<1>5. AtMostListed(s)
  BY <1>4 DEF AtMostListed
<1>6. LeaderOver
  BY <1>4, <1>5 DEF Init, LeaderOver, AtMostListed
<1> QED BY <1>2, <1>3, <1>6 DEF OverInv

\* No step gives a range an instance too many, and OverInv lasts.
LEMMA OverStep ==
  TypeOK /\ OverInv /\ [Next]_vars =>
    /\ TypeOK' /\ OverInv'
    /\ [faults'.timeouts = 0 /\ faults'.elections = 0 =>
          \A t \in Tasks :
            Cardinality(Copies(ranges', t)) > Cardinality(Copies(ranges, t)) =>
              Cardinality(Copies(ranges', t)) <= replicationFactor]_vars
<1> SUFFICES ASSUME TypeOK, OverInv, [Next]_vars
             PROVE  /\ TypeOK' /\ OverInv'
                    /\ faults'.timeouts = 0 /\ faults'.elections = 0 => FewEnough
  BY DEF FewEnough
<1>1. TypeOK'
  BY NextType
<1>2. Empties' /\ Bounded'
  BY NextBounded DEF OverInv
<1>3. ASSUME Undisturbed'
      PROVE  LeaderOver' /\ FewEnough
  BY <1>1, <1>3, NextOver, StaysUndisturbed DEF OverInv
<1>4. OverInv'
  BY <1>2, <1>3 DEF OverInv
<1>5. faults'.timeouts = 0 /\ faults'.elections = 0 => FewEnough
  BY <1>3 DEF Undisturbed
<1> QED BY <1>1, <1>4, <1>5

\* AddRange (orchestrator.go) appends without a look: as long as no call is
\* late and one scheduler leads, no term adds an instance of a range that
\* there are enough of, in whatever order nodes crash, come back and answer.
THEOREM NoneOverAssigned == Spec => NeverOverAssigned
<1> QED BY InitType, InitOver, OverStep, PTL DEF Spec, NeverOverAssigned

-----------------------------------------------------------------------------
(* What a quiet round comes to *)

\* A round about to begin, whatever the ranges are.
LEMMA RoundBegins ==
  ASSUME TypeOK
  PROVE  RoundOK(NewRound) /\ NewRound.pc # "publish"
<1>1. /\ NewRound.pc = "list" /\ NewRound.term = 1 /\ NewRound.toVisit = Nodes
      /\ NewRound.answered = {} /\ NewRound.actual = Nothing
  BY DEF NewRound
<1>2. Listed(NewRound)
  BY <1>1 DEF Listed, Nothing, TypeOK
<1> QED BY <1>1, <1>2 DEF RoundOK

\* Nothing that a round depends on has changed.
LEMMA RoundSame ==
  ASSUME NEW s, RoundOK(s), ranges' = ranges, up' = up
  PROVE  RoundOK(s)'
BY DEF RoundOK, Listed, Reached, Planned, Complete, Exact

\* A node answers, or is down.
LEMMA ListRound ==
  ASSUME TypeOK, NEW c \in Schedulers, RoundOK(sched[c]), NEW n \in Nodes, List(c, n),
         faults' = faults, ~TimeOut
  PROVE  RoundOK(sched[c])'
<1> DEFINE s == sched[c]
<1>1. /\ sched \in [Schedulers -> SchedStates] /\ s \in SchedStates
      /\ s.actual \in [Nodes -> Bags] /\ ranges' = ranges /\ up' = up /\ s.pc = "list"
  BY DEF List, TypeOK, SchedStates
<1>2. Listed(s) /\ (s.term = 2 => Reached)
  BY <1>1 DEF RoundOK
<1>3. PICK k : k = sched'[c]
  OBVIOUS
<1>4. /\ k.pc = "list" /\ k.term = s.term /\ k.toVisit = s.toVisit \ {n}
      /\ \/ n \in up /\ k.answered = s.answered \cup {n}
            /\ k.actual = [s.actual EXCEPT ![n] = ranges[n]]
         \/ n \notin up /\ k.answered = s.answered /\ k.actual = s.actual
  <2>1. CASE /\ n \in up
             /\ sched' = [sched EXCEPT ![c] =
                  [s EXCEPT !.toVisit = s.toVisit \ {n}, !.answered = s.answered \cup {n},
                            !.actual[n] = ranges[n]]]
    BY <1>1, <1>3, <2>1 DEF SchedStates
  <2>2. CASE n \notin up /\ sched' = [sched EXCEPT ![c].toVisit = s.toVisit \ {n}]
    BY <1>1, <1>3, <2>2 DEF SchedStates
  <2> QED BY <2>1, <2>2 DEF List
<1>5. Listed(k)
  <2> HIDE DEF s
  <2>1. CASE n \in up /\ k.answered = s.answered \cup {n}
             /\ k.actual = [s.actual EXCEPT ![n] = ranges[n]]
    <3>1. \A m \in Nodes : k.actual[m] = IF m = n THEN ranges[n] ELSE s.actual[m]
      BY <1>1, <2>1
    <3> QED BY <1>2, <1>4, <2>1, <3>1 DEF Listed
  <2>2. CASE n \notin up /\ k.answered = s.answered /\ k.actual = s.actual
    BY <1>2, <1>4, <2>2 DEF Listed
  <2> QED BY <1>4, <2>1, <2>2
<1>6. RoundOK(k)
  BY <1>2, <1>4, <1>5 DEF RoundOK
<1>7. RoundOK(k)'
  BY <1>1, <1>6, RoundSame
<1> QED BY <1>3, <1>7 DEF RoundOK, Listed, Planned, Complete

\* Every running node was listed as it is.
LEMMA PlanRound ==
  ASSUME TypeOK, NEW c \in Schedulers, RoundOK(sched[c]), Plan(c)
  PROVE  RoundOK(sched[c])'
<1> DEFINE s == sched[c]
           base == IF s.term = 1 THEN NewRound ELSE s
<1>1. /\ sched \in [Schedulers -> SchedStates] /\ s \in SchedStates
      /\ base \in SchedStates /\ s.toVisit = {} /\ s.pc = "list"
      /\ ranges' = ranges /\ up' = up
  BY NewRoundType DEF Plan, TypeOK
<1>2. PICK goal \in Goals(s) :
        sched' = [sched EXCEPT ![c] =
          [base EXCEPT !.pc = "act", !.toVisit = {}, !.todo = Moves(s, goal)]]
  BY DEF Plan
<1>3. PICK k : k = sched'[c]
  OBVIOUS
<1>4. /\ k.todo = Moves(s, goal) /\ k.pc = "act"
      /\ k.term = base.term /\ k.actual = base.actual
  <2> HIDE DEF base
  <2>1. k = [base EXCEPT !.pc = "act", !.toVisit = {}, !.todo = Moves(s, goal)]
    BY <1>1, <1>2, <1>3
  <2> QED BY <1>1, <2>1 DEF SchedStates
<1>5. k.term = 2 => s.term = 2 /\ k.actual = s.actual
  BY <1>4 DEF NewRound
<1>6. /\ s.answered = up /\ (s.term = 2 => Reached)
      /\ \A n \in Nodes : s.actual[n] = IF n \in up THEN ranges[n] ELSE None
  BY <1>1 DEF RoundOK, Listed
<1>7. Planned(k)
  <2>1. PICK g \in [Nodes -> SUBSET Tasks] :
          /\ PlanOK(k, g)
          /\ \A t \in Tasks :
               /\ Takers(g, t) \subseteq s.answered
               /\ Cardinality(Takers(g, t)) = Instances(s.answered)
          /\ \A n \in Nodes, t \in Tasks :
               Expected(k, g, n, t) = IF n \in s.answered THEN s.actual[n][t] ELSE 0
    BY <1>1, <1>4, PlanExpects
  <2>2. Exact(g)
    BY <1>6, <2>1 DEF Exact
  <2>3. \A n \in up, t \in Tasks : ranges[n][t] = Expected(k, g, n, t)
    BY <1>6, <2>1 DEF TypeOK
  <2> QED BY <2>1, <2>2, <2>3 DEF Planned
<1>8. ASSUME s.term = 2
      PROVE  Complete(s)
  <2>1. PICK g \in [Nodes -> SUBSET Tasks] :
          /\ Exact(g)
          /\ \A n \in up, t \in Tasks : ranges[n][t] = IF t \in g[n] THEN 1 ELSE 0
    BY <1>6, <1>8 DEF Reached
  <2>2. ASSUME NEW t \in Tasks
        PROVE  Cardinality(Copies(s.actual, t)) = Instances(up)
    <3>1. \A n \in Nodes : s.actual[n][t] = IF t \in g[n] THEN 1 ELSE 0
      <4> SUFFICES ASSUME NEW n \in Nodes
                   PROVE  s.actual[n][t] = IF t \in g[n] THEN 1 ELSE 0
        OBVIOUS
      <4>1. CASE n \in up
        BY <1>6, <2>1, <4>1
      <4>2. CASE n \notin up
        <5>1. t \notin g[n]
          BY <2>1, <4>2 DEF Exact, Takers
        <5>2. s.actual[n] = None /\ None[t] = 0
          BY <1>6, <4>2 DEF None
        <5> HIDE DEF s
        <5> QED BY <5>1, <5>2
      <4> QED BY <4>1, <4>2
    <3>2. s.actual \in [Nodes -> Bags]
      BY <1>1 DEF SchedStates
    <3>3. Cardinality(Copies(s.actual, t)) = Cardinality(Takers(g, t))
      <4> HIDE DEF s
      <4> QED BY <3>1, <3>2, CopiesOfGoal
    <3> QED BY <2>1, <3>3 DEF Exact
  <2> QED BY <2>2 DEF Complete
<1>9. RoundOK(k)
  BY <1>4, <1>5, <1>7, <1>8 DEF RoundOK, Complete
<1>10. RoundOK(k)'
  BY <1>1, <1>9, RoundSame
<1> QED BY <1>3, <1>10 DEF RoundOK, Listed, Planned, Complete

\* The leader makes a planned move, or the node is down and not in the goal.
LEMMA ActRound ==
  ASSUME TypeOK, NEW c \in Schedulers, leader = c, RoundOK(sched[c]), Act(c), ~TimeOut
  PROVE  RoundOK(sched[c])'
<1> DEFINE s == sched[c]
<1>1. /\ sched \in [Schedulers -> SchedStates] /\ s \in SchedStates
      /\ s.pc = "act" /\ up' = up /\ up \subseteq Nodes
      /\ ranges \in [Nodes -> Bags] /\ \A n \in Nodes, t \in Tasks : ranges[n][t] \in Nat
  BY DEF Act, TypeOK, Bags
<1>2. PICK r \in Due(s) : Call(r) /\ sched' = [sched EXCEPT ![c].todo = @ \ {r}]
  BY DEF Act
<1>3. PICK k : k = sched'[c]
  OBVIOUS
<1>4. k.todo = s.todo \ {r} /\ k.pc = "act" /\ k.term = s.term /\ k.actual = s.actual
  BY <1>1, <1>2, <1>3 DEF SchedStates
<1>5. r \in Requests
  BY <1>1 DEF Due, SchedStates
<1>6. Planned(s) /\ (s.term = 2 => Complete(s))
  BY <1>1 DEF RoundOK
<1> HIDE DEF s
<1>7. PICK g \in [Nodes -> SUBSET Tasks] :
        /\ Exact(g) /\ PlanOK(s, g)
        /\ \A n \in up, t \in Tasks : ranges[n][t] = Expected(s, g, n, t)
  BY <1>6 DEF Planned
<1>8. /\ PlanOK(k, g)
      /\ r.op \in {"add", "remove"} /\ r.node \in Nodes /\ r.task \in Tasks
      /\ \A n \in Nodes, t \in Tasks :
           /\ Expected(s, g, n, t) \in Nat /\ Expected(k, g, n, t) \in Nat
           /\ Expected(k, g, n, t) =
                IF n = r.node /\ t = r.task
                THEN (IF r.op = "add" THEN Expected(s, g, n, t) + 1
                      ELSE Expected(s, g, n, t) - 1)
                ELSE Expected(s, g, n, t)
  BY <1>1, <1>4, <1>7, ActExpects
<1>9. \/ r.node \in up /\ Handle(r)
      \/ r.node \notin up /\ UNCHANGED ranges
  BY <1>2 DEF Call
<1>10. ASSUME NEW n \in up, NEW t \in Tasks
       PROVE  ranges'[n][t] = Expected(k, g, n, t)
  <2> DEFINE was == Expected(s, g, n, t)
             is == Expected(k, g, n, t)
             a == ranges[n][t]
  <2>1. /\ was \in Nat /\ is \in Nat /\ a = was /\ n \in Nodes
        /\ is = IF n = r.node /\ t = r.task
                THEN (IF r.op = "add" THEN was + 1 ELSE was - 1) ELSE was
    BY <1>1, <1>7, <1>8
  <2>2. CASE r.node \in up /\ Handle(r)
    <3>1. ranges'[n][t] = IF n = r.node /\ t = r.task
            THEN (IF r.op = "add" THEN a + 1 ELSE IF a > 0 THEN a - 1 ELSE 0) ELSE a
      BY <1>5, <1>8, <2>1, <2>2, HandleRanges
    <3> HIDE DEF was, is, a
    <3>2. ranges'[n][t] = is
      BY <1>8, <2>1, <3>1
    <3> QED BY <3>2 DEF is
  <2>3. CASE r.node \notin up /\ UNCHANGED ranges
    <3>1. ranges'[n][t] = a /\ n # r.node
      BY <2>3
    <3> HIDE DEF was, is, a
    <3>2. ranges'[n][t] = is
      BY <2>1, <3>1
    <3> QED BY <3>2 DEF is
  <2> QED BY <1>9, <2>2, <2>3
<1>11. Planned(k)'
  BY <1>1, <1>7, <1>8, <1>10 DEF Planned, Exact
<1>12. k.term = 2 => Complete(k)'
  BY <1>1, <1>4, <1>6 DEF Complete
<1>13. RoundOK(k)'
  BY <1>4, <1>11, <1>12 DEF RoundOK
<1> QED BY <1>3, <1>13 DEF RoundOK, Listed, Planned, Complete

\* The first term has made the ranges what the second one is to find.
LEMMA EndTermRound ==
  ASSUME TypeOK, NEW c \in Schedulers, RoundOK(sched[c]), EndTerm(c)
  PROVE  RoundOK(sched[c])'
<1> DEFINE s == sched[c]
<1>1. /\ sched \in [Schedulers -> SchedStates] /\ s \in SchedStates
      /\ s.pc = "act" /\ s.todo = {} /\ up' = up /\ ranges' = ranges
  BY DEF EndTerm, TypeOK
<1>2. PICK k : k = sched'[c]
  OBVIOUS
<1>3. Planned(s) /\ (s.term = 2 => Complete(s))
  BY <1>1 DEF RoundOK
<1>4. \/ s.term = 1 /\ k = [NewRound EXCEPT !.term = 2]
      \/ s.term = 2 /\ (k = NewRound \/ k = [s EXCEPT !.pc = "publish", !.toVisit = Nodes])
  BY <1>1, <1>2 DEF EndTerm, SchedStates
<1>5. ASSUME s.term = 1 /\ k = [NewRound EXCEPT !.term = 2]
      PROVE  RoundOK(k)
  <2>1. /\ k.pc = "list" /\ k.answered = {} /\ k.toVisit = Nodes /\ k.actual = Nothing
    BY <1>5 DEF NewRound
  <2>2. Listed(k)
    BY <2>1 DEF Listed, Nothing, TypeOK
  <2>3. PICK g \in [Nodes -> SUBSET Tasks] :
          /\ Exact(g) /\ PlanOK(s, g)
          /\ \A n \in up, t \in Tasks : ranges[n][t] = Expected(s, g, n, t)
    BY <1>3 DEF Planned
  <2>4. ASSUME NEW n \in up, NEW t \in Tasks
        PROVE  Expected(s, g, n, t) = IF t \in g[n] THEN 1 ELSE 0
    <3>1. Removing(s, n, t) = {} /\ ~Adding(s, n, t)
      BY <1>1 DEF Removing, Adding
    <3> QED BY <3>1, FS_EmptySet DEF Expected
  <2>5. Reached
    BY <2>3, <2>4 DEF Reached
  <2> QED BY <2>1, <2>2, <2>5 DEF RoundOK
<1>6. ASSUME s.term = 2 /\ k = NewRound
      PROVE  RoundOK(k)
  BY <1>6, RoundBegins
<1>7. ASSUME s.term = 2 /\ k = [s EXCEPT !.pc = "publish", !.toVisit = Nodes]
      PROVE  RoundOK(k)
  <2>1. k.pc = "publish" /\ k.actual = s.actual
    BY <1>1, <1>7 DEF SchedStates
  <2> QED BY <1>3, <1>7, <2>1 DEF RoundOK, Complete
<1>8. RoundOK(k)
  BY <1>4, <1>5, <1>6, <1>7
<1>9. RoundOK(k)'
  BY <1>1, <1>8, RoundSame
<1> QED BY <1>2, <1>9 DEF RoundOK, Listed, Planned, Complete

\* A step in which no node, leader or late request comes in between.
LEMMA QuietStep ==
  ASSUME TypeOK, Next, NEW c \in Schedulers, UNCHANGED <<up, late, leader, faults>>,
         sched[c].pc = "publish" => leader = c,
         leader = c => RoundOK(sched[c])
  PROVE  /\ sched'[c].pc = "publish" => leader' = c
         /\ leader' = c => RoundOK(sched[c])'
<1> DEFINE Goal == /\ sched'[c].pc = "publish" => leader' = c
                   /\ leader' = c => RoundOK(sched[c])'
<1>0. /\ up' = up /\ late' = late /\ leader' = leader /\ faults' = faults
      /\ sched \in [Schedulers -> SchedStates] /\ sched[c] \in SchedStates
  BY DEF TypeOK
<1>t. ~TimeOut
  <2>1. faults.timeouts \in Nat /\ \A n : [faults EXCEPT !.timeouts = n].timeouts = n
    BY SchedulingAssumption DEF TypeOK, Faults
  <2>2. TimeOut => faults'.timeouts = faults.timeouts + 1
    BY <2>1 DEF TimeOut
  <2> QED BY <1>0, <2>1, <2>2
<1>s. ASSUME sched'[c] = sched[c], leader = c => ranges' = ranges
      PROVE  Goal
  <2>1. PICK k : k = sched[c] /\ k = sched'[c]
    BY <1>s
  <2>2. leader' = c => RoundOK(k)'
    BY <1>0, <1>s, <2>1, RoundSame
  <2> QED BY <1>0, <2>1, <2>2 DEF RoundOK, Listed, Planned, Complete
<1>p. ASSUME NEW d \in Schedulers, NEW n \in Nodes, Publish(d, n)
      PROVE  ranges' = ranges
  <2> DEFINE r == [op |-> "set", node |-> n, routes |-> sched[d].actual]
  <2>1. Call(r) /\ r.op = "set"
    BY <1>p DEF Publish
  <2> HIDE DEF r
  <2> QED BY <2>1 DEF Call, Handle, SetRanges
<1>1. ASSUME NEW d \in Schedulers, d # c, SchedulerStep(d)
      PROVE  Goal
  <2>1. sched'[c] = sched[c]
    BY <1>0, <1>1 DEF SchedulerStep, List, Plan, Act, EndTerm, Publish, EndRound
  <2>2. leader = c => ranges' = ranges
    <3>1. CASE Act(d)
      BY <1>1, <3>1 DEF Act
    <3>2. CASE Plan(d) \/ EndTerm(d) \/ EndRound(d) \/ \E n \in Nodes : List(d, n)
      BY <3>2 DEF List, Plan, EndTerm, EndRound
    <3> QED BY <1>1, <1>p, <3>1, <3>2 DEF SchedulerStep
  <2> HIDE DEF Goal
  <2> QED BY <1>s, <2>1, <2>2
<1>2. ASSUME NEW n \in Nodes, List(c, n)
      PROVE  Goal
  <2>1. sched'[c].pc # "publish"
    <3>1. CASE sched' = [sched EXCEPT ![c].toVisit = sched[c].toVisit \ {n}]
      BY <1>0, <1>2, <3>1 DEF List, SchedStates
    <3>2. CASE sched' = [sched EXCEPT ![c] =
                 [sched[c] EXCEPT !.toVisit = sched[c].toVisit \ {n},
                                  !.answered = sched[c].answered \cup {n},
                                  !.actual[n] = ranges[n]]]
      BY <1>0, <1>2, <3>2 DEF List, SchedStates
    <3> QED BY <1>2, <3>1, <3>2 DEF List
  <2>2. leader = c => RoundOK(sched[c])'
    BY <1>0, <1>2, <1>t, ListRound
  <2> QED BY <1>0, <2>1, <2>2
<1>3. ASSUME Plan(c)
      PROVE  Goal
  <2>1. sched'[c].pc # "publish"
    BY <1>0, <1>3, NewRoundType DEF Plan, SchedStates
  <2>2. leader = c => RoundOK(sched[c])'
    BY <1>3, PlanRound
  <2> QED BY <1>0, <2>1, <2>2
<1>4. ASSUME Act(c)
      PROVE  Goal
  <2>1. sched'[c].pc # "publish"
    BY <1>0, <1>4 DEF Act, SchedStates
  <2>2. leader = c => RoundOK(sched[c])'
    BY <1>4, <1>t, ActRound
  <2> QED BY <1>0, <2>1, <2>2
<1>5. ASSUME EndTerm(c)
      PROVE  Goal
  <2>1. sched'[c].pc = "publish" => leader = c
    <3>1. NewRound.pc # "publish" /\ [NewRound EXCEPT !.term = 2].pc # "publish"
      BY DEF NewRound
    <3>2. leader # c => sched'[c] = NewRound \/ sched'[c] = [NewRound EXCEPT !.term = 2]
      BY <1>0, <1>5 DEF EndTerm
    <3> QED BY <3>1, <3>2
  <2>2. leader = c => RoundOK(sched[c])'
    BY <1>5, EndTermRound
  <2> QED BY <1>0, <2>1, <2>2
<1>6. ASSUME NEW n \in Nodes, Publish(c, n)
      PROVE  Goal
  <2>1. PICK s : s = sched[c]
    OBVIOUS
  <2>2. PICK k : k = sched'[c]
    OBVIOUS
  <2>3. s.pc = "publish" /\ k.pc = "publish" /\ k.actual = s.actual
    BY <1>0, <1>6, <2>1, <2>2 DEF Publish, SchedStates
  <2>4. leader = c /\ Complete(s)
    BY <2>1, <2>3 DEF RoundOK
  <2>5. RoundOK(k)'
    BY <1>0, <2>3, <2>4 DEF RoundOK, Complete
  <2> QED BY <1>0, <2>2, <2>4, <2>5 DEF RoundOK, Listed, Planned, Complete
<1>7. ASSUME EndRound(c)
      PROVE  Goal
  <2>1. PICK k : k = sched'[c] /\ k = NewRound
    BY <1>0, <1>7 DEF EndRound
  <2>2. RoundOK(k) /\ k.pc # "publish" /\ ranges' = ranges
    BY <1>7, <2>1, RoundBegins DEF EndRound
  <2>3. RoundOK(k)'
    BY <1>0, <2>2, RoundSame
  <2> QED BY <2>1, <2>2, <2>3 DEF RoundOK, Listed, Planned, Complete
<1>8. ASSUME NEW d \in Schedulers, SchedulerStep(d)
      PROVE  Goal
  <2>1. CASE d = c
    <3> HIDE DEF Goal
    <3> QED BY <1>2, <1>3, <1>4, <1>5, <1>6, <1>7, <1>8, <2>1 DEF SchedulerStep
  <2>2. CASE d # c
    <3> HIDE DEF Goal
    <3> QED BY <1>1, <1>8, <2>2
  <2> QED BY <2>1, <2>2
<1>9. ~HandleLate
  BY <1>0 DEF HandleLate
<1>10. ASSUME NEW n \in Nodes
       PROVE  ~Crash(n) /\ ~Restart(n)
  BY <1>0 DEF Crash, Restart
<1>11. ASSUME NEW d \in Schedulers
       PROVE  ~Elect(d)
  BY <1>0 DEF Elect
<1> HIDE DEF Goal
<1>12. Goal
  BY <1>8, <1>9, <1>10, <1>11 DEF Next
<1> QED BY <1>12 DEF Goal

\* Rounds that begin are as they should be, and quiet ones stay so.
LEMMA NextRound ==
  TypeOK /\ TypeOK' /\ RoundInv /\ [MCNext]_<<vars, quiet>> => RoundInv'
<1> SUFFICES ASSUME TypeOK, TypeOK', RoundInv, [MCNext]_<<vars, quiet>>,
                    NEW c \in Schedulers, quiet'[c]
             PROVE  /\ sched'[c].pc = "publish" => leader' = c
                    /\ leader' = c => RoundOK(sched[c])'
  BY DEF RoundInv
<1>1. CASE UNCHANGED <<vars, quiet>>
  <2>1. PICK k : k = sched[c] /\ k = sched'[c]
    BY <1>1 DEF vars
  <2>2. leader' = c => RoundOK(k)'
    BY <1>1, <2>1, RoundSame DEF RoundInv, vars
  <2> QED BY <1>1, <2>1, <2>2 DEF RoundInv, vars, RoundOK, Listed, Planned, Complete
<1>2. CASE Next /\ sched'[c] = NewRound
  <2>1. PICK k : k = sched'[c] /\ k = NewRound
    BY <1>2
  <2>2. RoundOK(k)' /\ k.pc # "publish"
    <3>1. /\ k.pc = "list" /\ k.term = 1 /\ k.toVisit = Nodes
          /\ k.answered = {} /\ k.actual = Nothing
      BY <2>1 DEF NewRound
    <3>2. Listed(k)'
      BY <3>1 DEF Listed, Nothing, TypeOK
    <3> QED BY <3>1, <3>2 DEF RoundOK
  <2> QED BY <2>1, <2>2 DEF RoundOK, Listed, Planned, Complete
<1>3. CASE Next /\ quiet[c] /\ UNCHANGED <<up, late, leader, faults>>
  BY <1>3, QuietStep DEF RoundInv
<1> QED BY <1>1, <1>2, <1>3 DEF MCNext

\* What setRemoteTables sends (scheduler.go) is what the second NextTerm
\* listed, and in a round that nothing came between, that is every range on
\* as many of the running nodes as it should be, whatever the round began
\* with: the first term's moves are done before the second term looks.
THEOREM PublishesComplete == MCSpec => []PublishedComplete
<1>1. MCInit => TypeOK /\ RoundInv
  <2> SUFFICES ASSUME MCInit
               PROVE  TypeOK /\ RoundInv
    OBVIOUS
  <2>1. TypeOK
    BY InitType DEF MCInit
  <2>2. \A c \in Schedulers : sched[c] = NewRound
    BY DEF MCInit, Init
  <2> QED BY <2>1, <2>2, RoundBegins DEF RoundInv
<1>2. TypeOK /\ RoundInv /\ [MCNext]_<<vars, quiet>> => (TypeOK /\ RoundInv)'
  <2>1. [MCNext]_<<vars, quiet>> => [Next]_vars
    BY DEF MCNext
  <2> QED BY <2>1, NextType, NextRound
<1>3. RoundInv => PublishedComplete
  BY DEF RoundInv, RoundOK, Complete, PublishedComplete
<1> QED BY <1>1, <1>2, <1>3, PTL DEF MCSpec
=============================================================================
