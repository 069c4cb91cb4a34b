-------------------------------- MODULE Walk --------------------------------
(***************************************************************************)
(* client.Walk (src/pkg/client/walk.go) over the storage of StorageTree,   *)
(* into which envelopes go on arriving: the Go client, the PromQL engine's *)
(* WalkingDataReader and Window read with it.                              *)
(***************************************************************************)
EXTENDS StorageTree, SequencesExt

CONSTANTS
  Walks,       \* what Walk is called with: [start, end, limit, backoff]
  NoEnd,       \* c.end.IsZero()
  delay,
  maxCount,    \* of a RetryBackoff
  MaxLatency,  \* bound: how long a read takes
  MaxNow,      \* bound: of the clock
  MaxErrors,   \* bound: reads that fail
  Windows,     \* how many times Window's ticker ticks
  interval     \* of Window

Configs ==
  [start : Int, end : Int \cup {NoEnd}, limit : Nat \ {0},
   backoff : {"done", "retry", "count", "countErr"}]

ASSUME WalkAssumption ==
  /\ delay \in Nat /\ MaxLatency \in Nat /\ maxCount \in Nat
  /\ MaxNow \in Nat /\ MaxErrors \in Nat /\ Windows \in Nat /\ interval \in Int
  /\ NoEnd \notin Int
  /\ Walks \subseteq Configs

VARIABLES
  now,
  walk,     \* [config, at, start, es, receivedEmpty, count, window]
  visited,  \* the batches that the Visitor got
  history   \* what the properties refer to: see Observe

walkVars == <<root, puts, now, walk, visited, history>>

WalkTypeOK ==
  /\ TypeOK
  /\ now \in 0 .. MaxNow
  /\ \E c \in Walks : [walk.config EXCEPT !.start = c.start, !.end = c.end] = c
  /\ walk.at \in {"read", "waiting", "returned"}
  /\ walk.start \in Int /\ walk.es \in Seq(Entries)
  /\ walk.receivedEmpty \in BOOLEAN
  /\ walk.count \in 0 .. maxCount
  /\ walk.window \in 0 .. Windows
  /\ \A i \in DOMAIN visited : visited[i] \in Seq(Entries) \ {<<>>}

\* Walk sets out on a window, or on its only one.
Walking(c, window) ==
  [config |-> c, at |-> "read", start |-> c.start, es |-> <<>>,
   receivedEmpty |-> FALSE, count |-> 0, window |-> window]

NoHistory == [ordered |-> TRUE, late |-> {}, waiting |-> 0, errors |-> 0]

WalkInit ==
  /\ Init
  /\ now = 0
  /\ \E c \in Walks : walk = Walking(c, 0)
  /\ visited = <<>>
  /\ history = NoHistory
-----------------------------------------------------------------------------
HasEnd == walk.config.end # NoEnd

\* LocalStoreReader.Read of what Walk asks for.
Rejected == HasEnd /\ walk.start > walk.config.end

Query == [start |-> walk.start, end |-> IF HasEnd THEN walk.config.end ELSE now,
          limit |-> walk.config.limit, filter |-> "none"]

\* The node reads its tree.
Read ==
  /\ walk.at = "read" /\ ~Rejected
  /\ walk' = [walk EXCEPT !.at = "waiting", !.es = Get(Query, FALSE)]
  /\ history' = [history EXCEPT !.ordered = @ /\ Monotone]
  /\ UNCHANGED <<root, puts, now, visited>>

\* es up to the last that is kept.
PruneEnd(es, Keep(_)) ==
  SubSeq(es, 1, Max({0} \cup {i \in DOMAIN es : Keep(es[i])}))

\* Mutant: no envelope is too new.
PrunedEs_TooNew ==
  PruneEnd(walk.es, LAMBDA e : HasEnd => e.timestamp < walk.config.end)

\* What is left of es: not what is too new, nor what is beyond the end.
PrunedEs ==
  LET settled == IF HasEnd /\ walk.receivedEmpty THEN walk.es
                 ELSE PruneEnd(walk.es, LAMBDA e : e.timestamp <= now - delay)
  IN PruneEnd(settled, LAMBDA e : HasEnd => e.timestamp < walk.config.end)

\* Mutant: the failures of a RetryBackoff are not counted.
Counted_Not(n) == n

Counted(n) == n + 1

\* OnErr and OnEmpty: whether to go on.
GoesOn(counting) ==
  \/ walk.config.backoff = "retry"
  \/ walk.config.backoff \in counting /\ Counted(walk.count) < maxCount

\* What the walk is after OnErr or OnEmpty.
BackOff(counting) ==
  [walk EXCEPT
     !.es = <<>>,
     !.at = IF GoesOn(counting) THEN "read" ELSE "returned",
     !.count = IF @ < maxCount /\ walk.config.backoff \in counting
               THEN Counted(@) ELSE @]

Fails == /\ walk' = BackOff({"count", "countErr"})
         /\ UNCHANGED <<root, puts, now, visited>>

ReadRejected ==
  /\ walk.at = "read" /\ Rejected
  /\ Fails /\ UNCHANGED history

ReadFails ==
  /\ walk.at = "waiting" /\ history.errors < MaxErrors
  /\ Fails
  /\ history' = [history EXCEPT !.errors = @ + 1, !.waiting = 0]

ReceivesNothing ==
  /\ walk.at = "waiting" /\ PrunedEs = <<>>
  /\ walk' = [BackOff({"count"}) EXCEPT !.receivedEmpty = TRUE]
  /\ history' = [history EXCEPT !.waiting = 0]
  /\ UNCHANGED <<root, puts, now, visited>>

\* Mutant: the next read starts at the timestamp of the last envelope.
NextStart_Again(es) == Last(es).timestamp

NextStart(es) == Last(es).timestamp + 1

\* The Visitor gets the batch, and may have had enough.
Visit(more) ==
  /\ walk.at = "waiting" /\ PrunedEs # <<>>
  /\ visited' = Append(visited, PrunedEs)
  /\ LET ended == HasEnd /\ Last(PrunedEs).timestamp + 1 >= walk.config.end IN
     walk' = [walk EXCEPT
       !.es = <<>>, !.receivedEmpty = FALSE, !.count = 0,
       !.at = IF more /\ ~ended THEN "read" ELSE "returned",
       !.start = IF more /\ ~ended THEN NextStart(PrunedEs) ELSE @]
  /\ history' = [history EXCEPT !.waiting = 0]
  /\ UNCHANGED <<root, puts, now>>

\* A read that fails after the context is done, by its timeout or its owner.
Cancelled ==
  /\ walk.at = "waiting" /\ history.errors < MaxErrors
  /\ walk' = [walk EXCEPT !.at = "returned", !.es = <<>>]
  /\ history' = [history EXCEPT !.errors = @ + 1, !.waiting = 0]
  /\ UNCHANGED <<root, puts, now, visited>>

\* Window's next tick, when its Walker, which takes the default backoff, has
\* returned and the Visitor goes on.
NextWindow ==
  /\ walk.at = "returned" /\ walk.window < Windows
  /\ HasEnd /\ walk.config.backoff = "done"
  /\ LET c == [walk.config EXCEPT !.start = @ + interval, !.end = @ + interval] IN
     walk' = Walking(c, walk.window + 1)
  /\ visited' = <<>>
  /\ UNCHANGED <<root, puts, now, history>>
-----------------------------------------------------------------------------
\* Whether an envelope is too late for a walk to be sure to see it.
Late(ts) == now + MaxLatency >= ts + delay

Arrive ==
  /\ \E ts \in Timestamps, kind \in Kinds :
       /\ Insert(ts, kind)
       /\ LET new == EntriesOf(root') \ EntriesOf(root)
              late == IF Late(ts) THEN {e.key : e \in new} ELSE {}
              keys == {e.key : e \in EntriesOf(root')}
          IN history' = [history EXCEPT
               !.late = ((@ \ {e.key : e \in new}) \cup late) \cap keys]
  /\ UNCHANGED <<now, walk, visited>>

Expire ==
  /\ RemoveOldest
  /\ history' = [history EXCEPT !.late = @ \cap {e.key : e \in EntriesOf(root')}]
  /\ UNCHANGED <<now, walk, visited>>

Tick ==
  /\ now < MaxNow
  /\ walk.at = "waiting" => history.waiting < MaxLatency
  /\ now' = now + 1
  /\ history' = [history EXCEPT !.waiting = IF walk.at = "waiting" THEN @ + 1 ELSE 0]
  /\ UNCHANGED <<root, puts, walk, visited>>

WalkStep ==
  \/ Read \/ ReadRejected \/ ReceivesNothing
  \/ \E more \in BOOLEAN : Visit(more)
  \/ NextWindow

WalkNext == WalkStep \/ ReadFails \/ Cancelled \/ Arrive \/ Expire \/ Tick

WalkSpec == WalkInit /\ [][WalkNext]_walkVars /\ WF_walkVars(WalkStep)
                     /\ WF_walkVars(Tick)
-----------------------------------------------------------------------------
Visited == UNION {Range(visited[i]) : i \in DOMAIN visited}

\* While Puts keep envelopes in the order of their timestamps, the Visitor gets
\* no envelope twice and none out of order, although the tree changes between
\* the reads: a batch is later than all before it.
EachVisitedOnce ==
  [][visited' # visited /\ visited' # <<>> /\ history.ordered =>
       \A e \in Visited, f \in Range(Last(visited')) : e.timestamp < f.timestamp
    ]_walkVars

\* Envelopes of one timestamp of which an earlier batch had but the first.
SplitOff(e) ==
  \E i \in DOMAIN visited : Last(visited[i]).key = e.timestamp

\* An envelope that gets to the store in time is not passed over: neither the
\* delay, nor the limit, nor what is pruned or arrives between two reads makes
\* Walk skip it. Too late is less than the delay, by what a read may take; and
\* a walk to an end that has once seen nothing waits for nobody any more.
NothingPassedOver ==
  history.ordered /\ ~(HasEnd /\ walk.config.backoff \in {"retry", "count"}) =>
    \A e \in EntriesOf(root) :
      \/ e.timestamp < walk.config.start
      \/ \A v \in Visited : v.timestamp < e.timestamp
      \/ e \in Visited \/ SplitOff(e) \/ e.key \in history.late

\* A Walk with an end and a backoff that counts returns, whatever it reads and
\* however often reads fail.
WalkReturns ==
  (HasEnd /\ walk.config.backoff # "retry") ~> walk.at = "returned"
=============================================================================
