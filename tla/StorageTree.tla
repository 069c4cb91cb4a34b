---------------------------- MODULE StorageTree ----------------------------
(***************************************************************************)
(* One storage and Get's walk over its tree                                *)
(* (src/internal/cache/store/store.go).  Store has the interleavings and   *)
(* takes a tree for a set; here is the tree itself, because what Get       *)
(* returns depends on its shape.                                           *)
(***************************************************************************)
EXTENDS Integers, FiniteSets, Sequences

CONSTANTS
  Timestamps, Kinds, maxPerSource, maxTimestampFudge,
  Limits,   \* limits Get is called with
  MaxPuts   \* bound: insertions in a behaviour

ASSUME StorageTreeAssumption ==
  /\ Timestamps \subseteq Int
  /\ Kinds \subseteq {"log", "counter"}
  /\ maxPerSource \in Nat \ {0}
  /\ maxTimestampFudge \in Nat
  /\ Limits \subseteq Nat \ {0}
  /\ MaxPuts \in Nat

VARIABLES
  root,  \* storage.Root
  puts   \* insertions so far

vars == <<root, puts>>

Entries == [key : Int, timestamp : Timestamps, kind : Kinds]

INSTANCE AvlTree
-----------------------------------------------------------------------------

\* Mutant: the loop gives up one key early.
FudgedKey_OffByOne(t, ts) ==
  CHOOSE k \in ts .. (ts + maxTimestampFudge - 1) :
    /\ \A j \in ts .. (k - 1) : HasKey(t, j)
    /\ k < ts + maxTimestampFudge - 1 => ~HasKey(t, k)

\* The key the fudge loop of insertOrSwap stops at.
FudgedKey(t, ts) ==
  CHOOSE k \in ts .. (ts + maxTimestampFudge) :
    /\ \A j \in ts .. (k - 1) : HasKey(t, j)
    /\ k < ts + maxTimestampFudge => ~HasKey(t, k)

\* Mutant: one envelope too many is kept.
Insert_OverCapacity(ts, kind) ==
  LET kept == IF Size(root) > maxPerSource THEN RemoveLeft(root) ELSE root IN
  /\ puts < MaxPuts
  /\ root' = Put(kept, [key |-> FudgedKey(kept, ts), timestamp |-> ts, kind |-> kind])
  /\ puts' = puts + 1

\* insertOrSwap.
Insert(ts, kind) ==
  LET kept == IF Size(root) >= maxPerSource THEN RemoveLeft(root) ELSE root IN
  /\ puts < MaxPuts
  /\ root' = Put(kept, [key |-> FudgedKey(kept, ts), timestamp |-> ts, kind |-> kind])
  /\ puts' = puts + 1

\* removeOldestEnvelope.
RemoveOldest ==
  /\ ~IsEmpty(root)
  /\ root' = RemoveLeft(root)
  /\ UNCHANGED puts

\* MaxPuts insertions end a behaviour: its tree has been read by then.
Done ==
  /\ puts = MaxPuts
  /\ UNCHANGED vars

Init == root = Empty /\ puts = 0

Next ==
  \/ \E ts \in Timestamps, kind \in Kinds : Insert(ts, kind)
  \/ RemoveOldest
  \/ Done

Spec == Init /\ [][Next]_vars

-----------------------------------------------------------------------------
(* Get *)

\* A filter is none, a name filter (a log has no name), or an envelope type.
Filters == {"none", "name", "type"}

Matches(e, filter) == filter = "none" \/ e.kind = "counter"

\* Mutant: the filter is not applied.
Collect_Unfiltered(e, q, res) ==
  [stop |-> Len(res) + 1 >= q.limit, res |-> Append(res, e)]

\* Mutant: the walk stops one envelope short of the limit.
Collect_StopsEarly(e, q, res) ==
  LET collected == IF Matches(e, q.filter) THEN Append(res, e) ELSE res IN
  [stop |-> Len(collected) + 1 >= q.limit, res |-> collected]

\* The callback of Get: what it returns, and res after it.  An envelope that
\* filterByName drops never stops the walk.
Collect(e, q, res) ==
  LET collected == IF Matches(e, q.filter) THEN Append(res, e) ELSE res IN
  [stop |-> ~(q.filter = "name" /\ ~Matches(e, q.filter)) /\ Len(collected) >= q.limit,
   res |-> collected]

\* Mutant: the limit ends the walk wherever it is reached.
InFudgeSequence_Never(n, nextChild) == FALSE

\* Mutant: only the child is looked at.
InFudgeSequence_ChildOnly(n, nextChild) ==
  ~IsEmpty(nextChild) /\ Top(nextChild).entry.timestamp # Top(nextChild).entry.key

\* isNodeAFudgeSequenceMember.
InFudgeSequence(n, nextChild) ==
  \/ Top(n).entry.timestamp # Top(n).entry.key
  \/ ~IsEmpty(nextChild) /\ Top(nextChild).entry.timestamp # Top(nextChild).entry.key

\* treeAscTraverse: what it returns, and what it has collected.
Asc(t, q) ==
  LET asc[n \in Trees] == [res \in Seq(Entries) |->
    LET entry == Top(n).entry IN
    IF IsEmpty(n) THEN [stop |-> FALSE, res |-> res]
    ELSE IF entry.timestamp < q.start THEN asc[Right(n)][res]
    ELSE
      LET before == asc[Left(n)][res]
          here == IF entry.timestamp >= q.end THEN [stop |-> TRUE, res |-> before.res]
                  ELSE Collect(entry, q, before.res)
      IN IF before.stop THEN before
         ELSE IF here.stop /\ ~InFudgeSequence(n, Right(n)) THEN here
         ELSE asc[Right(n)][here.res]]
  IN asc[t][<<>>]

\* treeDescTraverse.
Desc(t, q) ==
  LET desc[n \in Trees] == [res \in Seq(Entries) |->
    LET entry == Top(n).entry IN
    IF IsEmpty(n) THEN [stop |-> FALSE, res |-> res]
    ELSE IF entry.timestamp >= q.end THEN desc[Left(n)][res]
    ELSE
      LET before == desc[Right(n)][res]
          here == IF entry.timestamp < q.start THEN [stop |-> TRUE, res |-> before.res]
                  ELSE Collect(entry, q, before.res)
      IN IF before.stop THEN before
         ELSE IF here.stop /\ ~InFudgeSequence(n, Left(n)) THEN here
         ELSE desc[Left(n)][here.res]]
  IN desc[t][<<>>]

Get(q, descending) ==
  IF descending THEN Desc(root, q).res ELSE Asc(root, q).res

-----------------------------------------------------------------------------
(* Correctness *)

\* The time bounds that tell the timestamps apart, one past the last included.
Bounds == Timestamps \cup {ts + 1 : ts \in Timestamps}

Queries == [start : Bounds, end : Bounds, limit : Limits, filter : Filters]

Wanted(q) ==
  {e \in EntriesOf(root) :
     q.start <= e.timestamp /\ e.timestamp < q.end /\ Matches(e, q.filter)}

\* Envelopes did not overtake each other on their way to a free key.
Monotone ==
  \A e, f \in EntriesOf(root) : e.key < f.key => e.timestamp <= f.timestamp

\* a is returned before b.
Before(a, b, descending) == IF descending THEN a.key > b.key ELSE a.key < b.key

\* Type invariant: a well-formed tree of no more than maxPerSource envelopes.
TypeOK ==
  /\ root \in Trees /\ WellFormed(root)
  /\ Size(root) <= maxPerSource
  /\ puts \in 0 .. MaxPuts

\* However envelopes arrived, Get returns none outside [start..end), none
\* that the filter drops, and none twice; they come in the order asked for.
GetSound ==
  \A q \in Queries, descending \in BOOLEAN :
    LET res == Get(q, descending) IN
    /\ \A i \in 1 .. Len(res) : res[i] \in Wanted(q)
    /\ \A i \in 1 .. Len(res) - 1 : Before(res[i], res[i + 1], descending)

\* When keys and timestamps agree, the walk's shortcuts skip nothing: Get
\* returns the first wanted envelopes in the order asked for, all of them or
\* at least as many as the limit.
GetComplete ==
  Monotone =>
    \A q \in Queries, descending \in BOOLEAN :
      LET res == Get(q, descending)
          got == {res[i] : i \in 1 .. Len(res)}
          missed == Wanted(q) \ got
      IN
      /\ missed # {} => Len(res) >= q.limit
      /\ \A e \in got, f \in missed : Before(e, f, descending)

\* Envelopes of one timestamp that res ends among.
Split(q, descending) ==
  LET res == Get(q, descending)
      got == {res[i] : i \in 1 .. Len(res)}
  IN {e \in Wanted(q) \ got : \E g \in got : g.timestamp = e.timestamp}

\* A descending Get never returns a part of the envelopes of one timestamp.
DescKeepsGroups ==
  Monotone => \A q \in Queries : Split(q, TRUE) = {}

\* An ascending Get breaks up such a group only behind its first envelope,
\* so that a client that asks again from that timestamp on makes progress.
AscSplitsBehindFirst ==
  Monotone =>
    \A q \in Queries :
      LET res == Get(q, FALSE) IN
      Split(q, FALSE) # {} => res[Len(res)].key = res[Len(res)].timestamp

\* The tree is the set of entries that Store takes it for.
Contents ==
  [s \in {"source"} |->
     {[key |-> e.key, timestamp |-> e.timestamp] : e \in EntriesOf(root)}]

Cache == INSTANCE BoundedCache WITH SourceIds <- {"source"}, contents <- Contents

ImplementsCache == Cache!Spec

-----------------------------------------------------------------------------
(* What the tests say and the code does not keep *)

\* "intentionally exceeds the limit when it would otherwise break up a group
\* of fudged timestamps" (store_test.go:112).
AscKeepsGroups ==
  Monotone => \A q \in Queries : Split(q, FALSE) = {}
=============================================================================
