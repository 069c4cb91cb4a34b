------------------------------- MODULE Store -------------------------------
(***************************************************************************)
(* The in-memory envelope store of a Log Cache node                        *)
(* (src/internal/cache/store/store.go): concurrent Put and Meta calls, and *)
(* the goroutine that truncates the store every 500 ms.                    *)
(*                                                                         *)
(* A source's envelopes are an AVL tree keyed by timestamp, behind a lock  *)
(* of its own; sync.Map storageIndex finds the tree of a source.  A tree   *)
(* is modelled as the set of its [key, timestamp] entries.  Envelopes are  *)
(* told apart by timestamp only.                                           *)
(*                                                                         *)
(* Atomicity: what a goroutine does while it holds a storage's lock is one *)
(* step up to its accesses of shared words outside that lock.              *)
(* getOrInitializeStorage is one step because it runs under                *)
(* initializationMutex and Delete only ever removes an entry it would have *)
(* found.                                                                  *)
(***************************************************************************)
EXTENDS Integers, FiniteSets

CONSTANTS
  SourceIds,          \* source ids envelopes are put under
  Timestamps,         \* envelope timestamps
  Storages,           \* identities of *storage values
  Nil,                \* no storage, no source, no holder of a lock
  Putters,            \* goroutines that call Put
  Readers,            \* goroutines that call Meta
  maxPerSource,
  maxTimestampFudge,  \* 4000 in NewStore
  PrunePercentages,   \* shares of the store the consultant may want pruned
  MIN_INT64,          \* the source's name for the largest int64
  MaxPuts             \* bound: Put calls in a behaviour

ASSUME StoreAssumption ==
  /\ IsFiniteSet(Putters)
  /\ Timestamps \subseteq Int
  /\ Nil \notin Storages \cup Putters \cup SourceIds
  /\ maxPerSource \in Nat \ {0}
  /\ maxTimestampFudge \in Nat
  /\ PrunePercentages \subseteq 0 .. 100
  /\ MIN_INT64 \in Int
  /\ \A ts \in Timestamps : ts + maxTimestampFudge < MIN_INT64

VARIABLES
  storageIndex,     \* source id -> its storage, or Nil
  tree,             \* storage -> set of [key, timestamp] entries
  meta,             \* storage -> its MetaInfo
  lock,             \* storage -> the Put that holds its lock, or Nil
  count,            \* store.count
  oldestTimestamp,  \* store.oldestTimestamp
  ingress, expired, \* the log_cache_ingress and log_cache_expired counters
  put,              \* putter -> the state of its Put call
  truncPc, numberToPrune, toVisit, expirationHeap,  \* truncate's locals
  reader,           \* reader -> the state of its Meta call
  panicked          \* where the process panicked, or "no"

storeVars == <<storageIndex, tree, meta, lock, count, oldestTimestamp, expired>>
truncVars == <<truncPc, numberToPrune, toVisit, expirationHeap>>
vars == <<storeVars, ingress, put, truncVars, reader, panicked>>

-----------------------------------------------------------------------------
(* Trees *)

Entries == [key : Int, timestamp : Int]

\* Mutant: the newest entry.
Left_Newest(t) == {e \in t : \A f \in t : e.key >= f.key}

\* The entry tree.Left() returns, as a set: empty when the tree is.
Left(t) == {e \in t : \A f \in t : e.key <= f.key}

DistinctKeys(t) == \A e, f \in t : e.key = f.key => e = f

HasKey(t, k) == \E e \in t : e.key = k

\* Mutant: the entry under the same key stays.
TreePut_Duplicate(t, k, ts) == t \cup {[key |-> k, timestamp |-> ts]}

\* tree.Put: an entry under the same key is replaced.
TreePut(t, k, ts) ==
  {e \in t : e.key # k} \cup {[key |-> k, timestamp |-> ts]}

\* The key the fudge loop settles on: the first free one from ts on, and
\* ts + maxTimestampFudge, free or not, when none before it is.
IsFudgedKey(t, ts, k) ==
  /\ k \in ts .. (ts + maxTimestampFudge)
  /\ \A j \in ts .. (k - 1) : HasKey(t, j)
  /\ k < ts + maxTimestampFudge => ~HasKey(t, k)

\* Mutant: the newest timestamp is the one known before.
Larger_First(a, b) == b

Larger(a, b) == IF a > b THEN a ELSE b

Smaller(a, b) == IF a < b THEN a ELSE b

-----------------------------------------------------------------------------
(* Processes *)

PutStates == [pc : {"idle", "insert", "load", "store"},
              storage : Storages \cup {Nil},
              timestamp : Int, oldest : Int]

IdlePut == [pc |-> "idle", storage |-> Nil, timestamp |-> 0, oldest |-> 0]

MetaStates == [pc : {"idle", "range", "copy", "count"},
               toVisit : SUBSET SourceIds, found : SUBSET SourceIds,
               sourceId : SourceIds \cup {Nil}, storage : Storages \cup {Nil}]

IdleReader == [pc |-> "idle", toVisit |-> {}, found |-> {},
               sourceId |-> Nil, storage |-> Nil]

HeapEntries == [timestamp : Int, sourceId : SourceIds, tree : Storages]

MetaInfos == [Expired : Nat, OldestTimestamp : Int, NewestTimestamp : Int]

EmptyMeta == [Expired |-> 0, OldestTimestamp |-> 0, NewestTimestamp |-> 0]

\* Where a goroutine is, of a process that has not panicked.
PutAt(p, pc) == panicked = "no" /\ put[p].pc = pc

TruncateAt(pc) == panicked = "no" /\ truncPc = pc

MetaAt(r, pc) == panicked = "no" /\ reader[r].pc = pc

\* A storage nothing points to: a new one may take its identity.
Unreferenced(st) ==
  /\ \A s \in SourceIds : storageIndex[s] # st
  /\ \A p \in Putters : put[p].storage # st
  /\ \A r \in Readers : reader[r].storage # st

Init ==
  /\ storageIndex = [s \in SourceIds |-> Nil]
  /\ tree = [st \in Storages |-> {}]
  /\ meta = [st \in Storages |-> EmptyMeta]
  /\ lock = [st \in Storages |-> Nil]
  /\ count = 0
  /\ oldestTimestamp = MIN_INT64
  /\ ingress = 0
  /\ expired = 0
  /\ put = [p \in Putters |-> IdlePut]
  /\ truncPc = "sleep"
  /\ numberToPrune = 0
  /\ toVisit = {}
  /\ expirationHeap = {}
  /\ reader = [r \in Readers |-> IdleReader]
  /\ panicked = "no"

-----------------------------------------------------------------------------
(* Put *)

\* Mutant: incIngress is not called.
Begin_Uncounted(p, st, ts) ==
  /\ UNCHANGED ingress
  /\ put' = [put EXCEPT ![p] = [pc |-> "insert", storage |-> st,
                                timestamp |-> ts, oldest |-> 0]]

\* incIngress, and Put has the storage of its source.
Begin(p, st, ts) ==
  /\ ingress' = ingress + 1
  /\ put' = [put EXCEPT ![p] = [pc |-> "insert", storage |-> st,
                                timestamp |-> ts, oldest |-> 0]]

\* getOrInitializeStorage finds the storage of the source.
PutExisting(p, s, ts) ==
  /\ PutAt(p, "idle")
  /\ ingress < MaxPuts
  /\ storageIndex[s] # Nil
  /\ Begin(p, storageIndex[s], ts)
  /\ UNCHANGED <<storeVars, truncVars, reader, panicked>>

\* Mutant: a storage another Put just indexed is replaced.
PutNew_Reindex(p, s, ts) ==
  /\ PutAt(p, "idle")
  /\ ingress < MaxPuts
  /\ \E st \in Storages :
       /\ Unreferenced(st)
       /\ storageIndex' = [storageIndex EXCEPT ![s] = st]
       /\ tree' = [tree EXCEPT ![st] = {}]
       /\ meta' = [meta EXCEPT ![st] = EmptyMeta]
       /\ Begin(p, st, ts)
  /\ UNCHANGED <<lock, count, oldestTimestamp, expired, truncVars, reader, panicked>>

\* getOrInitializeStorage indexes a new, empty storage.
PutNew(p, s, ts) ==
  /\ PutAt(p, "idle")
  /\ ingress < MaxPuts
  /\ storageIndex[s] = Nil
  /\ \E st \in Storages :
       /\ Unreferenced(st)
       /\ storageIndex' = [storageIndex EXCEPT ![s] = st]
       /\ tree' = [tree EXCEPT ![st] = {}]
       /\ meta' = [meta EXCEPT ![st] = EmptyMeta]
       /\ Begin(p, st, ts)
  /\ UNCHANGED <<lock, count, oldestTimestamp, expired, truncVars, reader, panicked>>

\* What insertOrSwap leaves of a tree before it inserts: at maxPerSource the
\* oldest envelope goes.
IsFull(t) == Cardinality(t) >= maxPerSource

Kept(t) == IF IsFull(t) THEN {t \ {e} : e \in Left(t)} ELSE {t}

\* insertOrSwap up to the load of store.oldestTimestamp: takes the lock.
InsertOrSwap(p) ==
  LET st == put[p].storage
      ts == put[p].timestamp
      full == IsFull(tree[st])
  IN
  /\ PutAt(p, "insert")
  /\ lock[st] = Nil
  /\ lock' = [lock EXCEPT ![st] = p]
  /\ count' = IF full THEN count ELSE count + 1
  /\ expired' = IF full THEN expired + 1 ELSE expired
  /\ \E kept \in Kept(tree[st]), k \in ts .. (ts + maxTimestampFudge) :
       /\ IsFudgedKey(kept, ts, k)
       /\ tree' = [tree EXCEPT ![st] = TreePut(kept, k, ts)]
       /\ \E left \in Left(TreePut(kept, k, ts)) :
            /\ meta' = [meta EXCEPT ![st] =
                 [Expired |-> @.Expired + (IF full THEN 1 ELSE 0),
                  OldestTimestamp |-> left.key,
                  NewestTimestamp |-> Larger(ts, @.NewestTimestamp)]]
            /\ put' = [put EXCEPT ![p] = [@ EXCEPT !.pc = "load", !.oldest = left.key]]
  /\ UNCHANGED <<storageIndex, oldestTimestamp, ingress, truncVars, reader, panicked>>

\* Mutant: the lock is not released.
Unlock_Forgotten(p) ==
  /\ put' = [put EXCEPT ![p] = IdlePut]
  /\ UNCHANGED lock

\* The end of insertOrSwap: the deferred Unlock and the return of Put.
Unlock(p) ==
  /\ lock' = [lock EXCEPT ![put[p].storage] = Nil]
  /\ put' = [put EXCEPT ![p] = IdlePut]

\* Loads store.oldestTimestamp and compares.
LoadOldest(p) ==
  /\ PutAt(p, "load")
  /\ IF put[p].oldest < oldestTimestamp
     THEN /\ put' = [put EXCEPT ![p].pc = "store"]
          /\ UNCHANGED lock
     ELSE Unlock(p)
  /\ UNCHANGED <<storageIndex, tree, meta, count, oldestTimestamp, expired,
                 ingress, truncVars, reader, panicked>>

\* Stores store.oldestTimestamp: not one atomic step with the load.
StoreOldest(p) ==
  /\ PutAt(p, "store")
  /\ oldestTimestamp' = put[p].oldest
  /\ Unlock(p)
  /\ UNCHANGED <<storageIndex, tree, meta, count, expired,
                 ingress, truncVars, reader, panicked>>

-----------------------------------------------------------------------------
(* truncate *)

\* mc.GetQuantityToPrune: the consultant's share of the count, rounded down.
QuantitiesToPrune(storeCount) ==
  {(storeCount * percent) \div 100 : percent \in PrunePercentages}

\* The timer fires.  A quantity of 0 ends the round; any other is capped by
\* the count just loaded, which is not loaded again.
BeginTruncate ==
  /\ TruncateAt("sleep")
  /\ \E quantity \in QuantitiesToPrune(count) :
       IF quantity = 0
       THEN UNCHANGED truncVars
       ELSE /\ truncPc' = "build"
            /\ numberToPrune' = Smaller(quantity, count)
            /\ toVisit' = SourceIds
            /\ expirationHeap' = {}
  /\ UNCHANGED <<storeVars, ingress, put, reader, panicked>>

\* BuildExpirationHeap: Range passes over a source that is not indexed ...
SkipSource(s) ==
  /\ TruncateAt("build")
  /\ s \in toVisit
  /\ storageIndex[s] = Nil
  /\ toVisit' = toVisit \ {s}
  /\ UNCHANGED <<storeVars, truncPc, numberToPrune, expirationHeap,
                 ingress, put, reader, panicked>>

\* ... and the callback pushes the oldest key of one that is, read under its
\* RLock.  Nobody but truncate removes an index entry, so the storage Range
\* hands over is still the indexed one when the lock is granted.  Left() of
\* an empty tree is nil and its Key a nil dereference.
VisitSource(s) ==
  LET st == storageIndex[s] IN
  /\ TruncateAt("build")
  /\ s \in toVisit
  /\ st # Nil
  /\ lock[st] = Nil
  /\ toVisit' = toVisit \ {s}
  /\ IF tree[st] = {}
     THEN /\ panicked' = "BuildExpirationHeap"
          /\ UNCHANGED expirationHeap
     ELSE /\ \E left \in Left(tree[st]) :
               expirationHeap' = expirationHeap \cup
                 {[timestamp |-> left.key, sourceId |-> s, tree |-> st]}
          /\ UNCHANGED panicked
  /\ UNCHANGED <<storeVars, truncPc, numberToPrune, ingress, put, reader>>

\* The heap is complete.  Range need not report a source stored while it
\* runs; one it skipped while absent is such a source.
EndBuild ==
  /\ TruncateAt("build")
  /\ toVisit = {}
  /\ truncPc' = "prune"
  /\ UNCHANGED <<storeVars, numberToPrune, toVisit, expirationHeap,
                 ingress, put, reader, panicked>>

\* Mutant: any entry is popped.
Oldest_Any(heap) == heap

\* What heap.Pop may return.
Oldest(heap) == {x \in heap : \A y \in heap : x.timestamp <= y.timestamp}

\* removeOldestEnvelope on the storage of a popped heap entry, under its
\* lock, and the push of the storage's next oldest key when it has one.
RemoveOldestEnvelope(popped) ==
  LET st == popped.tree
      s == popped.sourceId
      rest == expirationHeap \ {popped}
  IN
  IF tree[st] = {}
  THEN /\ expirationHeap' = rest
       /\ UNCHANGED <<storageIndex, tree, meta, count, expired>>
  ELSE /\ count' = count - 1
       /\ expired' = expired + 1
       /\ \E oldest \in Left(tree[st]) :
            LET remaining == tree[st] \ {oldest} IN
            /\ tree' = [tree EXCEPT ![st] = remaining]
            /\ IF remaining = {}
               THEN /\ storageIndex' = [storageIndex EXCEPT ![s] = Nil]
                    /\ expirationHeap' = rest
                    /\ UNCHANGED meta
               ELSE \E left \in Left(remaining) :
                      /\ meta' = [meta EXCEPT ![st] =
                           [@ EXCEPT !.Expired = meta[st].Expired + 1,
                                     !.OldestTimestamp = left.key]]
                      /\ expirationHeap' = rest \cup
                           {[timestamp |-> left.key, sourceId |-> s, tree |-> st]}
                      /\ UNCHANGED storageIndex

\* One turn of truncate's loop.
PruneOne ==
  /\ TruncateAt("prune")
  /\ numberToPrune > 0
  /\ \E popped \in Oldest(expirationHeap) :
       /\ lock[popped.tree] = Nil
       /\ RemoveOldestEnvelope(popped)
  /\ numberToPrune' = numberToPrune - 1
  /\ UNCHANGED <<lock, oldestTimestamp, truncPc, toVisit,
                 ingress, put, reader, panicked>>

\* heap.Pop of an empty heap swaps slots 0 and -1.
PopEmptyHeap ==
  /\ TruncateAt("prune")
  /\ numberToPrune > 0
  /\ expirationHeap = {}
  /\ panicked' = "truncate"
  /\ UNCHANGED <<storeVars, truncVars, ingress, put, reader>>

\* What expirationHeap.Pop() may return: the last slot of the heap's array,
\* which is the root only when it is the one slot.
LastSlot(heap) ==
  {x \in heap : \/ heap = {x}
                \/ \E y \in heap \ {x} : y.timestamp <= x.timestamp}

\* Mutant: "our store is empty", so the count is reset too.
EndTruncate_ResetsCount ==
  /\ TruncateAt("prune")
  /\ numberToPrune <= 0
  /\ IF expirationHeap = {}
     THEN oldestTimestamp' = MIN_INT64 /\ count' = 0
     ELSE /\ \E last \in LastSlot(expirationHeap) : oldestTimestamp' = last.timestamp
          /\ UNCHANGED count
  /\ truncPc' = "sleep"
  /\ expirationHeap' = {}
  /\ UNCHANGED <<storageIndex, tree, meta, lock, expired,
                 numberToPrune, toVisit, ingress, put, reader, panicked>>

\* The loop is done: store.oldestTimestamp is reset or set from the heap.
EndTruncate ==
  /\ TruncateAt("prune")
  /\ numberToPrune <= 0
  /\ IF expirationHeap = {}
     THEN oldestTimestamp' = MIN_INT64
     ELSE \E last \in LastSlot(expirationHeap) : oldestTimestamp' = last.timestamp
  /\ truncPc' = "sleep"
  /\ expirationHeap' = {}
  /\ UNCHANGED <<storageIndex, tree, meta, lock, count, expired,
                 numberToPrune, toVisit, ingress, put, reader, panicked>>

-----------------------------------------------------------------------------
(* Meta: the values it copies are left out, what it dereferences is not *)

BeginMeta(r) ==
  /\ MetaAt(r, "idle")
  /\ reader' = [reader EXCEPT ![r] = [@ EXCEPT !.pc = "range", !.toVisit = SourceIds]]
  /\ UNCHANGED <<storeVars, ingress, put, truncVars, panicked>>

\* Range passes over a source, or hands its storage to the callback.
RangeMeta(r, s) ==
  /\ MetaAt(r, "range")
  /\ s \in reader[r].toVisit
  /\ reader' = [reader EXCEPT ![r] =
       [@ EXCEPT !.toVisit = reader[r].toVisit \ {s},
                 !.pc = IF storageIndex[s] = Nil THEN "range" ELSE "copy",
                 !.sourceId = IF storageIndex[s] = Nil THEN Nil ELSE s,
                 !.storage = storageIndex[s]]]
  /\ UNCHANGED <<storeVars, ingress, put, truncVars, panicked>>

\* The callback copies the storage's meta under its RLock.
CopyMeta(r) ==
  /\ MetaAt(r, "copy")
  /\ lock[reader[r].storage] = Nil
  /\ reader' = [reader EXCEPT ![r] =
       [@ EXCEPT !.pc = "range", !.found = reader[r].found \cup {reader[r].sourceId},
                 !.sourceId = Nil, !.storage = Nil]]
  /\ UNCHANGED <<storeVars, ingress, put, truncVars, panicked>>

\* The second loop, over the sources found: Load again ...
LoadMeta(r) ==
  /\ MetaAt(r, "range")
  /\ reader[r].toVisit = {}
  /\ \E s \in reader[r].found :
       reader' = [reader EXCEPT ![r] =
         [@ EXCEPT !.pc = "count", !.sourceId = s, !.storage = storageIndex[s]]]
  /\ UNCHANGED <<storeVars, ingress, put, truncVars, panicked>>

\* ... and count under the RLock of what Load returned, nil or not.
CountMeta(r) ==
  LET st == reader[r].storage IN
  /\ MetaAt(r, "count")
  /\ st # Nil => lock[st] = Nil
  /\ IF st = Nil
     THEN /\ panicked' = "Meta"
          /\ UNCHANGED reader
     ELSE /\ reader' = [reader EXCEPT ![r] =
               [@ EXCEPT !.pc = "range", !.found = reader[r].found \ {reader[r].sourceId},
                         !.sourceId = Nil, !.storage = Nil]]
          /\ UNCHANGED panicked
  /\ UNCHANGED <<storeVars, ingress, put, truncVars>>

EndMeta(r) ==
  /\ MetaAt(r, "range")
  /\ reader[r].toVisit = {}
  /\ reader[r].found = {}
  /\ reader' = [reader EXCEPT ![r] = IdleReader]
  /\ UNCHANGED <<storeVars, ingress, put, truncVars, panicked>>

-----------------------------------------------------------------------------

PutStep(p) ==
  \/ \E s \in SourceIds, ts \in Timestamps : PutExisting(p, s, ts) \/ PutNew(p, s, ts)
  \/ InsertOrSwap(p)
  \/ LoadOldest(p)
  \/ StoreOldest(p)

TruncateStep ==
  \/ BeginTruncate
  \/ \E s \in SourceIds : SkipSource(s) \/ VisitSource(s)
  \/ EndBuild
  \/ PruneOne
  \/ PopEmptyHeap
  \/ EndTruncate

MetaStep(r) ==
  \/ BeginMeta(r)
  \/ \E s \in SourceIds : RangeMeta(r, s)
  \/ CopyMeta(r)
  \/ LoadMeta(r)
  \/ CountMeta(r)
  \/ EndMeta(r)

\* A panic of any goroutine ends the process, and the store with it.
Dead ==
  /\ panicked # "no"
  /\ UNCHANGED vars

Next ==
  \/ \E p \in Putters : PutStep(p)
  \/ TruncateStep
  \/ \E r \in Readers : MetaStep(r)
  \/ Dead

Spec == Init /\ [][Next]_vars

\* Every goroutine that can run again and again runs: the Go scheduler is
\* preemptive and its mutexes hand over to a waiter after 1 ms.  Nothing
\* says that a Put or Meta call, or a truncation that prunes, ever begins.
PutProgress(p) == InsertOrSwap(p) \/ LoadOldest(p) \/ StoreOldest(p)

TruncateProgress == TruncateStep /\ truncPc # "sleep"

MetaProgress(r) == MetaStep(r) /\ reader[r].pc # "idle"

FairSpec ==
  /\ Spec
  /\ \A p \in Putters : SF_vars(PutProgress(p))
  /\ SF_vars(TruncateProgress)
  /\ \A r \in Readers : SF_vars(MetaProgress(r))

-----------------------------------------------------------------------------
(* Correctness *)

Indexed == {s \in SourceIds : storageIndex[s] # Nil}

\* The entries a reader can find, each with its source.
Stored == UNION {{<<s, e>> : e \in tree[storageIndex[s]]} : s \in Indexed}

PutsIn(pcs) == {p \in Putters : put[p].pc \in pcs}

\* Type invariant; the keys of a tree are distinct.
TypeOK ==
  /\ storageIndex \in [SourceIds -> Storages \cup {Nil}]
  /\ tree \in [Storages -> SUBSET Entries]
  /\ \A st \in Storages : DistinctKeys(tree[st])
  /\ meta \in [Storages -> MetaInfos]
  /\ lock \in [Storages -> Putters \cup {Nil}]
  /\ count \in Int
  /\ oldestTimestamp \in Int
  /\ ingress \in Nat
  /\ expired \in Nat
  /\ put \in [Putters -> PutStates]
  /\ truncPc \in {"sleep", "build", "prune"}
  /\ numberToPrune \in Int
  /\ toVisit \subseteq SourceIds
  /\ expirationHeap \subseteq HeapEntries
  /\ reader \in [Readers -> MetaStates]
  /\ \A r \in Readers : reader[r].pc = "copy" => reader[r].sourceId \in SourceIds
  /\ panicked \in {"no", "BuildExpirationHeap", "truncate", "Meta"}

\* store.count, which decides how much is pruned, never falls below the
\* number of envelopes that can be read: insertOrSwap and
\* removeOldestEnvelope change it under different locks.
CountCoversStored == Cardinality(Stored) <= count

\* The metrics add up: an envelope counted by log_cache_ingress is counted by
\* the store size, by log_cache_expired, or its Put has not inserted it yet.
IngressAccounted ==
  ingress = count + expired + Cardinality(PutsIn({"insert"}))

\* While truncate runs, a source has at most one heap entry, for the storage
\* the index has now and with an envelope left: so removeOldestEnvelope never
\* deletes the index entry of a storage other than the one it emptied, and
\* its Size() == 0 case is never taken.
HeapEntriesLive ==
  /\ \A x \in expirationHeap :
       /\ storageIndex[x.sourceId] = x.tree
       /\ tree[x.tree] # {}
  /\ \A x, y \in expirationHeap : x.sourceId = y.sourceId => x = y

\* The MetaInfo of a storage describes its tree, whichever of Put and
\* truncate changed it last: OldestTimestamp is its least key and no envelope
\* is newer than NewestTimestamp.
MetaDescribesTree ==
  \A st \in Storages :
    /\ \A e \in Left(tree[st]) : meta[st].OldestTimestamp = e.key
    /\ \A e \in tree[st] : e.timestamp <= meta[st].NewestTimestamp

\* What a user sees of the store is a bounded cache that evicts a source's
\* oldest envelope first.
Contents ==
  [s \in SourceIds |-> IF storageIndex[s] = Nil THEN {} ELSE tree[storageIndex[s]]]

Cache == INSTANCE BoundedCache WITH contents <- Contents

ImplementsCache == Cache!Spec

\* A truncation that began ends, unless the process panics: no lock order
\* between Range, the storages and the index makes it wait for ever.
TruncationEnds == truncPc # "sleep" ~> truncPc = "sleep" \/ panicked # "no"

\* A Put that began returns, unless the process panics.
PutReturns ==
  \A p \in Putters : put[p].pc # "idle" ~> put[p].pc = "idle" \/ panicked # "no"

\* A Meta call that began returns, unless the process panics.
MetaReturns ==
  \A r \in Readers : reader[r].pc # "idle" ~> reader[r].pc = "idle" \/ panicked # "no"

-----------------------------------------------------------------------------
(* What the source says of the store and the code does not keep *)

\* "All functions are thread safe" (store.go:34): but truncate may run while a Put
\* has indexed a new storage and not yet inserted its envelope; Meta may run while
\* truncate removes a source; and there may be less to prune than is counted, when
\* a Put inserts into a storage that was removed (store.go:215, "Just make sure we
\* don't try to prune more entries than we have").
NeverPanics == panicked \notin {"BuildExpirationHeap", "Meta", "truncate"}
=============================================================================
