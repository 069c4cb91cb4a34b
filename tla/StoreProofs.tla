---------------------------- MODULE StoreProofs ----------------------------
(***************************************************************************)
(* Theorems about Store, for any sources, goroutines, timestamps, bounds   *)
(* and prune shares, about the history MCStore adds, and, at the end, that *)
(* Store implements BoundedCache.                                          *)
(***************************************************************************)
EXTENDS MCStore, FiniteSetTheorems, TLAPS

-----------------------------------------------------------------------------
(* Trees *)

\* tree.Put stores entries only.
LEMMA TreePutType ==
  ASSUME NEW t \in SUBSET Entries, NEW ts \in Int, NEW k \in Int
  PROVE  TreePut(t, k, ts) \in SUBSET Entries
BY DEF TreePut, Entries

\* tree.Put keeps the keys of a tree distinct.
LEMMA TreePutDistinct ==
  ASSUME NEW t, DistinctKeys(t), NEW ts, NEW k
  PROVE  DistinctKeys(TreePut(t, k, ts))
BY DEF TreePut, DistinctKeys

\* What is kept of a tree before an insertion is part of it.
LEMMA KeptSubset ==
  ASSUME NEW t, NEW kept \in Kept(t)
  PROVE  kept \subseteq t
BY DEF Kept

\* Shares of an integer are integers.
LEMMA QuantityType ==
  ASSUME NEW n \in Int, NEW q \in QuantitiesToPrune(n)
  PROVE  q \in Int
<1>1. PICK percent \in PrunePercentages : q = (n * percent) \div 100
  BY DEF QuantitiesToPrune
<1>2. percent \in Int
  BY StoreAssumption
<1>3. n * percent \in Int
  BY <1>2
<1> QED BY <1>1, <1>3

-----------------------------------------------------------------------------
(* What an inductive proof needs beside the type invariant *)

\* A storage's lock is held exactly while the Put that took it is between its
\* insertion and its return, so a tree never has two writers.
LocksHeldByPuts ==
  /\ \A p \in Putters : put[p].storage = Nil <=> put[p].pc = "idle"
  /\ \A st \in Storages, p \in Putters :
       lock[st] = p <=> put[p].pc \in {"load", "store"} /\ put[p].storage = st

\* No two sources have the same storage.
StoragesNotShared ==
  \A s, u \in Indexed : storageIndex[s] = storageIndex[u] => s = u

-----------------------------------------------------------------------------
(* Type correctness *)

\* The store begins with empty indexes and free locks.
LEMMA InitType == Init => TypeOK
BY StoreAssumption DEF Init, TypeOK, IdlePut, IdleReader, EmptyMeta, Entries,
   DistinctKeys, PutStates, MetaStates, MetaInfos

\* insertOrSwap leaves entries with distinct keys.
LEMMA InsertOrSwapType ==
  ASSUME TypeOK, NEW p \in Putters, put[p].storage \in Storages, InsertOrSwap(p)
  PROVE  TypeOK'
<1> DEFINE st == put[p].storage
           ts == put[p].timestamp
           full == IsFull(tree[st])
<1>1. PICK kept \in Kept(tree[st]), k \in ts .. (ts + maxTimestampFudge) :
        /\ tree' = [tree EXCEPT ![st] = TreePut(kept, k, ts)]
        /\ \E left \in Left(TreePut(kept, k, ts)) :
             /\ meta' = [meta EXCEPT ![st] =
                  [Expired |-> @.Expired + (IF full THEN 1 ELSE 0),
                   OldestTimestamp |-> left.key,
                   NewestTimestamp |-> Larger(ts, @.NewestTimestamp)]]
             /\ put' = [put EXCEPT ![p] = [@ EXCEPT !.pc = "load", !.oldest = left.key]]
  BY DEF InsertOrSwap
<1>2. ts \in Int /\ k \in Int /\ tree[st] \in SUBSET Entries
  BY StoreAssumption DEF TypeOK, PutStates
<1>3. TreePut(kept, k, ts) \in SUBSET Entries
  BY <1>2, KeptSubset, TreePutType
<1>4. tree' \in [Storages -> SUBSET Entries]
  BY <1>1, <1>3 DEF TypeOK
<1>4a. \A any \in Storages : DistinctKeys(tree'[any])
  <2>1. DistinctKeys(kept)
    BY KeptSubset DEF TypeOK, DistinctKeys
  <2>2. DistinctKeys(TreePut(kept, k, ts))
    BY <2>1, TreePutDistinct
  <2> QED BY <1>1, <2>2 DEF TypeOK
<1>5. PICK left \in Entries :
        /\ meta' = [meta EXCEPT ![st] =
             [Expired |-> @.Expired + (IF full THEN 1 ELSE 0),
              OldestTimestamp |-> left.key,
              NewestTimestamp |-> Larger(ts, @.NewestTimestamp)]]
        /\ put' = [put EXCEPT ![p] = [@ EXCEPT !.pc = "load", !.oldest = left.key]]
  BY <1>1, <1>3 DEF Left
<1>6. meta' \in [Storages -> MetaInfos]
  BY <1>2, <1>5 DEF TypeOK, Entries, Larger, MetaInfos
<1>7. put' \in [Putters -> PutStates]
  <2>1. left.key \in Int
    BY DEF Entries
  <2>2. put \in [Putters -> PutStates]
    BY DEF TypeOK
  <2>3. [put[p] EXCEPT !.pc = "load", !.oldest = left.key] \in PutStates
    BY <2>1, <2>2 DEF PutStates
  <2> QED BY <1>5, <2>2, <2>3
<1>8. /\ lock' \in [Storages -> Putters \cup {Nil}]
      /\ count' \in Int
      /\ expired' \in Nat
  BY DEF InsertOrSwap, TypeOK
<1> QED BY <1>4, <1>6, <1>7, <1>8, <1>4a DEF InsertOrSwap, TypeOK, truncVars

\* Every step of a Put keeps the types.
LEMMA PutType ==
  ASSUME TypeOK, LocksHeldByPuts, NEW p \in Putters, PutStep(p)
  PROVE  TypeOK'
<1>1. \A s \in SourceIds, ts \in Timestamps : PutExisting(p, s, ts) => TypeOK'
  BY StoreAssumption DEF PutExisting, Begin, PutAt, TypeOK, PutStates, storeVars, truncVars
<1>2. \A s \in SourceIds, ts \in Timestamps : PutNew(p, s, ts) => TypeOK'
  <2> SUFFICES ASSUME NEW s \in SourceIds, NEW ts \in Timestamps, PutNew(p, s, ts)
               PROVE  TypeOK'
    OBVIOUS
  <2>1. PICK st \in Storages :
          /\ storageIndex' = [storageIndex EXCEPT ![s] = st]
          /\ tree' = [tree EXCEPT ![st] = {}]
          /\ meta' = [meta EXCEPT ![st] = EmptyMeta]
          /\ put' = [put EXCEPT ![p] = [pc |-> "insert", storage |-> st,
                                        timestamp |-> ts, oldest |-> 0]]
          /\ ingress' = ingress + 1
    BY DEF PutNew, Begin
  <2>2. put' \in [Putters -> PutStates]
    BY <2>1, StoreAssumption DEF TypeOK, PutStates
  <2>3. meta' \in [Storages -> MetaInfos]
    BY <2>1 DEF TypeOK, EmptyMeta, MetaInfos
  <2>4. \A any \in Storages : DistinctKeys(tree'[any])
    BY <2>1 DEF TypeOK, DistinctKeys
  <2> QED BY <2>1, <2>2, <2>3, <2>4 DEF PutNew, Begin, TypeOK, truncVars
<1>3. InsertOrSwap(p) => TypeOK'
  <2> SUFFICES ASSUME InsertOrSwap(p) PROVE TypeOK'
    OBVIOUS
  <2>1. put[p].storage \in Storages
    BY DEF InsertOrSwap, PutAt, LocksHeldByPuts, TypeOK, PutStates
  <2> QED BY <2>1, InsertOrSwapType
<1>4. Unlock(p) => /\ lock' \in [Storages -> Putters \cup {Nil}]
                   /\ put' \in [Putters -> PutStates]
  <2>1. IdlePut \in PutStates
    BY DEF IdlePut, PutStates
  <2> QED BY <2>1 DEF Unlock, TypeOK
<1>5. LoadOldest(p) => TypeOK'
  <2> SUFFICES ASSUME LoadOldest(p) PROVE TypeOK'
    OBVIOUS
  <2>1. [put[p] EXCEPT !.pc = "store"] \in PutStates
    BY DEF TypeOK, PutStates
  <2>2. lock' \in [Storages -> Putters \cup {Nil}] /\ put' \in [Putters -> PutStates]
    <3>1. CASE put[p].oldest < oldestTimestamp
      BY <2>1, <3>1 DEF LoadOldest, TypeOK
    <3>2. CASE ~(put[p].oldest < oldestTimestamp)
      BY <1>4, <3>2 DEF LoadOldest
    <3> QED BY <3>1, <3>2
  <2> QED BY <2>2 DEF LoadOldest, TypeOK, truncVars
<1>6. StoreOldest(p) => TypeOK'
  BY <1>4 DEF StoreOldest, TypeOK, PutStates, truncVars
<1> QED BY <1>1, <1>2, <1>3, <1>5, <1>6 DEF PutStep

\* removeOldestEnvelope takes an entry away and may pop the heap.
LEMMA RemoveType ==
  ASSUME TypeOK, NEW popped \in expirationHeap, RemoveOldestEnvelope(popped)
  PROVE  /\ storageIndex' \in [SourceIds -> Storages \cup {Nil}]
         /\ tree' \in [Storages -> SUBSET Entries]
         /\ \A any \in Storages : DistinctKeys(tree'[any])
         /\ meta' \in [Storages -> MetaInfos]
         /\ count' \in Int
         /\ expired' \in Nat
         /\ expirationHeap' \subseteq HeapEntries
<1> DEFINE st == popped.tree
<1>1. /\ st \in Storages
      /\ popped.sourceId \in SourceIds
      /\ tree[st] \in SUBSET Entries
  BY DEF TypeOK, HeapEntries
<1>2. CASE tree[st] = {}
  BY <1>2 DEF RemoveOldestEnvelope, TypeOK
<1>3. CASE tree[st] # {}
  <2>1. PICK oldest \in Left(tree[st]) :
          /\ tree' = [tree EXCEPT ![st] = @ \ {oldest}]
          /\ IF tree[st] \ {oldest} = {}
             THEN /\ storageIndex' = [storageIndex EXCEPT ![popped.sourceId] = Nil]
                  /\ expirationHeap' = expirationHeap \ {popped}
                  /\ UNCHANGED meta
             ELSE \E left \in Left(tree[st] \ {oldest}) :
                    /\ meta' = [meta EXCEPT ![st] =
                         [@ EXCEPT !.Expired = meta[st].Expired + 1, !.OldestTimestamp = left.key]]
                    /\ expirationHeap' = (expirationHeap \ {popped}) \cup
                         {[timestamp |-> left.key, sourceId |-> popped.sourceId,
                           tree |-> st]}
                    /\ UNCHANGED storageIndex
    BY <1>3 DEF RemoveOldestEnvelope
  <2>2. count' \in Int /\ expired' \in Nat
    <3>1. count' = count - 1 /\ expired' = expired + 1
      BY <1>3 DEF RemoveOldestEnvelope
    <3> QED BY <3>1 DEF TypeOK
  <2>3. tree' \in [Storages -> SUBSET Entries]
    BY <1>1, <2>1 DEF TypeOK
  <2>3a. \A any \in Storages : DistinctKeys(tree'[any])
    BY <1>1, <2>1 DEF TypeOK, DistinctKeys
  <2>4. CASE tree[st] \ {oldest} = {}
    BY <1>1, <2>1, <2>2, <2>3, <2>4, <2>3a DEF TypeOK
  <2>5. CASE tree[st] \ {oldest} # {}
    <3>1. PICK left \in Left(tree[st] \ {oldest}) :
            /\ meta' = [meta EXCEPT ![st] =
                 [@ EXCEPT !.Expired = meta[st].Expired + 1, !.OldestTimestamp = left.key]]
            /\ expirationHeap' = (expirationHeap \ {popped}) \cup
                 {[timestamp |-> left.key, sourceId |-> popped.sourceId, tree |-> st]}
            /\ UNCHANGED storageIndex
      BY <2>1, <2>5
    <3>2. left.key \in Int
      BY <1>1 DEF Left, Entries
    <3>3. meta' \in [Storages -> MetaInfos]
      <4>1. meta[st] \in MetaInfos
        BY <1>1 DEF TypeOK
      <4>2. [meta[st] EXCEPT !.Expired = meta[st].Expired + 1, !.OldestTimestamp = left.key] \in MetaInfos
        <5>1. meta[st].Expired + 1 \in Nat
          BY <4>1 DEF MetaInfos
        <5> QED BY <3>2, <4>1, <5>1 DEF MetaInfos
      <4> QED BY <3>1, <4>2 DEF TypeOK
    <3>4. expirationHeap' \subseteq HeapEntries
      BY <1>1, <3>1, <3>2 DEF TypeOK, HeapEntries
    <3> QED BY <2>2, <2>3, <2>3a, <3>1, <3>3, <3>4 DEF TypeOK
  <2> QED BY <2>4, <2>5
<1> QED BY <1>2, <1>3

\* Every step of truncate keeps the types.
LEMMA TruncateType ==
  ASSUME TypeOK, TruncateStep
  PROVE  TypeOK'
<1>1. BeginTruncate => TypeOK'
  <2> SUFFICES ASSUME BeginTruncate PROVE TypeOK'
    OBVIOUS
  <2>1. PICK quantity \in QuantitiesToPrune(count) :
          IF quantity = 0
          THEN UNCHANGED truncVars
          ELSE /\ truncPc' = "build"
               /\ numberToPrune' = Smaller(quantity, count)
               /\ toVisit' = SourceIds
               /\ expirationHeap' = {}
    BY DEF BeginTruncate
  <2>2. Smaller(quantity, count) \in Int
    BY QuantityType DEF TypeOK, Smaller
  <2> QED BY <2>1, <2>2 DEF BeginTruncate, TypeOK, storeVars, truncVars
<1>2. \A s \in SourceIds : SkipSource(s) => TypeOK'
  BY DEF SkipSource, TypeOK, storeVars
<1>3. \A s \in SourceIds : VisitSource(s) => TypeOK'
  <2> SUFFICES ASSUME NEW s \in SourceIds, VisitSource(s) PROVE TypeOK'
    OBVIOUS
  <2>1. storageIndex[s] \in Storages /\ tree[storageIndex[s]] \in SUBSET Entries
    BY DEF VisitSource, TypeOK
  <2>2. \A left \in Left(tree[storageIndex[s]]) : left.key \in Int
    BY <2>1 DEF Left, Entries
  <2>3. expirationHeap' \subseteq HeapEntries /\ panicked' \in {"no", "BuildExpirationHeap", "truncate", "Meta"}
    BY <2>1, <2>2 DEF VisitSource, TypeOK, HeapEntries
  <2> QED BY <2>3 DEF VisitSource, TypeOK, storeVars
<1>4. EndBuild => TypeOK'
  BY DEF EndBuild, TypeOK, storeVars
<1>5. PruneOne => TypeOK'
  <2> SUFFICES ASSUME PruneOne PROVE TypeOK'
    OBVIOUS
  <2>1. PICK popped \in expirationHeap : RemoveOldestEnvelope(popped)
    BY DEF PruneOne, Oldest
  <2> QED BY <2>1, RemoveType DEF PruneOne, TypeOK
<1>6. PopEmptyHeap => TypeOK'
  BY DEF PopEmptyHeap, TypeOK, storeVars, truncVars
<1>7. EndTruncate => TypeOK'
  <2> SUFFICES ASSUME EndTruncate PROVE TypeOK'
    OBVIOUS
  <2>1. oldestTimestamp' \in Int
    BY StoreAssumption DEF EndTruncate, LastSlot, TypeOK, HeapEntries
  <2> QED BY <2>1 DEF EndTruncate, TypeOK
<1> QED BY <1>1, <1>2, <1>3, <1>4, <1>5, <1>6, <1>7 DEF TruncateStep

\* Every step of Meta keeps the types.
LEMMA MetaType ==
  ASSUME TypeOK, NEW r \in Readers, MetaStep(r)
  PROVE  TypeOK'
<1>1. reader' \in [Readers -> MetaStates]
  <2> DEFINE R == reader[r]
  <2>1. R \in MetaStates /\ IdleReader \in MetaStates
    BY DEF IdleReader, TypeOK, MetaStates
  <2>2. CASE BeginMeta(r)
    <3>1. [R EXCEPT !.pc = "range", !.toVisit = SourceIds] \in MetaStates
      BY <2>1 DEF MetaStates
    <3> QED BY <2>2, <3>1 DEF BeginMeta, TypeOK
  <2>3. CASE \E s \in SourceIds : RangeMeta(r, s)
    <3>1. PICK s \in SourceIds : RangeMeta(r, s)
      BY <2>3
    <3>2. storageIndex[s] \in Storages \cup {Nil}
      BY DEF TypeOK
    <3>3. [R EXCEPT !.toVisit = R.toVisit \ {s},
                    !.pc = IF storageIndex[s] = Nil THEN "range" ELSE "copy",
                    !.sourceId = IF storageIndex[s] = Nil THEN Nil ELSE s,
                    !.storage = storageIndex[s]] \in MetaStates
      BY <2>1, <3>2 DEF MetaStates
    <3> QED BY <3>1, <3>3 DEF RangeMeta, TypeOK
  <2>4. CASE CopyMeta(r)
    <3>1. [R EXCEPT !.pc = "range", !.found = R.found \cup {R.sourceId},
                    !.sourceId = Nil, !.storage = Nil] \in MetaStates
      <4>1. R.found \cup {R.sourceId} \in SUBSET SourceIds
        BY <2>1, <2>4 DEF CopyMeta, MetaAt, TypeOK, MetaStates
      <4> QED BY <2>1, <4>1 DEF MetaStates
    <3> QED BY <2>4, <3>1 DEF CopyMeta, TypeOK
  <2>5. CASE LoadMeta(r)
    <3>1. PICK s \in SourceIds :
            reader' = [reader EXCEPT ![r] =
              [@ EXCEPT !.pc = "count", !.sourceId = s, !.storage = storageIndex[s]]]
      BY <2>1, <2>5 DEF LoadMeta, MetaStates
    <3>2. storageIndex[s] \in Storages \cup {Nil}
      BY DEF TypeOK
    <3>3. [R EXCEPT !.pc = "count", !.sourceId = s, !.storage = storageIndex[s]]
             \in MetaStates
      BY <2>1, <3>2 DEF MetaStates
    <3> QED BY <3>1, <3>3 DEF TypeOK
  <2>6. CASE CountMeta(r)
    <3>1. [R EXCEPT !.pc = "range", !.found = R.found \ {R.sourceId},
                    !.sourceId = Nil, !.storage = Nil] \in MetaStates
      BY <2>1 DEF MetaStates
    <3> QED BY <2>6, <3>1 DEF CountMeta, TypeOK
  <2>7. CASE EndMeta(r)
    BY <2>1, <2>7 DEF EndMeta, TypeOK
  <2> QED BY <2>2, <2>3, <2>4, <2>5, <2>6, <2>7 DEF MetaStep
<1>2. panicked' \in {"no", "BuildExpirationHeap", "truncate", "Meta"}
  BY DEF MetaStep, BeginMeta, RangeMeta, CopyMeta, LoadMeta, CountMeta, EndMeta, TypeOK
<1>3. UNCHANGED <<storeVars, ingress, put, truncVars>>
  BY DEF MetaStep, BeginMeta, RangeMeta, CopyMeta, LoadMeta, CountMeta, EndMeta
<1>4. \A q \in Readers : reader'[q].pc = "copy" => reader'[q].sourceId \in SourceIds
  <2>1. CASE \E s \in SourceIds : RangeMeta(r, s)
    BY <2>1 DEF RangeMeta, TypeOK, MetaStates
  <2> DEFINE R == reader[r]
  <2>2. R \in MetaStates
    BY DEF TypeOK
  <2>3. CASE BeginMeta(r)
    <3>1. [R EXCEPT !.pc = "range", !.toVisit = SourceIds].pc = "range"
      BY <2>2 DEF MetaStates
    <3> QED BY <2>3, <3>1 DEF BeginMeta, TypeOK
  <2>4. CASE CopyMeta(r)
    <3>1. [R EXCEPT !.pc = "range", !.found = R.found \cup {R.sourceId},
                    !.sourceId = Nil, !.storage = Nil].pc = "range"
      BY <2>2 DEF MetaStates
    <3> QED BY <2>4, <3>1 DEF CopyMeta, TypeOK
  <2>5. CASE LoadMeta(r)
    <3>1. \A s : [R EXCEPT !.pc = "count", !.sourceId = s,
                          !.storage = storageIndex[s]].pc = "count"
      BY <2>2 DEF MetaStates
    <3> QED BY <2>5, <3>1 DEF LoadMeta, TypeOK
  <2>6. CASE CountMeta(r)
    <3>1. [R EXCEPT !.pc = "range", !.found = R.found \ {R.sourceId},
                    !.sourceId = Nil, !.storage = Nil].pc = "range"
      BY <2>2 DEF MetaStates
    <3> QED BY <2>6, <3>1 DEF CountMeta, TypeOK
  <2>7. CASE EndMeta(r)
    BY <2>7 DEF EndMeta, IdleReader, TypeOK
  <2> QED BY <2>1, <2>3, <2>4, <2>5, <2>6, <2>7 DEF MetaStep
<1> QED BY <1>1, <1>2, <1>3, <1>4 DEF TypeOK, storeVars, truncVars

-----------------------------------------------------------------------------
(* The structural invariant: who points to which storage *)

\* The heap exists while truncate runs, and until it is complete it has no
\* entry of a source still to be visited.
HeapOfTruncation ==
  /\ truncPc = "sleep" => expirationHeap = {}
  /\ truncPc # "build" => toVisit = {}
  /\ \A x \in expirationHeap : x.sourceId \notin toVisit

TreesFinite == \A st \in Storages : IsFiniteSet(tree[st])

Inv ==
  /\ TypeOK
  /\ LocksHeldByPuts
  /\ StoragesNotShared
  /\ HeapEntriesLive
  /\ HeapOfTruncation
  /\ TreesFinite

\* No Put, no truncation and no storage: nothing to agree.
LEMMA InitInv == Init => Inv
<1> SUFFICES ASSUME Init PROVE Inv
  OBVIOUS
<1>1. LocksHeldByPuts
  BY StoreAssumption DEF Init, LocksHeldByPuts, IdlePut
<1>2. StoragesNotShared
  BY DEF Init, StoragesNotShared, Indexed
<1>3. HeapEntriesLive /\ HeapOfTruncation
  BY DEF Init, HeapEntriesLive, HeapOfTruncation
<1>4. TreesFinite
  BY FS_EmptySet DEF Init, TreesFinite
<1> QED BY <1>1, <1>2, <1>3, <1>4, InitType DEF Inv

\* What insertOrSwap does to the storage it was given.
Inserted(p, st, kept, k, left) ==
  LET ts == put[p].timestamp IN
  /\ put[p].pc = "insert" /\ put[p].storage = st
  /\ lock[st] = Nil /\ lock' = [lock EXCEPT ![st] = p]
  /\ kept \in Kept(tree[st])
  /\ ts \in Int /\ k \in ts .. (ts + maxTimestampFudge)
  /\ IsFudgedKey(kept, ts, k)
  /\ tree' = [tree EXCEPT ![st] = TreePut(kept, k, ts)]
  /\ left \in Left(TreePut(kept, k, ts))
  /\ meta' = [meta EXCEPT ![st] =
       [Expired |-> @.Expired + (IF IsFull(tree[st]) THEN 1 ELSE 0),
        OldestTimestamp |-> left.key,
        NewestTimestamp |-> Larger(ts, @.NewestTimestamp)]]
  /\ put' = [put EXCEPT ![p] = [@ EXCEPT !.pc = "load", !.oldest = left.key]]

\* insertOrSwap in all its branches is an insertion after at most one removal.
LEMMA InsertEffect ==
  ASSUME Inv, NEW p \in Putters, InsertOrSwap(p)
  PROVE  \E st \in Storages, kept \in SUBSET Entries, k \in Int, left \in Entries :
           Inserted(p, st, kept, k, left)
<1> DEFINE st == put[p].storage
           ts == put[p].timestamp
<1>1. put[p].pc = "insert" /\ st \in Storages /\ ts \in Int
  BY DEF Inv, InsertOrSwap, PutAt, LocksHeldByPuts, TypeOK, PutStates
<1>2. PICK kept \in Kept(tree[st]), k \in ts .. (ts + maxTimestampFudge) :
        /\ IsFudgedKey(kept, ts, k)
        /\ tree' = [tree EXCEPT ![st] = TreePut(kept, k, ts)]
        /\ \E left \in Left(TreePut(kept, k, ts)) :
             /\ meta' = [meta EXCEPT ![st] =
                  [Expired |-> @.Expired + (IF IsFull(tree[st]) THEN 1 ELSE 0),
                   OldestTimestamp |-> left.key,
                   NewestTimestamp |-> Larger(ts, @.NewestTimestamp)]]
             /\ put' = [put EXCEPT ![p] = [@ EXCEPT !.pc = "load", !.oldest = left.key]]
  BY DEF InsertOrSwap
<1>3. PICK left \in Left(TreePut(kept, k, ts)) :
        /\ meta' = [meta EXCEPT ![st] =
             [Expired |-> @.Expired + (IF IsFull(tree[st]) THEN 1 ELSE 0),
              OldestTimestamp |-> left.key,
              NewestTimestamp |-> Larger(ts, @.NewestTimestamp)]]
        /\ put' = [put EXCEPT ![p] = [@ EXCEPT !.pc = "load", !.oldest = left.key]]
  BY <1>2
<1>4. k \in Int
  BY <1>1, <1>2, StoreAssumption
<1>5. kept \in SUBSET Entries
  BY <1>1, KeptSubset DEF Inv, TypeOK
<1>6. left \in Entries
  BY <1>1, <1>4, <1>5, TreePutType DEF Left
<1>7. lock[st] = Nil /\ lock' = [lock EXCEPT ![st] = p]
  BY DEF InsertOrSwap
<1>8. Inserted(p, st, kept, k, left)
  BY <1>1, <1>2, <1>3, <1>7 DEF Inserted
<1> QED BY <1>1, <1>4, <1>5, <1>6, <1>8

\* An insertion leaves a finite tree that is not empty.
LEMMA TreePutFinite ==
  ASSUME NEW t, IsFiniteSet(t), NEW kept \in Kept(t), NEW k, NEW ts
  PROVE  IsFiniteSet(TreePut(kept, k, ts)) /\ TreePut(kept, k, ts) # {}
<1>1. IsFiniteSet({e \in kept : e.key # k})
  BY KeptSubset, FS_Subset
<1>2. IsFiniteSet({[key |-> k, timestamp |-> ts]})
  BY FS_Singleton
<1> QED BY <1>1, <1>2, FS_Union DEF TreePut

\* A Put still holds the lock of the storage it has inserted into.
LEMMA InsertKeepsInv ==
  ASSUME Inv, NEW p \in Putters, InsertOrSwap(p), TypeOK'
  PROVE  Inv'
<1>1. PICK st \in Storages, kept \in SUBSET Entries, k \in Int, left \in Entries :
        Inserted(p, st, kept, k, left)
  BY InsertEffect
<1>2. UNCHANGED <<storageIndex, truncVars>>
  BY DEF InsertOrSwap
<1>3. IsFiniteSet(tree'[st]) /\ tree'[st] # {}
  BY <1>1, TreePutFinite DEF Inserted, Inv, TypeOK, TreesFinite
<1>4. \A u \in Storages : u # st => tree'[u] = tree[u]
  BY <1>1 DEF Inserted, Inv, TypeOK
<1>5. LocksHeldByPuts'
  <2>1. put'[p].pc = "load" /\ put'[p].storage = st
    BY <1>1 DEF Inserted, Inv, TypeOK, PutStates
  <2>2. \A q \in Putters : q # p => put'[q] = put[q]
    BY <1>1 DEF Inserted, Inv, TypeOK
  <2>3. \A u \in Storages : lock'[u] = IF u = st THEN p ELSE lock[u]
    BY <1>1 DEF Inserted, Inv, TypeOK
  <2> QED BY <1>1, <2>1, <2>2, <2>3, StoreAssumption DEF Inserted, Inv, LocksHeldByPuts
<1>6. TreesFinite'
  BY <1>3, <1>4 DEF Inv, TreesFinite
<1>7. StoragesNotShared'
  BY <1>2 DEF Inv, StoragesNotShared, Indexed
<1>8. HeapEntriesLive' /\ HeapOfTruncation'
  BY <1>2, <1>3, <1>4 DEF Inv, TypeOK, HeapEntries, HeapEntriesLive, HeapOfTruncation, truncVars
<1> QED BY <1>5, <1>6, <1>7, <1>8 DEF Inv

\* A new storage belongs to one source only, and to no heap entry.
LEMMA PutNewKeepsInv ==
  ASSUME Inv, NEW p \in Putters, NEW s \in SourceIds, NEW ts \in Timestamps,
         PutNew(p, s, ts), TypeOK'
  PROVE  Inv'
<1>1. PICK st \in Storages :
        /\ Unreferenced(st)
        /\ storageIndex' = [storageIndex EXCEPT ![s] = st]
        /\ tree' = [tree EXCEPT ![st] = {}]
        /\ put' = [put EXCEPT ![p] = [pc |-> "insert", storage |-> st,
                                      timestamp |-> ts, oldest |-> 0]]
  BY DEF PutNew, Begin
<1>2. /\ put[p].pc = "idle"
      /\ storageIndex[s] = Nil
      /\ UNCHANGED <<lock, truncVars>>
  BY DEF PutNew, Begin, PutAt
<1>3. LocksHeldByPuts'
  <2>1. \A q \in Putters : put'[q] = IF q = p THEN [pc |-> "insert", storage |-> st,
                                        timestamp |-> ts, oldest |-> 0] ELSE put[q]
    BY <1>1 DEF Inv, TypeOK
  <2>2. \A u \in Storages : lock[u] # p
    BY <1>2 DEF Inv, LocksHeldByPuts
  <2> QED BY <1>2, <2>1, <2>2, StoreAssumption DEF Inv, LocksHeldByPuts
<1>4. TreesFinite'
  BY <1>1, FS_EmptySet DEF Inv, TypeOK, TreesFinite
<1>5. StoragesNotShared'
  BY <1>1, StoreAssumption DEF Inv, TypeOK, StoragesNotShared, Indexed, Unreferenced
<1>6. HeapEntriesLive'
  BY <1>1, <1>2, StoreAssumption
     DEF Inv, TypeOK, HeapEntries, HeapEntriesLive, Unreferenced, truncVars
<1>7. HeapOfTruncation'
  BY <1>2 DEF Inv, HeapOfTruncation, truncVars
<1> QED BY <1>3, <1>4, <1>5, <1>6, <1>7 DEF Inv

\* Every step of a Put keeps the structure.
LEMMA PutKeepsInv ==
  ASSUME Inv, NEW p \in Putters, PutStep(p)
  PROVE  Inv'
<1>1. TypeOK'
  BY PutType DEF Inv
<1>2. ASSUME NEW s \in SourceIds, NEW ts \in Timestamps, PutExisting(p, s, ts)
      PROVE  Inv'
  <2>1. /\ put[p].pc = "idle"
        /\ storageIndex[s] \in Storages
        /\ UNCHANGED <<storeVars, truncVars>>
        /\ put' = [put EXCEPT ![p] = [pc |-> "insert", storage |-> storageIndex[s],
                                      timestamp |-> ts, oldest |-> 0]]
    BY <1>2 DEF PutExisting, Begin, PutAt, Inv, TypeOK
  <2>2. LocksHeldByPuts'
    BY <2>1, StoreAssumption DEF Inv, TypeOK, LocksHeldByPuts, storeVars
  <2> QED BY <1>1, <2>1, <2>2
          DEF Inv, StoragesNotShared, Indexed, HeapEntriesLive, HeapOfTruncation,
              TreesFinite, storeVars, truncVars
<1>3. ASSUME NEW s \in SourceIds, NEW ts \in Timestamps, PutNew(p, s, ts)
      PROVE  Inv'
  BY <1>1, <1>3, PutNewKeepsInv
<1>4. CASE InsertOrSwap(p)
  BY <1>1, <1>4, InsertKeepsInv
<1>5. ASSUME put[p].pc \in {"load", "store"}, Unlock(p)
      PROVE  LocksHeldByPuts'
  BY <1>5, StoreAssumption DEF Unlock, IdlePut, Inv, TypeOK, LocksHeldByPuts, PutStates
<1>6. CASE LoadOldest(p) \/ StoreOldest(p)
  <2>1. UNCHANGED <<storageIndex, tree, truncVars>>
    BY <1>6 DEF LoadOldest, StoreOldest
  <2>2. LocksHeldByPuts'
    <3>1. CASE Unlock(p)
      BY <1>5, <1>6, <3>1 DEF LoadOldest, StoreOldest, PutAt
    <3>2. CASE put[p].pc = "load" /\ put' = [put EXCEPT ![p].pc = "store"] /\ UNCHANGED lock
      <4>1. put'[p].pc = "store" /\ put'[p].storage = put[p].storage
        BY <3>2 DEF Inv, TypeOK, PutStates
      <4>2. \A q \in Putters : q # p => put'[q] = put[q]
        BY <3>2 DEF Inv, TypeOK
      <4> QED BY <3>2, <4>1, <4>2 DEF Inv, LocksHeldByPuts
    <3> QED BY <1>6, <3>1, <3>2 DEF LoadOldest, StoreOldest, PutAt
  <2> QED BY <1>1, <2>1, <2>2
          DEF Inv, StoragesNotShared, Indexed, HeapEntriesLive, HeapOfTruncation,
              TreesFinite, truncVars
<1> QED BY <1>2, <1>3, <1>4, <1>6 DEF PutStep

\* What a turn of truncate's loop does: it takes an oldest envelope from the
\* indexed storage of a source, which has one.
Pruned(popped, oldest) ==
  LET st == popped.tree
      s == popped.sourceId
      rest == expirationHeap \ {popped}
      remaining == tree[st] \ {oldest}
  IN
  /\ popped \in expirationHeap
  /\ st \in Storages /\ s \in SourceIds
  /\ lock[st] = Nil
  /\ storageIndex[s] = st
  /\ oldest \in Left(tree[st])
  /\ count' = count - 1
  /\ expired' = expired + 1
  /\ tree' = [tree EXCEPT ![st] = remaining]
  /\ \/ /\ remaining = {}
        /\ storageIndex' = [storageIndex EXCEPT ![s] = Nil]
        /\ expirationHeap' = rest
        /\ UNCHANGED meta
     \/ \E left \in Left(remaining) :
          /\ meta' = [meta EXCEPT ![st] = [@ EXCEPT !.Expired = meta[st].Expired + 1,
                                                   !.OldestTimestamp = left.key]]
          /\ expirationHeap' = rest \cup
               {[timestamp |-> left.key, sourceId |-> s, tree |-> st]}
          /\ UNCHANGED storageIndex

\* A turn of the loop of truncate takes the oldest entry of a popped source.
LEMMA PruneEffect ==
  ASSUME Inv, PruneOne
  PROVE  \E popped \in expirationHeap, oldest \in Entries : Pruned(popped, oldest)
<1>1. PICK popped \in expirationHeap :
        lock[popped.tree] = Nil /\ RemoveOldestEnvelope(popped)
  BY DEF PruneOne, Oldest
<1> DEFINE st == popped.tree
           s == popped.sourceId
<1>2. st \in Storages /\ s \in SourceIds /\ tree[st] \in SUBSET Entries
  BY DEF Inv, TypeOK, HeapEntries
<1>3. storageIndex[s] = st /\ tree[st] # {}
  BY DEF Inv, HeapEntriesLive
<1>4. count' = count - 1 /\ expired' = expired + 1
  BY <1>1, <1>3 DEF RemoveOldestEnvelope
<1>5. PICK oldest \in Left(tree[st]) :
        /\ tree' = [tree EXCEPT ![st] = tree[st] \ {oldest}]
        /\ IF tree[st] \ {oldest} = {}
           THEN /\ storageIndex' = [storageIndex EXCEPT ![s] = Nil]
                /\ expirationHeap' = expirationHeap \ {popped}
                /\ UNCHANGED meta
           ELSE \E left \in Left(tree[st] \ {oldest}) :
                  /\ meta' = [meta EXCEPT ![st] = [@ EXCEPT !.Expired = meta[st].Expired + 1,
                                                           !.OldestTimestamp = left.key]]
                  /\ expirationHeap' = (expirationHeap \ {popped}) \cup
                       {[timestamp |-> left.key, sourceId |-> s, tree |-> st]}
                  /\ UNCHANGED storageIndex
  BY <1>1, <1>3 DEF RemoveOldestEnvelope
<1>6. oldest \in Entries
  BY <1>2 DEF Left
<1>7. Pruned(popped, oldest)
  BY <1>1, <1>2, <1>3, <1>4, <1>5 DEF Pruned
<1> QED BY <1>6, <1>7

\* A heap entry is pushed back only for a source that still has envelopes.
LEMMA PruneKeepsInv ==
  ASSUME Inv, PruneOne, TypeOK'
  PROVE  Inv'
<1>1. PICK popped \in expirationHeap, oldest \in Entries : Pruned(popped, oldest)
  BY PruneEffect
<1> DEFINE st == popped.tree
           s == popped.sourceId
           remaining == tree[st] \ {oldest}
<1>2. /\ st \in Storages /\ s \in SourceIds /\ storageIndex[s] = st
      /\ tree' = [tree EXCEPT ![st] = remaining]
  BY <1>1 DEF Pruned
<1>3. /\ truncPc = "prune"
      /\ UNCHANGED <<lock, put, truncPc, toVisit>>
  BY DEF PruneOne, TruncateAt
<1>4. \A x \in expirationHeap \ {popped} : x.sourceId # s /\ x.tree # st
  BY <1>2, StoreAssumption
     DEF Inv, TypeOK, HeapEntries, HeapEntriesLive, StoragesNotShared, Indexed
<1>5. \A u \in Storages : tree'[u] = IF u = st THEN remaining ELSE tree[u]
  BY <1>2 DEF Inv, TypeOK
<1>6. TreesFinite'
  <2>1. IsFiniteSet(remaining)
    BY <1>2, FS_Subset DEF Inv, TreesFinite
  <2> QED BY <1>5, <2>1 DEF Inv, TreesFinite
<1>7. LocksHeldByPuts'
  BY <1>3 DEF Inv, LocksHeldByPuts
<1>8. CASE /\ storageIndex' = [storageIndex EXCEPT ![s] = Nil]
           /\ expirationHeap' = expirationHeap \ {popped}
  <2>1. StoragesNotShared'
    BY <1>8 DEF Inv, TypeOK, StoragesNotShared, Indexed
  <2>2. HeapEntriesLive'
    BY <1>4, <1>5, <1>8 DEF Inv, TypeOK, HeapEntries, HeapEntriesLive
  <2>3. HeapOfTruncation'
    BY <1>3, <1>8 DEF Inv, HeapOfTruncation
  <2> QED BY <1>6, <1>7, <2>1, <2>2, <2>3 DEF Inv
<1>9. ASSUME NEW left \in Left(remaining),
             expirationHeap' = (expirationHeap \ {popped}) \cup
               {[timestamp |-> left.key, sourceId |-> s, tree |-> st]},
             UNCHANGED storageIndex
      PROVE  Inv'
  <2>1. StoragesNotShared'
    BY <1>9 DEF Inv, StoragesNotShared, Indexed
  <2>2. remaining # {}
    BY DEF Left
  <2>3. HeapEntriesLive'
    BY <1>2, <1>4, <1>5, <1>9, <2>2 DEF Inv, TypeOK, HeapEntries, HeapEntriesLive
  <2>4. HeapOfTruncation'
    BY <1>3, <1>9 DEF Inv, HeapOfTruncation
  <2> QED BY <1>6, <1>7, <2>1, <2>3, <2>4 DEF Inv
<1> QED BY <1>1, <1>8, <1>9 DEF Pruned

\* Every step of truncate keeps the structure.
LEMMA TruncateKeepsInv ==
  ASSUME Inv, TruncateStep
  PROVE  Inv'
<1>1. TypeOK'
  BY TruncateType DEF Inv
<1>2. CASE PruneOne
  BY <1>1, <1>2, PruneKeepsInv
<1>3. ASSUME UNCHANGED <<storageIndex, tree, lock, put>>, HeapEntriesLive', HeapOfTruncation'
      PROVE  Inv'
  BY <1>1, <1>3 DEF Inv, LocksHeldByPuts, StoragesNotShared, Indexed, TreesFinite
<1>4. CASE BeginTruncate
  <2>1. \/ UNCHANGED truncVars
        \/ truncPc' = "build" /\ expirationHeap' = {}
    BY <1>4 DEF BeginTruncate
  <2>2. HeapEntriesLive' /\ HeapOfTruncation'
    BY <1>4, <2>1 DEF BeginTruncate, Inv, HeapEntriesLive, HeapOfTruncation, storeVars, truncVars
  <2> QED BY <1>3, <1>4, <2>2 DEF BeginTruncate, storeVars
<1>5. ASSUME NEW s \in SourceIds, SkipSource(s) PROVE Inv'
  <2>1. HeapEntriesLive' /\ HeapOfTruncation'
    BY <1>5 DEF SkipSource, TruncateAt, Inv, HeapEntriesLive, HeapOfTruncation, storeVars
  <2> QED BY <1>3, <1>5, <2>1 DEF SkipSource, storeVars
<1>6. ASSUME NEW s \in SourceIds, VisitSource(s) PROVE Inv'
  <2> DEFINE st == storageIndex[s]
  <2>1. /\ truncPc = "build" /\ truncPc' = "build"
        /\ s \in toVisit /\ toVisit' = toVisit \ {s}
        /\ UNCHANGED storeVars
    BY <1>6 DEF VisitSource, TruncateAt
  <2>2. CASE tree[st] = {}
    <3>1. HeapEntriesLive' /\ HeapOfTruncation'
      BY <1>6, <2>1, <2>2 DEF VisitSource, Inv, HeapEntriesLive, HeapOfTruncation, storeVars
    <3> QED BY <1>3, <1>6, <3>1 DEF VisitSource, storeVars
  <2>3. CASE tree[st] # {}
    <3>1. PICK left \in Left(tree[st]) :
            expirationHeap' = expirationHeap \cup
              {[timestamp |-> left.key, sourceId |-> s, tree |-> st]}
      BY <1>6, <2>3 DEF VisitSource
    <3>2. HeapEntriesLive'
      BY <2>1, <2>3, <3>1 DEF Inv, HeapEntriesLive, HeapOfTruncation, storeVars
    <3>3. HeapOfTruncation'
      BY <2>1, <3>1 DEF Inv, HeapOfTruncation
    <3> QED BY <1>3, <1>6, <3>2, <3>3 DEF VisitSource, storeVars
  <2> QED BY <2>2, <2>3
<1>7. CASE EndBuild \/ PopEmptyHeap
  <2>1. HeapEntriesLive' /\ HeapOfTruncation'
    BY <1>7 DEF EndBuild, PopEmptyHeap, TruncateAt, Inv, HeapEntriesLive, HeapOfTruncation,
                storeVars, truncVars
  <2> QED BY <1>3, <1>7, <2>1 DEF EndBuild, PopEmptyHeap, storeVars
<1>8. CASE EndTruncate
  <2>1. HeapEntriesLive' /\ HeapOfTruncation'
    BY <1>8 DEF EndTruncate, TruncateAt, Inv, HeapEntriesLive, HeapOfTruncation
  <2> QED BY <1>3, <1>8, <2>1 DEF EndTruncate
<1> QED BY <1>2, <1>4, <1>5, <1>6, <1>7, <1>8 DEF TruncateStep

\* Meta only reads.
LEMMA MetaKeepsInv ==
  ASSUME Inv, NEW r \in Readers, MetaStep(r)
  PROVE  Inv'
<1>1. TypeOK'
  BY MetaType DEF Inv
<1>2. UNCHANGED <<storeVars, put, truncVars>>
  BY DEF MetaStep, BeginMeta, RangeMeta, CopyMeta, LoadMeta, CountMeta, EndMeta
<1> QED BY <1>1, <1>2
        DEF Inv, LocksHeldByPuts, StoragesNotShared, Indexed, HeapEntriesLive,
            HeapOfTruncation, TreesFinite, storeVars, truncVars

\* Nothing happens, nothing changes.
LEMMA StutterKeepsInv ==
  ASSUME Inv, UNCHANGED vars
  PROVE  Inv'
BY DEF Inv, TypeOK, LocksHeldByPuts, StoragesNotShared, Indexed, HeapEntriesLive,
       HeapOfTruncation, TreesFinite, vars, storeVars, truncVars

\* The structure is inductive.
LEMMA NextKeepsInv == Inv /\ [Next]_vars => Inv'
BY PutKeepsInv, TruncateKeepsInv, MetaKeepsInv, StutterKeepsInv DEF Next, Dead

\* The structural invariant holds of every behaviour of the store.
THEOREM Structure == Spec => []Inv
BY InitInv, NextKeepsInv, PTL DEF Spec

\* Every variable keeps its type whatever Put, Meta and truncate do.
THEOREM TypeCorrect == Spec => []TypeOK
BY Structure, PTL DEF Inv

\* A storage is locked exactly by the one Put that is writing to it.
THEOREM LocksCorrect == Spec => []LocksHeldByPuts
BY Structure, PTL DEF Inv

\* truncate only ever prunes, and unindexes, the storage a source has now.
THEOREM HeapCorrect == Spec => []HeapEntriesLive
BY Structure, PTL DEF Inv

-----------------------------------------------------------------------------
(* store.count and the envelopes stored *)

\* What a reader can find, member by member ...
LEMMA StoredMember ==
  ASSUME NEW x
  PROVE  x \in Stored <=>
           \E s \in Indexed : \E e \in tree[storageIndex[s]] : x = <<s, e>>
BY DEF Stored

\* ... and after a step.
LEMMA StoredMemberPrime ==
  ASSUME NEW x
  PROVE  x \in Stored' <=>
           \E s \in Indexed' : \E e \in tree'[storageIndex'[s]] : x = <<s, e>>
BY DEF Stored

CountInv == IsFiniteSet(Stored) /\ Cardinality(Stored) <= count

\* Adding to a tree adds at most one envelope to the store, and none when
\* the tree is full.
LEMMA InsertKeepsCount ==
  ASSUME Inv, CountInv, NEW p \in Putters, InsertOrSwap(p)
  PROVE  CountInv'
<1>1. PICK st \in Storages, kept \in SUBSET Entries, k \in Int, left \in Entries :
        Inserted(p, st, kept, k, left)
  BY InsertEffect
<1> DEFINE new == [key |-> k, timestamp |-> put[p].timestamp]
<1>2. /\ tree' = [tree EXCEPT ![st] = TreePut(kept, k, put[p].timestamp)]
      /\ kept \in Kept(tree[st])
      /\ put[p].storage = st
      /\ UNCHANGED storageIndex
  BY <1>1 DEF Inserted, InsertOrSwap
<1>3. tree'[st] \subseteq kept \cup {new}
  BY <1>2 DEF TreePut, Inv, TypeOK
<1>4. \A u \in Storages : u # st => tree'[u] = tree[u]
  BY <1>2 DEF Inv, TypeOK
<1>5. Indexed' = Indexed /\ \A s \in Indexed : storageIndex[s] \in Storages
  BY <1>2 DEF Indexed, Inv, TypeOK
<1>6. count' = IF IsFull(tree[st]) THEN count ELSE count + 1
  BY <1>2 DEF InsertOrSwap
<1>7. Cardinality(Stored) \in Nat /\ count \in Int
  BY FS_CardinalityType DEF CountInv, Inv, TypeOK
<1>8. CASE \A s \in Indexed : storageIndex[s] # st
  <2>1. Stored' \subseteq Stored
    BY <1>2, <1>4, <1>5, <1>8, StoredMember, StoredMemberPrime
  <2>2. IsFiniteSet(Stored') /\ Cardinality(Stored') <= Cardinality(Stored)
    BY <2>1, FS_Subset DEF CountInv
  <2>3. Cardinality(Stored') \in Nat
    BY <2>2, FS_CardinalityType
  <2> QED BY <1>6, <1>7, <2>2, <2>3 DEF CountInv
<1>9. ASSUME NEW s \in Indexed, storageIndex[s] = st
      PROVE  CountInv'
  <2>1. \A u \in Indexed : u # s => storageIndex[u] # st
    BY <1>9 DEF Inv, StoragesNotShared
  <2>2. CASE ~IsFull(tree[st])
    <3>1. kept = tree[st]
      BY <1>2, <2>2 DEF Kept
    <3>2. Stored' \subseteq Stored \cup {<<s, new>>}
      BY <1>2, <1>3, <1>4, <1>5, <1>9, <2>1, <3>1, StoredMember, StoredMemberPrime
    <3>3. /\ IsFiniteSet(Stored \cup {<<s, new>>})
          /\ Cardinality(Stored \cup {<<s, new>>}) <= Cardinality(Stored) + 1
      <4>1. IsFiniteSet(Stored)
        BY DEF CountInv
      <4>2. /\ IsFiniteSet(Stored \cup {<<s, new>>})
            /\ Cardinality(Stored \cup {<<s, new>>}) =
                 IF <<s, new>> \in Stored THEN Cardinality(Stored) ELSE Cardinality(Stored) + 1
        BY <4>1, FS_AddElement, Zenon
      <4> QED BY <1>7, <4>2
    <3>4. /\ IsFiniteSet(Stored')
          /\ Cardinality(Stored') <= Cardinality(Stored \cup {<<s, new>>})
      BY <3>2, <3>3, FS_Subset
    <3>5. Cardinality(Stored') \in Nat /\ Cardinality(Stored \cup {<<s, new>>}) \in Nat
      BY <3>3, <3>4, FS_CardinalityType
    <3> QED BY <1>6, <1>7, <2>2, <3>3, <3>4, <3>5 DEF CountInv
  <2>3. CASE IsFull(tree[st])
    <3>1. PICK gone \in tree[st] : kept = tree[st] \ {gone}
      BY <1>2, <2>3 DEF Kept, Left
    <3> DEFINE rest == Stored \ {<<s, gone>>}
    <3>2. Stored' \subseteq rest \cup {<<s, new>>}
      <4> SUFFICES ASSUME NEW x, x \in Stored' PROVE x \in rest \cup {<<s, new>>}
        OBVIOUS
      <4>0. PICK u \in Indexed : \E e \in tree'[storageIndex[u]] : x = <<u, e>>
        BY <1>2, <1>5, StoredMemberPrime
      <4>1. PICK e \in tree'[storageIndex[u]] : x = <<u, e>>
        BY <4>0
      <4>2. CASE u = s
        <5>1. e = new \/ (e \in tree[st] /\ e # gone)
          BY <1>3, <1>9, <3>1, <4>1, <4>2
        <5> QED BY <1>9, <4>1, <4>2, <5>1, StoredMember
      <4>3. CASE u # s
        <5>1. e \in tree[storageIndex[u]]
          BY <1>4, <1>5, <2>1, <4>1, <4>3
        <5>2. x \in Stored
          BY <4>1, <5>1, StoredMember
        <5> QED BY <4>1, <4>3, <5>2
      <4> QED BY <4>2, <4>3
    <3>3. <<s, gone>> \in Stored
      BY <1>9, <3>1, StoredMember
    <3>4. IsFiniteSet(rest) /\ Cardinality(rest) = Cardinality(Stored) - 1
      BY <3>3, FS_RemoveElement DEF CountInv
    <3>5. /\ IsFiniteSet(rest \cup {<<s, new>>})
          /\ Cardinality(rest \cup {<<s, new>>}) <= Cardinality(Stored)
      <4> HIDE DEF rest
      <4>1. /\ IsFiniteSet(rest \cup {<<s, new>>})
            /\ Cardinality(rest \cup {<<s, new>>}) =
                 IF <<s, new>> \in rest THEN Cardinality(rest) ELSE Cardinality(rest) + 1
        BY <3>4, FS_AddElement, Zenon
      <4> QED BY <1>7, <3>4, <4>1
    <3>6. /\ IsFiniteSet(Stored')
          /\ Cardinality(Stored') <= Cardinality(rest \cup {<<s, new>>})
      BY <3>2, <3>5, FS_Subset
    <3>7. Cardinality(Stored') \in Nat /\ Cardinality(rest \cup {<<s, new>>}) \in Nat
      BY <3>5, <3>6, FS_CardinalityType
    <3> QED BY <1>6, <1>7, <2>3, <3>5, <3>6, <3>7 DEF CountInv
  <2> QED BY <2>2, <2>3
<1> QED BY <1>8, <1>9

\* An envelope less is stored, and one less is counted.
LEMMA PruneKeepsCount ==
  ASSUME Inv, CountInv, PruneOne
  PROVE  CountInv'
<1>1. PICK popped \in expirationHeap, oldest \in Entries : Pruned(popped, oldest)
  BY PruneEffect
<1> DEFINE st == popped.tree
           s == popped.sourceId
<1>2. /\ st \in Storages /\ s \in SourceIds /\ storageIndex[s] = st
      /\ oldest \in tree[st]
      /\ tree' = [tree EXCEPT ![st] = tree[st] \ {oldest}]
      /\ count' = count - 1
  BY <1>1 DEF Pruned, Left
<1>3. storageIndex' = storageIndex \/ storageIndex' = [storageIndex EXCEPT ![s] = Nil]
  BY <1>1 DEF Pruned
<1>4. s \in Indexed /\ \A u \in Indexed : u # s => storageIndex[u] # st
  BY <1>2, StoreAssumption DEF Indexed, Inv, StoragesNotShared
<1>5. <<s, oldest>> \in Stored
  BY <1>2, <1>4, StoredMember
<1>6. /\ tree'[st] = tree[st] \ {oldest}
      /\ \A u \in Storages : u # st => tree'[u] = tree[u]
  BY <1>2 DEF Inv, TypeOK
<1>7. \A u \in Indexed' : /\ u \in Indexed
                          /\ storageIndex'[u] = storageIndex[u]
                          /\ storageIndex[u] \in Storages
  BY <1>2, <1>3 DEF Indexed, Inv, TypeOK
<1>8. Stored' \subseteq Stored \ {<<s, oldest>>}
  BY <1>2, <1>4, <1>6, <1>7, StoredMember, StoredMemberPrime
<1>9. /\ IsFiniteSet(Stored \ {<<s, oldest>>})
      /\ Cardinality(Stored \ {<<s, oldest>>}) = Cardinality(Stored) - 1
  BY <1>5, FS_RemoveElement DEF CountInv
<1>10. /\ IsFiniteSet(Stored')
       /\ Cardinality(Stored') <= Cardinality(Stored) - 1
  BY <1>8, <1>9, FS_Subset
<1>11. Cardinality(Stored) \in Nat /\ Cardinality(Stored') \in Nat /\ count \in Int
  BY <1>10, FS_CardinalityType DEF CountInv, Inv, TypeOK
<1> QED BY <1>2, <1>10, <1>11 DEF CountInv

\* A new storage has nothing a reader could find.
LEMMA PutNewKeepsCount ==
  ASSUME Inv, CountInv, NEW p \in Putters, NEW s \in SourceIds, NEW ts \in Timestamps,
         PutNew(p, s, ts)
  PROVE  CountInv'
<1>1. PICK st \in Storages :
        /\ Unreferenced(st)
        /\ storageIndex' = [storageIndex EXCEPT ![s] = st]
        /\ tree' = [tree EXCEPT ![st] = {}]
  BY DEF PutNew, Begin
<1>2. \A u \in SourceIds : storageIndex[u] # st
  BY <1>1 DEF Unreferenced
<1>3. Stored' \subseteq Stored
  BY <1>1, <1>2, StoredMember, StoredMemberPrime DEF Indexed, Inv, TypeOK
<1>4. IsFiniteSet(Stored') /\ Cardinality(Stored') <= Cardinality(Stored)
  BY <1>3, FS_Subset DEF CountInv
<1>5. Cardinality(Stored) \in Nat /\ Cardinality(Stored') \in Nat
  BY <1>4, FS_CardinalityType DEF CountInv
<1>6. count' = count /\ count \in Int
  BY DEF PutNew, Begin, Inv, TypeOK
<1> QED BY <1>4, <1>5, <1>6 DEF CountInv

\* The count covers what is stored.
LEMMA NextKeepsCount == Inv /\ CountInv /\ [Next]_vars => CountInv'
<1> SUFFICES ASSUME Inv, CountInv, [Next]_vars PROVE CountInv'
  OBVIOUS
<1>1. ASSUME UNCHANGED <<storageIndex, tree, count>> PROVE CountInv'
  BY <1>1 DEF CountInv, Stored, Indexed
<1>2. ASSUME NEW p \in Putters, PutStep(p) PROVE CountInv'
  BY <1>1, <1>2, InsertKeepsCount, PutNewKeepsCount
     DEF PutStep, PutExisting, Begin, LoadOldest, StoreOldest, storeVars
<1>3. CASE TruncateStep
  BY <1>1, <1>3, PruneKeepsCount
     DEF TruncateStep, BeginTruncate, SkipSource, VisitSource, EndBuild, PopEmptyHeap,
         EndTruncate, storeVars
<1>4. ASSUME NEW r \in Readers, MetaStep(r) PROVE CountInv'
  BY <1>1, <1>4
     DEF MetaStep, BeginMeta, RangeMeta, CopyMeta, LoadMeta, CountMeta, EndMeta, storeVars
<1>5. CASE UNCHANGED vars
  BY <1>1, <1>5 DEF vars, storeVars
<1> QED BY <1>2, <1>3, <1>4, <1>5 DEF Next, Dead

\* The count truncate reads is never less than what the store holds.
THEOREM CountCorrect == Spec => []CountCoversStored
<1>1. Init => CountInv
  <2> SUFFICES ASSUME Init PROVE CountInv
    OBVIOUS
  <2>1. Stored = {}
    BY DEF Init, Stored, Indexed
  <2> QED BY <2>1, FS_EmptySet DEF Init, CountInv
<1>2. CountInv => CountCoversStored
  BY DEF CountInv, CountCoversStored
<1> QED BY <1>1, <1>2, NextKeepsCount, Structure, PTL DEF Spec

-----------------------------------------------------------------------------
(* The metrics *)

Inserting == PutsIn({"insert"})

\* Finitely many Puts run at a time.
LEMMA InsertingFinite ==
  /\ IsFiniteSet(Inserting) /\ Cardinality(Inserting) \in Nat
<1>1. Inserting \subseteq Putters
  BY DEF Inserting, PutsIn
<1> QED BY <1>1, StoreAssumption, FS_Subset, FS_CardinalityType

\* A Put that begins is counted by ingress and is about to insert.
LEMMA BeginKeepsMetrics ==
  ASSUME Inv, IngressAccounted, NEW p \in Putters,
         put[p].pc = "idle",
         put' = [put EXCEPT ![p] = put'[p]], put'[p].pc = "insert",
         ingress' = ingress + 1, count' = count, expired' = expired
  PROVE  IngressAccounted'
<1>1. Inserting' = Inserting \cup {p} /\ p \notin Inserting
  BY DEF Inserting, PutsIn, Inv, TypeOK
<1>2. Cardinality(Inserting') = Cardinality(Inserting) + 1
  BY <1>1, InsertingFinite, FS_AddElement
<1> QED BY <1>2, InsertingFinite DEF IngressAccounted, Inserting, Inv, TypeOK

\* An inserted envelope is counted, or in the hands of the Put that counts it.
LEMMA InsertKeepsMetrics ==
  ASSUME Inv, IngressAccounted, NEW p \in Putters, InsertOrSwap(p)
  PROVE  IngressAccounted'
<1>1. PICK st \in Storages, kept \in SUBSET Entries, k \in Int, left \in Entries :
        Inserted(p, st, kept, k, left)
  BY InsertEffect
<1>2. put[p].pc = "insert" /\ put'[p].pc = "load"
  BY <1>1 DEF Inserted, Inv, TypeOK, PutStates
<1>3. \A q \in Putters : q # p => put'[q] = put[q]
  BY <1>1 DEF Inserted, Inv, TypeOK
<1>4. Inserting' = Inserting \ {p} /\ p \in Inserting
  BY <1>2, <1>3 DEF Inserting, PutsIn
<1>5. Cardinality(Inserting') = Cardinality(Inserting) - 1
  BY <1>4, InsertingFinite, FS_RemoveElement
<1>6. /\ ingress' = ingress
      /\ \/ count' = count /\ expired' = expired + 1
         \/ count' = count + 1 /\ expired' = expired
  BY DEF InsertOrSwap
<1> QED BY <1>5, <1>6, InsertingFinite DEF IngressAccounted, Inserting, Inv, TypeOK

\* The counters account for every envelope.
LEMMA NextKeepsMetrics == Inv /\ IngressAccounted /\ [Next]_vars => IngressAccounted'
<1> SUFFICES ASSUME Inv, IngressAccounted, [Next]_vars PROVE IngressAccounted'
  OBVIOUS
<1>1. ASSUME UNCHANGED <<ingress, count, expired, put>> PROVE IngressAccounted'
  BY <1>1 DEF IngressAccounted, PutsIn
<1>2. ASSUME NEW p \in Putters, NEW s \in SourceIds, NEW ts \in Timestamps,
             PutExisting(p, s, ts) \/ PutNew(p, s, ts)
      PROVE  IngressAccounted'
  <2>1. PICK st \in Storages : put' = [put EXCEPT ![p] =
          [pc |-> "insert", storage |-> st, timestamp |-> ts, oldest |-> 0]]
    BY <1>2 DEF PutExisting, PutNew, Begin, Inv, TypeOK
  <2>2. put' = [put EXCEPT ![p] = put'[p]] /\ put'[p].pc = "insert"
    BY <2>1 DEF Inv, TypeOK
  <2>3. put[p].pc = "idle" /\ ingress' = ingress + 1 /\ count' = count /\ expired' = expired
    BY <1>2 DEF PutExisting, PutNew, Begin, PutAt, storeVars
  <2> QED BY <2>2, <2>3, BeginKeepsMetrics
<1>3. ASSUME NEW p \in Putters, InsertOrSwap(p) PROVE IngressAccounted'
  BY <1>3, InsertKeepsMetrics
<1>4. ASSUME NEW p \in Putters, LoadOldest(p) \/ StoreOldest(p)
      PROVE  IngressAccounted'
  <2>1. /\ put[p].pc # "insert" /\ put'[p].pc # "insert"
        /\ \A q \in Putters : q # p => put'[q] = put[q]
    BY <1>4 DEF LoadOldest, StoreOldest, Unlock, IdlePut, PutAt, Inv, TypeOK, PutStates
  <2>2. PutsIn({"insert"})' = PutsIn({"insert"})
    BY <2>1 DEF PutsIn
  <2> QED BY <1>4, <2>2 DEF LoadOldest, StoreOldest, IngressAccounted
<1>5. CASE PruneOne
  <2>1. count' = count - 1 /\ expired' = expired + 1
    BY <1>5, PruneEffect DEF Pruned
  <2>2. ingress' = ingress /\ put' = put
    BY <1>5 DEF PruneOne
  <2>3. PutsIn({"insert"})' = PutsIn({"insert"})
    BY <2>2 DEF PutsIn
  <2> QED BY <2>1, <2>2, <2>3, InsertingFinite DEF IngressAccounted, Inserting, Inv, TypeOK
<1>6. CASE TruncateStep
  BY <1>1, <1>5, <1>6
     DEF TruncateStep, BeginTruncate, SkipSource, VisitSource, EndBuild, PopEmptyHeap,
         EndTruncate, storeVars
<1>7. ASSUME NEW r \in Readers, MetaStep(r) PROVE IngressAccounted'
  BY <1>1, <1>7
     DEF MetaStep, BeginMeta, RangeMeta, CopyMeta, LoadMeta, CountMeta, EndMeta, storeVars
<1>8. CASE UNCHANGED vars
  BY <1>1, <1>8 DEF vars, storeVars
<1> QED BY <1>2, <1>3, <1>4, <1>6, <1>7, <1>8 DEF Next, Dead, PutStep

\* Every envelope counted in is counted as stored, as expired, or is on its
\* way in.
THEOREM MetricsCorrect == Spec => []IngressAccounted
<1>1. Init => IngressAccounted
  <2> SUFFICES ASSUME Init PROVE IngressAccounted
    OBVIOUS
  <2>1. PutsIn({"insert"}) = {}
    BY DEF Init, PutsIn, IdlePut
  <2> QED BY <2>1, FS_EmptySet DEF Init, IngressAccounted
<1> QED BY <1>1, NextKeepsMetrics, Structure, PTL DEF Spec

-----------------------------------------------------------------------------
(* MetaInfo *)

\* Metadata is written under the lock that covers the tree.
LEMMA NextKeepsMeta == Inv /\ MetaDescribesTree /\ [Next]_vars => MetaDescribesTree'
<1> SUFFICES ASSUME Inv, MetaDescribesTree, [Next]_vars PROVE MetaDescribesTree'
  OBVIOUS
<1>1. ASSUME UNCHANGED <<tree, meta>> PROVE MetaDescribesTree'
  BY <1>1 DEF MetaDescribesTree, Left
<1>2. ASSUME NEW p \in Putters, InsertOrSwap(p) PROVE MetaDescribesTree'
  <2>1. PICK st \in Storages, kept \in SUBSET Entries, k \in Int, left \in Entries :
          Inserted(p, st, kept, k, left)
    BY <1>2, InsertEffect
  <2> DEFINE ts == put[p].timestamp
             new == TreePut(kept, k, ts)
  <2>2. /\ tree'[st] = new /\ left \in Left(new) /\ ts \in Int
        /\ meta'[st].OldestTimestamp = left.key
        /\ meta'[st].NewestTimestamp = Larger(ts, meta[st].NewestTimestamp)
        /\ \A u \in Storages : u # st => tree'[u] = tree[u] /\ meta'[u] = meta[u]
    BY <2>1 DEF Inserted, Inv, TypeOK
  <2>3. \A e \in new : e \in tree[st] \/ e.timestamp = ts
    BY <2>1, KeptSubset DEF Inserted, TreePut
  <2>4. \A e \in Left(new) : e.key = left.key
    <3>1. new \subseteq Entries
      BY <2>1, <2>2, TreePutType
    <3> QED BY <2>2, <3>1 DEF Left, Entries
  <2>5. \A e \in new : e.timestamp <= Larger(ts, meta[st].NewestTimestamp)
    <3>1. meta[st].NewestTimestamp \in Int
      BY DEF Inv, TypeOK, MetaInfos
    <3>2. \A e \in tree[st] : e.timestamp \in Int /\ e.timestamp <= meta[st].NewestTimestamp
      BY DEF MetaDescribesTree, Inv, TypeOK, Entries
    <3> QED BY <2>2, <2>3, <3>1, <3>2 DEF Larger
  <2> QED BY <2>2, <2>4, <2>5 DEF MetaDescribesTree, Left
<1>3. ASSUME NEW p \in Putters, NEW s \in SourceIds, NEW ts \in Timestamps, PutNew(p, s, ts)
      PROVE  MetaDescribesTree'
  BY <1>3 DEF PutNew, Begin, MetaDescribesTree, Left, Inv, TypeOK
<1>4. CASE PruneOne
  <2>1. PICK popped \in expirationHeap, oldest \in Entries : Pruned(popped, oldest)
    BY <1>4, PruneEffect
  <2> DEFINE st == popped.tree
             remaining == tree[st] \ {oldest}
  <2>2. /\ st \in Storages
        /\ tree'[st] = remaining
        /\ \A u \in Storages : u # st => tree'[u] = tree[u]
    BY <2>1 DEF Pruned, Inv, TypeOK
  <2>3. CASE remaining = {} /\ UNCHANGED meta
    BY <2>2, <2>3 DEF MetaDescribesTree, Left
  <2>4. ASSUME NEW left \in Left(remaining),
               meta' = [meta EXCEPT ![st] = [@ EXCEPT !.Expired = meta[st].Expired + 1,
                                                     !.OldestTimestamp = left.key]]
        PROVE  MetaDescribesTree'
    <3>1. /\ meta'[st].OldestTimestamp = left.key
          /\ meta'[st].NewestTimestamp = meta[st].NewestTimestamp
          /\ \A u \in Storages : u # st => meta'[u] = meta[u]
      BY <2>2, <2>4 DEF Inv, TypeOK, MetaInfos
    <3>2. \A e \in Left(remaining) : e.key = left.key
      BY <2>2 DEF Left, Entries, Inv, TypeOK
    <3> QED BY <2>2, <3>1, <3>2 DEF MetaDescribesTree, Left
  <2> QED BY <2>1, <2>3, <2>4 DEF Pruned
<1>5. CASE TruncateStep
  BY <1>1, <1>4, <1>5
     DEF TruncateStep, BeginTruncate, SkipSource, VisitSource, EndBuild, PopEmptyHeap,
         EndTruncate, storeVars
<1>6. ASSUME NEW p \in Putters, PutStep(p) PROVE MetaDescribesTree'
  BY <1>1, <1>2, <1>3, <1>6 DEF PutStep, PutExisting, Begin, LoadOldest, StoreOldest, storeVars
<1>7. ASSUME NEW r \in Readers, MetaStep(r) PROVE MetaDescribesTree'
  BY <1>1, <1>7
     DEF MetaStep, BeginMeta, RangeMeta, CopyMeta, LoadMeta, CountMeta, EndMeta, storeVars
<1>8. CASE UNCHANGED vars
  BY <1>1, <1>8 DEF vars, storeVars
<1> QED BY <1>5, <1>6, <1>7, <1>8 DEF Next, Dead

\* What Meta copies of a storage agrees with its envelopes.
THEOREM MetaCorrect == Spec => []MetaDescribesTree
<1>1. Init => MetaDescribesTree
  BY DEF Init, MetaDescribesTree, Left
<1> QED BY <1>1, NextKeepsMeta, Structure, PTL DEF Spec

-----------------------------------------------------------------------------
(* The bound of a source *)

NoneOverfull == \A st \in Storages : Cardinality(tree[st]) <= maxPerSource

\* At the bound an envelope goes before the new one is added.
LEMMA InsertKeepsBound ==
  ASSUME Inv, NoneOverfull, NEW p \in Putters, InsertOrSwap(p)
  PROVE  NoneOverfull'
<1>1. PICK st \in Storages, kept \in SUBSET Entries, k \in Int, left \in Entries :
        Inserted(p, st, kept, k, left)
  BY InsertEffect
<1> DEFINE new == [key |-> k, timestamp |-> put[p].timestamp]
<1>2. /\ tree' = [tree EXCEPT ![st] = TreePut(kept, k, put[p].timestamp)]
      /\ kept \in Kept(tree[st])
  BY <1>1 DEF Inserted
<1>3. tree \in [Storages -> SUBSET Entries] /\ IsFiniteSet(tree[st])
  BY DEF Inv, TypeOK, TreesFinite
<1>4. Cardinality(tree[st]) \in Nat /\ maxPerSource \in Nat
  BY <1>3, FS_CardinalityType, StoreAssumption
<1>5. IsFiniteSet(kept) /\ Cardinality(kept) < maxPerSource
  <2>1. CASE ~IsFull(tree[st])
    BY <1>2, <1>3, <1>4, <2>1 DEF Kept, IsFull
  <2>2. CASE IsFull(tree[st])
    <3>1. PICK e \in tree[st] : kept = tree[st] \ {e}
      BY <1>2, <2>2 DEF Kept, Left
    <3>2. IsFiniteSet(kept) /\ Cardinality(kept) = Cardinality(tree[st]) - 1
      BY <1>3, <3>1, FS_RemoveElement
    <3>3. Cardinality(tree[st]) <= maxPerSource
      BY DEF NoneOverfull
    <3> QED BY <1>4, <3>2, <3>3
  <2> QED BY <2>1, <2>2
<1>6. /\ IsFiniteSet(kept \cup {new}) /\ Cardinality(kept) \in Nat
      /\ \/ Cardinality(kept \cup {new}) = Cardinality(kept)
         \/ Cardinality(kept \cup {new}) = Cardinality(kept) + 1
  <2> HIDE DEF new
  <2> QED BY <1>5, FS_AddElement, FS_CardinalityType
<1>7. tree'[st] \subseteq kept \cup {new}
  BY <1>2, <1>3 DEF TreePut
<1>8. Cardinality(tree'[st]) <= Cardinality(kept \cup {new}) /\ Cardinality(tree'[st]) \in Nat
  <2> HIDE DEF new
  <2> QED BY <1>6, <1>7, FS_Subset, FS_CardinalityType
<1>9. Cardinality(tree'[st]) <= maxPerSource
  <2> HIDE DEF new
  <2> QED BY <1>4, <1>5, <1>6, <1>8
<1>10. \A u \in Storages : u # st => tree'[u] = tree[u]
  BY <1>2, <1>3
<1> QED BY <1>9, <1>10 DEF NoneOverfull

\* Nothing but an insertion makes a tree larger.
LEMMA NextKeepsBound == Inv /\ NoneOverfull /\ [Next]_vars => NoneOverfull'
<1> SUFFICES ASSUME Inv, NoneOverfull, [Next]_vars PROVE NoneOverfull'
  OBVIOUS
<1>t. tree \in [Storages -> SUBSET Entries] /\ maxPerSource \in Nat
  BY StoreAssumption DEF Inv, TypeOK
<1>u. ASSUME tree' = tree PROVE NoneOverfull'
  BY <1>u DEF NoneOverfull
<1>1. ASSUME NEW p \in Putters, NEW s \in SourceIds, NEW ts \in Timestamps, PutNew(p, s, ts)
      PROVE  NoneOverfull'
  BY <1>t, <1>1, FS_EmptySet DEF PutNew, NoneOverfull
<1>2. ASSUME NEW p \in Putters, PutStep(p) PROVE NoneOverfull'
  BY <1>1, <1>2, <1>u, InsertKeepsBound
     DEF PutStep, PutExisting, LoadOldest, StoreOldest, storeVars
<1>3. CASE PruneOne
  <2>1. PICK popped \in expirationHeap, oldest \in Entries : Pruned(popped, oldest)
    BY <1>3, PruneEffect
  <2>2. /\ tree' = [tree EXCEPT ![popped.tree] = tree[popped.tree] \ {oldest}]
        /\ popped.tree \in Storages
    BY <2>1 DEF Pruned
  <2>3. ASSUME NEW st \in Storages PROVE Cardinality(tree'[st]) <= maxPerSource
    <3>1. tree'[st] \subseteq tree[st] /\ IsFiniteSet(tree[st])
      BY <1>t, <2>2 DEF Inv, TreesFinite
    <3>2. /\ Cardinality(tree'[st]) <= Cardinality(tree[st])
          /\ Cardinality(tree'[st]) \in Nat /\ Cardinality(tree[st]) \in Nat
      BY <3>1, FS_Subset, FS_CardinalityType
    <3> QED BY <1>t, <3>2 DEF NoneOverfull
  <2> QED BY <2>3 DEF NoneOverfull
<1>4. CASE TruncateStep
  BY <1>3, <1>4, <1>u
     DEF TruncateStep, BeginTruncate, SkipSource, VisitSource, EndBuild, PopEmptyHeap,
         EndTruncate, storeVars
<1>5. ASSUME NEW r \in Readers, MetaStep(r) PROVE NoneOverfull'
  BY <1>5, <1>u
     DEF MetaStep, BeginMeta, RangeMeta, CopyMeta, LoadMeta, CountMeta, EndMeta, storeVars
<1>6. CASE UNCHANGED vars
  BY <1>6, <1>u DEF vars, storeVars
<1> QED BY <1>2, <1>4, <1>5, <1>6 DEF Next, Dead

\* A source never has more than maxPerSource envelopes (store.go, NewStore): the
\* test of the size, the removal and the insertion are under the storage's lock.
THEOREM SourcesBounded == Spec => []NoneOverfull
<1>1. Init => NoneOverfull
  BY FS_EmptySet, StoreAssumption DEF Init, NoneOverfull
<1> QED BY <1>1, NextKeepsBound, Structure, PTL DEF Spec

-----------------------------------------------------------------------------
(* The oldest envelope first *)

\* Unless a Put has changed it since, a storage that truncate has visited and that
\* has envelopes is on the heap, under the key of its oldest.
HeapCovers ==
  truncPc # "sleep" =>
    \A s \in Indexed \ toVisit :
      tree[storageIndex[s]] # {} /\ storageIndex[s] \notin touched =>
        \E x \in expirationHeap :
          /\ x.sourceId = s
          /\ \E e \in Left(tree[storageIndex[s]]) : x.timestamp = e.key

\* Of each step that may change a storage, what it does to the heap's knowledge of it.
LEMMA NextCovers == Inv /\ HeapCovers /\ [MCNext]_<<vars, touched>> => HeapCovers'
<1> SUFFICES ASSUME Inv, HeapCovers, [MCNext]_<<vars, touched>>, truncPc' # "sleep",
                    NEW s \in SourceIds, storageIndex'[s] # Nil, s \notin toVisit',
                    tree'[storageIndex'[s]] # {}, storageIndex'[s] \notin touched'
             PROVE  \E x \in expirationHeap' :
                      /\ x.sourceId = s
                      /\ \E e \in Left(tree'[storageIndex'[s]]) : x.timestamp = e.key
  BY DEF HeapCovers, Indexed, Left
<1> DEFINE Goal == \E x \in expirationHeap' :
                     /\ x.sourceId = s
                     /\ \E e \in Left(tree'[storageIndex'[s]]) : x.timestamp = e.key
<1>i. /\ storageIndex \in [SourceIds -> Storages \cup {Nil}]
      /\ tree \in [Storages -> SUBSET Entries] /\ numberToPrune \in Int
      /\ storageIndex' \in [SourceIds -> Storages \cup {Nil}]
  <2>1. Inv'
    BY NextKeepsInv DEF MCNext, vars
  <2> QED BY <2>1 DEF Inv, TypeOK
\* The storage is as it was.
<1>a. ASSUME truncPc # "sleep", storageIndex'[s] = storageIndex[s],
             tree'[storageIndex[s]] = tree[storageIndex[s]], s \notin toVisit,
             expirationHeap \subseteq expirationHeap', storageIndex[s] \notin touched
      PROVE  Goal
  <2>1. PICK x \in expirationHeap :
          /\ x.sourceId = s
          /\ \E e \in Left(tree[storageIndex[s]]) : x.timestamp = e.key
    BY <1>a DEF HeapCovers, Indexed
  <2> QED BY <1>a, <2>1
<1>t. ASSUME truncPc # "sleep", numberToPrune' = numberToPrune
      PROVE  /\ storageIndex[s] = storageIndex'[s] => storageIndex[s] \notin touched
             /\ MCNext => storageIndex'[s] \notin Changed \cap Visited
  BY <1>i, <1>t DEF MCNext
<1>b. ASSUME truncPc # "sleep", UNCHANGED <<storageIndex, tree, numberToPrune>>,
             s \notin toVisit, expirationHeap \subseteq expirationHeap'
      PROVE  Goal
  BY <1>a, <1>b, <1>t
<1>c. ASSUME UNCHANGED <<storageIndex, tree, truncVars>>
      PROVE  Goal
  <2>1. /\ truncPc # "sleep" /\ UNCHANGED <<storageIndex, tree, numberToPrune>>
        /\ s \notin toVisit /\ expirationHeap \subseteq expirationHeap'
    BY <1>c DEF truncVars
  <2> HIDE DEF Goal
  <2> QED BY <1>b, <2>1
<1>1. ASSUME NEW p \in Putters, NEW q \in SourceIds, NEW ts \in Timestamps, PutNew(p, q, ts)
      PROVE  Goal
  <2>1. PICK st \in Storages :
          /\ Unreferenced(st)
          /\ storageIndex' = [storageIndex EXCEPT ![q] = st]
          /\ tree' = [tree EXCEPT ![st] = {}]
    BY <1>1 DEF PutNew
  <2>2. /\ truncPc # "sleep" /\ numberToPrune' = numberToPrune
        /\ s \notin toVisit /\ expirationHeap' = expirationHeap
    BY <1>1 DEF PutNew, truncVars
  <2>3. s # q
    BY <1>i, <2>1
  <2>4. storageIndex'[s] = storageIndex[s] /\ storageIndex[s] # st /\ storageIndex[s] \in Storages
    BY <1>i, <2>1, <2>3 DEF Unreferenced
  <2>5. tree'[storageIndex[s]] = tree[storageIndex[s]]
    BY <1>i, <2>1, <2>4
  <2> HIDE DEF Goal
  <2> QED BY <1>a, <1>t, <2>2, <2>4, <2>5
<1>2. ASSUME NEW p \in Putters, InsertOrSwap(p), MCNext
      PROVE  Goal
  <2>1. /\ truncPc # "sleep" /\ UNCHANGED <<storageIndex, numberToPrune>>
        /\ s \notin toVisit /\ expirationHeap' = expirationHeap
    BY <1>2 DEF InsertOrSwap, truncVars
  <2>2. storageIndex[s] \in Storages /\ storageIndex[s] \in Visited
    BY <1>i, <2>1 DEF Visited
  <2>3. tree'[storageIndex[s]] = tree[storageIndex[s]]
    BY <1>2, <1>t, <2>1, <2>2 DEF Changed
  <2> HIDE DEF Goal
  <2> QED BY <1>a, <1>t, <2>1, <2>3
<1>3. ASSUME NEW p \in Putters, PutStep(p), MCNext
      PROVE  Goal
  <2>1. ASSUME NEW q \in SourceIds, NEW ts \in Timestamps, PutExisting(p, q, ts)
        PROVE  UNCHANGED <<storageIndex, tree, truncVars>>
    BY <2>1 DEF PutExisting, storeVars
  <2>2. ASSUME LoadOldest(p) \/ StoreOldest(p)
        PROVE  UNCHANGED <<storageIndex, tree, truncVars>>
    BY <2>2 DEF LoadOldest, StoreOldest
  <2> HIDE DEF Goal
  <2> QED BY <1>1, <1>2, <1>3, <1>c, <2>1, <2>2 DEF PutStep
<1>4. CASE BeginTruncate
  BY <1>4 DEF BeginTruncate, TruncateAt, truncVars
<1>5. ASSUME NEW q \in SourceIds, SkipSource(q)
      PROVE  Goal
  <2>1. /\ truncPc # "sleep" /\ UNCHANGED <<storageIndex, tree, numberToPrune>>
        /\ expirationHeap' = expirationHeap
        /\ storageIndex[q] = Nil /\ toVisit' = toVisit \ {q}
    BY <1>5 DEF SkipSource, TruncateAt, storeVars
  <2>2. s \notin toVisit
    BY <2>1
  <2> HIDE DEF Goal
  <2> QED BY <1>b, <2>1, <2>2
<1>6. ASSUME NEW q \in SourceIds, VisitSource(q)
      PROVE  Goal
  <2>1. /\ truncPc # "sleep" /\ UNCHANGED <<storageIndex, tree, numberToPrune>>
        /\ expirationHeap \subseteq expirationHeap' /\ toVisit' = toVisit \ {q}
    BY <1>6 DEF VisitSource, TruncateAt, storeVars
  <2>2. CASE s = q
    <3>1. PICK left \in Left(tree[storageIndex[q]]) :
            expirationHeap' = expirationHeap \cup
              {[timestamp |-> left.key, sourceId |-> q, tree |-> storageIndex[q]]}
      BY <1>6, <2>1, <2>2 DEF VisitSource
    <3> DEFINE y == [timestamp |-> left.key, sourceId |-> q, tree |-> storageIndex[q]]
    <3>a. y \in expirationHeap' /\ y.sourceId = s /\ y.timestamp = left.key
      BY <2>2, <3>1
    <3> HIDE DEF y
    <3>2. PICK x \in expirationHeap' : x.sourceId = s /\ x.timestamp = left.key
      BY <3>a
    <3>3. left \in Left(tree'[storageIndex'[s]])
      BY <2>1, <2>2
    <3> QED BY <3>2, <3>3
  <2>3. CASE s # q
    <3>1. s \notin toVisit
      BY <2>1, <2>3
    <3> HIDE DEF Goal
    <3> QED BY <1>b, <2>1, <3>1
  <2> QED BY <2>2, <2>3
<1>7. ASSUME EndBuild \/ PopEmptyHeap
      PROVE  Goal
  <2>1. /\ truncPc # "sleep" /\ UNCHANGED <<storageIndex, tree, numberToPrune>>
        /\ s \notin toVisit /\ expirationHeap' = expirationHeap
    BY <1>7 DEF EndBuild, PopEmptyHeap, TruncateAt, storeVars, truncVars
  <2> HIDE DEF Goal
  <2> QED BY <1>b, <2>1
<1>8. ASSUME PruneOne, MCNext
      PROVE  Goal
  <2>1. PICK popped \in expirationHeap, oldest \in Entries : Pruned(popped, oldest)
    BY <1>8, PruneEffect
  <2> DEFINE st == popped.tree
             remaining == tree[st] \ {oldest}
  <2>2. /\ st \in Storages /\ popped.sourceId \in SourceIds
        /\ storageIndex[popped.sourceId] = st
        /\ tree' = [tree EXCEPT ![st] = remaining]
    BY <2>1 DEF Pruned
  <2>3. truncPc # "sleep" /\ s \notin toVisit /\ touched' = touched \ Changed
    BY <1>8, <1>i DEF PruneOne, TruncateAt, MCNext
  <2>4. CASE s = popped.sourceId
    <3>1. PICK left \in Left(remaining) :
            /\ expirationHeap' = (expirationHeap \ {popped}) \cup
                 {[timestamp |-> left.key, sourceId |-> s, tree |-> st]}
            /\ storageIndex' = storageIndex
      BY <1>i, <2>1, <2>4 DEF Pruned
    <3>2. tree'[storageIndex'[s]] = remaining
      BY <1>i, <2>2, <2>4, <3>1
    <3> DEFINE y == [timestamp |-> left.key, sourceId |-> s, tree |-> st]
    <3>a. y \in expirationHeap' /\ y.sourceId = s /\ y.timestamp = left.key
      BY <3>1
    <3> HIDE DEF y
    <3>3. PICK x \in expirationHeap' : x.sourceId = s /\ x.timestamp = left.key
      BY <3>a
    <3>4. left \in Left(tree'[storageIndex'[s]])
      <4> HIDE DEF remaining
      <4> QED BY <3>2
    <3> QED BY <3>3, <3>4
  <2>5. CASE s # popped.sourceId
    <3>1. storageIndex'[s] = storageIndex[s] /\ storageIndex[s] \in Storages
      BY <1>i, <2>1, <2>5 DEF Pruned
    <3>2. storageIndex[s] # st
      BY <2>2, <2>5, <3>1, StoreAssumption DEF Inv, StoragesNotShared, Indexed
    <3>3. tree'[storageIndex[s]] = tree[storageIndex[s]]
      BY <1>i, <2>2, <3>1, <3>2
    <3>4. storageIndex[s] \notin touched
      BY <2>3, <3>1, <3>3 DEF Changed
    <3>5. PICK x \in expirationHeap :
            /\ x.sourceId = s
            /\ \E e \in Left(tree[storageIndex[s]]) : x.timestamp = e.key
      BY <1>i, <2>3, <3>1, <3>3, <3>4 DEF HeapCovers, Indexed
    <3>6. x \in expirationHeap'
      BY <2>1, <2>5, <3>5 DEF Pruned
    <3> QED BY <3>1, <3>3, <3>5, <3>6
  <2> QED BY <2>4, <2>5
<1>9. CASE EndTruncate
  BY <1>9 DEF EndTruncate
<1>10. ASSUME NEW r \in Readers, MetaStep(r)
       PROVE  UNCHANGED <<storageIndex, tree, truncVars>>
  BY <1>10
     DEF MetaStep, BeginMeta, RangeMeta, CopyMeta, LoadMeta, CountMeta, EndMeta, storeVars
<1>11. ASSUME UNCHANGED vars
       PROVE  UNCHANGED <<storageIndex, tree, truncVars>>
  BY <1>11 DEF vars, storeVars, truncVars
<1>12. ASSUME TruncateStep, MCNext
       PROVE  Goal
  <2> HIDE DEF Goal
  <2> QED BY <1>4, <1>5, <1>6, <1>7, <1>8, <1>9, <1>12 DEF TruncateStep, Goal
<1> HIDE DEF Goal
<1>13. Goal
  BY <1>3, <1>10, <1>11, <1>12, <1>c DEF MCNext, Next, Dead
<1> QED BY <1>13 DEF Goal

\* A popped entry is the least of the heap, and so is the key it stands for.
LEMMA PrunesOldest ==
  ASSUME Inv, HeapCovers, MCNext, numberToPrune' < numberToPrune,
         NEW s \in Indexed, NEW u \in Indexed,
         storageIndex[s] \in Changed, storageIndex[s] \notin touched,
         storageIndex[u] \notin touched,
         NEW e \in Left(tree[storageIndex[s]]), NEW f \in tree[storageIndex[u]]
  PROVE  e.key <= f.key
<1>i. /\ storageIndex \in [SourceIds -> Storages \cup {Nil}]
      /\ tree \in [Storages -> SUBSET Entries] /\ numberToPrune \in Int
      /\ storageIndex[s] \in Storages /\ storageIndex[u] \in Storages
      /\ s \in SourceIds /\ u \in SourceIds
      /\ \A x \in expirationHeap : x.timestamp \in Int
  BY DEF Inv, TypeOK, Indexed, HeapEntries
<1>k. \A st \in Storages : \A g \in tree[st] : g.key \in Int
  BY <1>i DEF Entries
<1>1. PruneOne
  <2>1. tree' # tree
    BY <1>i DEF Changed
  <2>2. ASSUME NEW p \in Putters, PutStep(p)
        PROVE  numberToPrune' = numberToPrune
    BY <2>2 DEF PutStep, PutExisting, PutNew, InsertOrSwap, LoadOldest, StoreOldest, truncVars
  <2>3. ASSUME TruncateStep, ~PruneOne
        PROVE  tree' = tree
    BY <2>3
       DEF TruncateStep, BeginTruncate, SkipSource, VisitSource, EndBuild, PopEmptyHeap,
           EndTruncate, storeVars
  <2>4. ASSUME NEW r \in Readers, MetaStep(r)
        PROVE  tree' = tree
    BY <2>4
       DEF MetaStep, BeginMeta, RangeMeta, CopyMeta, LoadMeta, CountMeta, EndMeta, storeVars
  <2>5. UNCHANGED vars => tree' = tree
    BY DEF vars, storeVars
  <2> QED BY <1>i, <2>1, <2>2, <2>3, <2>4, <2>5 DEF MCNext, Next, Dead
<1>2. PICK popped \in Oldest(expirationHeap) : RemoveOldestEnvelope(popped)
  BY <1>1 DEF PruneOne
<1>3. popped \in expirationHeap /\ \A y \in expirationHeap : popped.timestamp <= y.timestamp
  BY <1>2 DEF Oldest
<1>4. popped.tree = storageIndex[s] /\ popped.sourceId = s
  <2>1. /\ popped.tree \in Storages /\ popped.sourceId \in SourceIds
        /\ storageIndex[popped.sourceId] = popped.tree
    BY <1>3 DEF Inv, TypeOK, HeapEntries, HeapEntriesLive
  <2>2. \A st \in Storages : st # popped.tree => tree'[st] = tree[st]
    BY <1>2, <1>i, <2>1 DEF RemoveOldestEnvelope
  <2>3. popped.tree = storageIndex[s]
    BY <1>i, <2>2 DEF Changed
  <2> QED BY <1>i, <2>1, <2>3, StoreAssumption DEF Inv, StoragesNotShared, Indexed
<1>5. truncPc # "sleep" /\ toVisit = {}
  BY <1>1 DEF PruneOne, TruncateAt, Inv, HeapOfTruncation
<1>6. PICK x \in expirationHeap :
        x.sourceId = s /\ \E g \in Left(tree[storageIndex[s]]) : x.timestamp = g.key
  BY <1>5 DEF HeapCovers, Left
<1>7. x = popped
  BY <1>3, <1>4, <1>6 DEF Inv, HeapEntriesLive
<1>8. PICK y \in expirationHeap :
        y.sourceId = u /\ \E g \in Left(tree[storageIndex[u]]) : y.timestamp = g.key
  BY <1>5 DEF HeapCovers
<1>9. y.timestamp <= f.key
  BY <1>8 DEF Left
<1>10. e.key <= x.timestamp
  <2>1. PICK g \in Left(tree[storageIndex[s]]) : x.timestamp = g.key
    BY <1>6
  <2> QED BY <2>1 DEF Left
<1>11. e.key \in Int /\ f.key \in Int
  BY <1>i, <1>k DEF Left
<1> QED BY <1>i, <1>3, <1>7, <1>9, <1>10, <1>11

\* What truncate removes is the oldest across all sources (store.go), as far as
\* the heap it built before can know: no envelope elsewhere is older, unless a Put
\* has since changed that storage or the one it is taken from.
THEOREM OldestGoesFirst == MCSpec => OldestFirst
<1>1. MCInit => Inv /\ HeapCovers
  BY InitInv DEF MCInit, Init, HeapCovers
<1>2. Inv /\ HeapCovers /\ [MCNext]_<<vars, touched>> => Inv' /\ HeapCovers'
  BY NextKeepsInv, NextCovers DEF MCNext, vars
<1>3. Inv /\ HeapCovers /\ [MCNext]_<<vars, touched>> =>
        [numberToPrune' < numberToPrune =>
           \A s, u \in Indexed :
             /\ storageIndex[s] \in Changed
             /\ {storageIndex[s], storageIndex[u]} \cap touched = {}
             => \A e \in Left(tree[storageIndex[s]]), f \in tree[storageIndex[u]] :
                  e.key <= f.key]_<<vars, touched>>
  BY PrunesOldest
<1> QED BY <1>1, <1>2, <1>3, PTL DEF MCSpec, OldestFirst
-----------------------------------------------------------------------------
(* Store implements BoundedCache: what a source's users see changes only by an
   envelope being added, its oldest one making room when the source is full, or
   by its oldest one being evicted. *)

\* A Put under way carries a timestamp it was called with.
TimestampsPut == \A p \in Putters : put[p].pc # "idle" => put[p].timestamp \in Timestamps

\* A Put never changes the timestamp it began with.
LEMMA NextKeepsTimestamps == Inv /\ TimestampsPut /\ [Next]_vars => TimestampsPut'
<1> SUFFICES ASSUME Inv, TimestampsPut, [Next]_vars PROVE TimestampsPut'
  OBVIOUS
<1>1. ASSUME put' = put PROVE TimestampsPut'
  BY <1>1 DEF TimestampsPut
<1>2. ASSUME NEW p \in Putters, NEW s \in SourceIds, NEW ts \in Timestamps,
             PutExisting(p, s, ts) \/ PutNew(p, s, ts)
      PROVE  TimestampsPut'
  BY <1>2 DEF PutExisting, PutNew, Begin, TimestampsPut, Inv, TypeOK
<1>3. ASSUME NEW p \in Putters, InsertOrSwap(p) PROVE TimestampsPut'
  <2>1. PICK st \in Storages, kept \in SUBSET Entries, k \in Int, left \in Entries :
          Inserted(p, st, kept, k, left)
    BY <1>3, InsertEffect
  <2>2. put[p].pc = "insert" /\ put'[p].timestamp = put[p].timestamp
    BY <2>1 DEF Inserted, Inv, TypeOK, PutStates
  <2>3. \A q \in Putters : q # p => put'[q] = put[q]
    BY <2>1 DEF Inserted, Inv, TypeOK
  <2> QED BY <2>2, <2>3 DEF TimestampsPut
<1>4. ASSUME NEW p \in Putters, LoadOldest(p) \/ StoreOldest(p) PROVE TimestampsPut'
  <2>1. \/ put'[p].pc = "idle"
        \/ put[p].pc # "idle" /\ put'[p].timestamp = put[p].timestamp
    BY <1>4 DEF LoadOldest, StoreOldest, Unlock, IdlePut, PutAt, Inv, TypeOK, PutStates
  <2>2. \A q \in Putters : q # p => put'[q] = put[q]
    BY <1>4 DEF LoadOldest, StoreOldest, Unlock, Inv, TypeOK
  <2> QED BY <2>1, <2>2 DEF TimestampsPut
<1>5. CASE TruncateStep
  BY <1>1, <1>5
     DEF TruncateStep, BeginTruncate, SkipSource, VisitSource, EndBuild, PruneOne,
         PopEmptyHeap, EndTruncate
<1>6. ASSUME NEW r \in Readers, MetaStep(r) PROVE TimestampsPut'
  BY <1>1, <1>6
     DEF MetaStep, BeginMeta, RangeMeta, CopyMeta, LoadMeta, CountMeta, EndMeta
<1>7. CASE UNCHANGED vars
  BY <1>1, <1>7 DEF vars
<1> QED BY <1>2, <1>3, <1>4, <1>5, <1>6, <1>7 DEF Next, Dead, PutStep

\* A key the fudge loop settles on is one the cache may use.
LEMMA FudgedAddition ==
  ASSUME NEW kept \in SUBSET Entries, NEW ts \in Int, NEW k \in Int,
         k \in ts .. (ts + maxTimestampFudge), IsFudgedKey(kept, ts, k)
  PROVE  TreePut(kept, k, ts) \in Cache!Additions(kept, ts)
<1>1. ASSUME Cache!Taken(kept, k)
      PROVE  k = ts + maxTimestampFudge /\ \A i \in ts .. k : Cache!Taken(kept, i)
  <2>1. k = ts + maxTimestampFudge
    BY <1>1, StoreAssumption DEF IsFudgedKey, HasKey, Cache!Taken
  <2>2. \A i \in ts .. k : i = k \/ i \in ts .. (k - 1)
    OBVIOUS
  <2> QED BY <1>1, <2>1, <2>2 DEF IsFudgedKey, HasKey, Cache!Taken
<1> QED BY <1>1 DEF Cache!Additions, TreePut

\* The cache counts a source's envelopes as the store does.
LEMMA SameCardinality == \A S : Cache!Cardinality(S) = Cardinality(S)
BY DEF Cache!Cardinality, Cardinality, Cache!IsFiniteSet, IsFiniteSet

\* insertOrSwap is a Put of the abstract cache, or not seen by readers.
LEMMA InsertImplements ==
  ASSUME Inv, TimestampsPut, NEW p \in Putters, InsertOrSwap(p)
  PROVE  [Cache!Next]_Contents
<1>1. PICK st \in Storages, kept \in SUBSET Entries, k \in Int, left \in Entries :
        Inserted(p, st, kept, k, left)
  BY InsertEffect
<1> DEFINE ts == put[p].timestamp
           new == TreePut(kept, k, ts)
<1>2. /\ ts \in Timestamps /\ ts \in Int
      /\ kept \in Kept(tree[st])
      /\ storageIndex' = storageIndex
  BY <1>1 DEF Inserted, InsertOrSwap, TimestampsPut
<1>3. \A u \in Storages : tree'[u] = IF u = st THEN new ELSE tree[u]
  BY <1>1 DEF Inserted, Inv, TypeOK
<1>4. CASE \A s \in Indexed : storageIndex[s] # st
  <2>1. Contents' = Contents
    BY <1>2, <1>3, <1>4 DEF Contents, Indexed, Inv, TypeOK
  <2> QED BY <2>1
<1>5. ASSUME NEW s \in Indexed, storageIndex[s] = st PROVE Cache!Next
  <2>1. s \in SourceIds /\ Contents[s] = tree[st]
    BY <1>5 DEF Contents, Indexed
  <2>2. \A u \in SourceIds : u # s => storageIndex[u] # st
    BY <1>5, StoreAssumption DEF Indexed, Inv, StoragesNotShared
  <2>3. Contents' = [Contents EXCEPT ![s] = new]
    BY <1>2, <1>3, <1>5, <2>1, <2>2, StoreAssumption DEF Contents, Inv, TypeOK
  <2>4. new \in Cache!Additions(kept, ts)
    BY <1>1, FudgedAddition DEF Inserted
  <2>5. Cardinality(tree[st]) \in Nat
    BY FS_CardinalityType DEF Inv, TreesFinite
  <2>6. Cache!Add(s)
    <3>1. CASE IsFull(tree[st])
      <4>1. PICK e \in Left(tree[st]) : kept = tree[st] \ {e}
        BY <1>2, <3>1 DEF Kept
      <4>2. e \in Cache!Oldest(Contents[s])
        BY <2>1, <4>1 DEF Left, Cache!Oldest
      <4>3. new \in Cache!Additions(Contents[s] \ {e}, ts)
        BY <2>1, <2>4, <4>1
      <4>4. Cardinality(Contents[s]) >= maxPerSource
        BY <2>1, <3>1 DEF IsFull
      <4> HIDE DEF new
      <4> QED BY <1>2, <2>3, <4>2, <4>3, <4>4, SameCardinality DEF Cache!Add
    <3>2. CASE ~IsFull(tree[st])
      <4>1. kept = tree[st]
        BY <1>2, <3>2 DEF Kept
      <4>2. Cardinality(Contents[s]) < maxPerSource
        BY <2>1, <2>5, <3>2, StoreAssumption DEF IsFull
      <4>3. new \in Cache!Additions(Contents[s], ts)
        BY <2>1, <2>4, <4>1
      <4> HIDE DEF new
      <4> QED BY <1>2, <2>3, <4>2, <4>3, SameCardinality DEF Cache!Add
    <3> QED BY <3>1, <3>2
  <2> QED BY <2>1, <2>6 DEF Cache!Next
<1> QED BY <1>4, <1>5

\* A pruned envelope is the oldest of its source.
LEMMA PruneImplements ==
  ASSUME Inv, PruneOne
  PROVE  Cache!Next
<1>1. PICK popped \in expirationHeap, oldest \in Entries : Pruned(popped, oldest)
  BY PruneEffect
<1> DEFINE st == popped.tree
           s == popped.sourceId
           remaining == tree[st] \ {oldest}
<1>2. /\ st \in Storages /\ s \in SourceIds /\ storageIndex[s] = st
      /\ oldest \in Left(tree[st])
  BY <1>1 DEF Pruned
<1>3. \A u \in Storages : tree'[u] = IF u = st THEN remaining ELSE tree[u]
  BY <1>1 DEF Pruned, Inv, TypeOK
<1>4. \/ storageIndex' = storageIndex
      \/ remaining = {} /\ storageIndex' = [storageIndex EXCEPT ![s] = Nil]
  BY <1>1 DEF Pruned
<1>5. Contents[s] = tree[st]
  BY <1>2, StoreAssumption DEF Contents
<1>6. \A u \in SourceIds : u # s => storageIndex[u] # st
  BY <1>2, StoreAssumption DEF Indexed, Inv, StoragesNotShared
<1>7. Contents' = [Contents EXCEPT ![s] = remaining]
  <2>1. \A u \in SourceIds : Contents'[u] = IF u = s THEN remaining ELSE Contents[u]
    BY <1>2, <1>3, <1>4, <1>6, StoreAssumption DEF Contents, Inv, TypeOK
  <2> QED BY <2>1 DEF Contents
<1>8. oldest \in Cache!Oldest(Contents[s])
  BY <1>2, <1>5 DEF Left, Cache!Oldest
<1> QED BY <1>2, <1>5, <1>7, <1>8 DEF Cache!Next, Cache!Evict

\* A storage without envelopes is not seen by readers.
LEMMA PutNewImplements ==
  ASSUME Inv, NEW p \in Putters, NEW s \in SourceIds, NEW ts \in Timestamps,
         PutNew(p, s, ts)
  PROVE  Contents' = Contents
<1>1. PICK st \in Storages :
        /\ Unreferenced(st)
        /\ storageIndex' = [storageIndex EXCEPT ![s] = st]
        /\ tree' = [tree EXCEPT ![st] = {}]
  BY DEF PutNew, Begin
<1>2. storageIndex[s] = Nil
  BY DEF PutNew, Begin
<1>3. \A u \in SourceIds : Contents'[u] = Contents[u]
  BY <1>1, <1>2, StoreAssumption DEF Contents, Unreferenced, Inv, TypeOK
<1> QED BY <1>3 DEF Contents

\* Every step is one of the abstract cache or a stutter.
LEMMA NextImplements ==
  ASSUME Inv, TimestampsPut, [Next]_vars
  PROVE  [Cache!Next]_Contents
<1>1. ASSUME UNCHANGED <<storageIndex, tree>> PROVE Contents' = Contents
  BY <1>1 DEF Contents
<1>2. ASSUME NEW p \in Putters, PutStep(p) PROVE [Cache!Next]_Contents
  BY <1>1, <1>2, InsertImplements, PutNewImplements
     DEF PutStep, PutExisting, Begin, LoadOldest, StoreOldest, storeVars
<1>3. CASE TruncateStep
  BY <1>1, <1>3, PruneImplements
     DEF TruncateStep, BeginTruncate, SkipSource, VisitSource, EndBuild, PopEmptyHeap,
         EndTruncate, storeVars
<1>4. ASSUME NEW r \in Readers, MetaStep(r) PROVE [Cache!Next]_Contents
  BY <1>1, <1>4
     DEF MetaStep, BeginMeta, RangeMeta, CopyMeta, LoadMeta, CountMeta, EndMeta, storeVars
<1>5. CASE UNCHANGED vars
  BY <1>1, <1>5 DEF vars, storeVars
<1> QED BY <1>2, <1>3, <1>4, <1>5 DEF Next, Dead

\* Whatever Put, Meta and truncate do at the same time, the store is a
\* bounded cache that loses a source's oldest envelope first.
THEOREM Refinement == Spec => ImplementsCache
<1>1. Init => Cache!Init
  BY DEF Init, Cache!Init, Contents
<1>2. Init => TimestampsPut
  BY DEF Init, TimestampsPut, IdlePut
<1>3. Inv /\ TimestampsPut /\ [Next]_vars => [Cache!Next]_Contents
  BY NextImplements
<1> QED BY <1>1, <1>2, <1>3, NextKeepsTimestamps, Structure, PTL
        DEF Spec, ImplementsCache, Cache!Spec
=============================================================================
