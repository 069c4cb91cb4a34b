------------------------------ MODULE MCStore ------------------------------
(***************************************************************************)
(* Store for TLC, with a history variable: the storages a Put has changed  *)
(* since the running truncation last looked at them.                       *)
(***************************************************************************)
EXTENDS Store, TLC

VARIABLE touched

MCInit == Init /\ touched = {}

Changed == {st \in Storages : tree'[st] # tree[st]}

Visited == {storageIndex[s] : s \in SourceIds \ toVisit}

MCNext ==
  /\ Next
  /\ touched' = IF truncPc = "sleep" THEN {}
                ELSE IF numberToPrune' < numberToPrune THEN touched \ Changed
                ELSE touched \cup (Changed \cap Visited)

MCSpec == MCInit /\ [][MCNext]_<<vars, touched>>

\* Interchangeable goroutines and storage identities.
Symmetry == Permutations(Putters) \cup Permutations(Storages)

\* truncate evicts the oldest envelopes across all sources: what a turn of
\* its loop removes is no newer than anything in the storages that no Put has
\* changed behind its back, when it is taken from one of these.
OldestFirst ==
  [][numberToPrune' < numberToPrune =>
       \A s, u \in Indexed :
         /\ storageIndex[s] \in Changed
         /\ {storageIndex[s], storageIndex[u]} \cap touched = {}
         => \A e \in Left(tree[storageIndex[s]]), f \in tree[storageIndex[u]] :
              e.key <= f.key]_<<vars, touched>>
=============================================================================
