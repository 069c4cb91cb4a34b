---------------------------- MODULE BoundedCache ----------------------------
(***************************************************************************)
(* What the store promises its users: for each source a bounded set of     *)
(* envelopes that loses its oldest envelope first.  An envelope is kept    *)
(* under a key at or shortly after its timestamp, and displaces another    *)
(* only when all those keys are taken.                                     *)
(***************************************************************************)
EXTENDS Integers, FiniteSets

CONSTANTS SourceIds, Timestamps, maxPerSource, maxTimestampFudge

VARIABLE contents  \* source id -> set of [key, timestamp] entries

Oldest(c) == {e \in c : \A f \in c : e.key <= f.key}

Taken(c, k) == \E e \in c : e.key = k

\* The outcomes of adding an envelope to c.
Additions(c, ts) ==
  {{e \in c : e.key # k} \cup {[key |-> k, timestamp |-> ts]} :
     k \in {j \in ts .. (ts + maxTimestampFudge) :
              Taken(c, j) => /\ j = ts + maxTimestampFudge
                             /\ \A i \in ts .. j : Taken(c, i)}}

\* A full source makes room by losing its oldest envelope.
Add(s) ==
  /\ \E ts \in Timestamps :
       \/ /\ Cardinality(contents[s]) < maxPerSource
          /\ \E c \in Additions(contents[s], ts) :
               contents' = [contents EXCEPT ![s] = c]
       \/ /\ Cardinality(contents[s]) >= maxPerSource
          /\ \E e \in Oldest(contents[s]) :
               \E c \in Additions(contents[s] \ {e}, ts) :
                 contents' = [contents EXCEPT ![s] = c]

Evict(s) ==
  \E e \in Oldest(contents[s]) :
    contents' = [contents EXCEPT ![s] = @ \ {e}]

Init == contents = [s \in SourceIds |-> {}]

Next == \E s \in SourceIds : Add(s) \/ Evict(s)

Spec == Init /\ [][Next]_contents
=============================================================================
