------------------------------- MODULE Diode -------------------------------
(***************************************************************************)
(* code.cloudfoundry.org/go-diodes' OneToOne, as it is used: a ring that   *)
(* is overwritten when its reader is slow. A slot has the write index it   *)
(* was written at; a reader that finds a later one than it expects skips   *)
(* to it. Set is meant for one goroutine, TryNext for another.             *)
(***************************************************************************)
EXTENDS Naturals

CONSTANT Nothing

Buckets(data) == [seq : Nat, data : data]

Diodes(size, data) ==
  [slots : [0 .. size - 1 -> Buckets(data) \cup {Nothing}],
   size : {size}, readIndex : Nat, writeIndex : Nat]

EmptyDiode(size) ==
  [slots |-> [i \in 0 .. size - 1 |-> Nothing],
   size |-> size, readIndex |-> 0, writeIndex |-> 0]

\* Set by a goroutine that saw this write index, its own if there is but one.
SetAt(d, index, data) ==
  [d EXCEPT !.slots[index % d.size] = [seq |-> index, data |-> data],
            !.writeIndex = index + 1]

Set(d, data) == SetAt(d, d.writeIndex, data)

NextBucket(d) == d.slots[d.readIndex % d.size]

\* TryNext finds something. A bucket from before the reader skipped is taken
\* out, but not returned.
Found(d) ==
  /\ NextBucket(d) # Nothing
  /\ NextBucket(d).seq >= d.readIndex

\* The diode after TryNext.
Read(d) ==
  [d EXCEPT !.slots[d.readIndex % d.size] = Nothing,
            !.readIndex = IF Found(d) THEN NextBucket(d).seq + 1 ELSE @]

\* A Set here loses what the reader has not taken: it will skip it.
Overwrites(d, index) == d.slots[index % d.size] # Nothing

\* What the diode still has for its reader, or has not let it see.
Contents(d) == {d.slots[i].data : i \in {i \in DOMAIN d.slots :
                  d.slots[i] # Nothing /\ d.slots[i].seq >= d.readIndex}}
=============================================================================
