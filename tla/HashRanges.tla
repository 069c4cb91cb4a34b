----------------------------- MODULE HashRanges -----------------------------
(***************************************************************************)
(* The ranges the scheduler cuts the space of hashes into                  *)
(* (src/internal/scheduler/scheduler.go) and how the routing table decides *)
(* that a hash is in a range (src/internal/routing/routing_table.go).      *)
(***************************************************************************)
EXTENDS Integers

CONSTANTS
  maxHash,  \* 2^64 - 1: the greatest uint64
  count     \* number of ranges

\* With more ranges than that, about 2^32, start would wrap around.
ASSUME HashRangesAssumption ==
  /\ maxHash \in Nat
  /\ count \in Nat \ {0}
  /\ count - 1 <= maxHash \div count

Hashes == 0 .. maxHash

Tasks == 0 .. count - 1

x == maxHash \div count

\* uint64 arithmetic.
Wrapped(n) == n % (maxHash + 1)

\* Mutant: ranges start where the one before them ends.
Start_Overlapping(i) == Wrapped(i * x)

Start(i) == Wrapped(i * (x + 1))

End(i) == IF i = count - 1 THEN maxHash ELSE Wrapped(Start(i) + x)

\* Mutant: the end of a range is not part of it.
InRange_EndExclusive(h, i) == Start(i) <= h /\ h < End(i)

\* Not "h < r.r.Start || h > r.r.End".
InRange(h, i) == Start(i) <= h /\ h <= End(i)
=============================================================================
