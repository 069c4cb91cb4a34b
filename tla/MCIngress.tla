----------------------------- MODULE MCIngress -----------------------------
(***************************************************************************)
(* Ingress for TLC: two nodes, and two sources that they route unlike.     *)
(***************************************************************************)
EXTENDS Ingress

CONSTANTS A, B, s, t

MCSourceOf(e) == IF e = 2 THEN t ELSE s

MCRoutes == (A :> (s :> {A, B} @@ t :> {B})) @@ (B :> (s :> {A, B} @@ t :> {A}))

MCCallers == Writers \cup Peers \cup {Syslog}

MCParseError(m) == FALSE

\* A gauge, and something unknown: either may be met first.
MCElements(m) == {[type |-> "gauge", malformed |-> FALSE],
                  [type |-> "other", malformed |-> FALSE]}
=============================================================================
