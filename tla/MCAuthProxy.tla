---------------------------- MODULE MCAuthProxy ----------------------------
(***************************************************************************)
(* AuthProxy for TLC: one user with a token of each of two keys, one app.  *)
(***************************************************************************)
EXTENDS AuthProxy

CONSTANTS k1, key1, key2, u, app, name

MCNames(s) == name

Token(key) ==
  [user |-> u, kid |-> k1, key |-> key, admin |-> FALSE, defect |-> "none"]

MCTokens == {Token(key1)}

MCAsks == {[endpoint |-> "read", names |-> {app}],
           [endpoint |-> "query", names |-> {name}],
           [endpoint |-> "meta", names |-> {}]}
=============================================================================
