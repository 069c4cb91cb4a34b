----------------------------- MODULE TokenKeys -----------------------------
(***************************************************************************)
(* The public keys a UAAClient verifies tokens with                        *)
(* (src/internal/auth/uaa_client.go). Requests refresh them at once and in *)
(* the background, UAA rotates them, and its answers fail or come late.    *)
(*                                                                         *)
(* Time is counted in ticks. A network call takes any number of ticks up   *)
(* to the timeout of its HTTP client, what a goroutine does between two    *)
(* calls none.                                                             *)
(***************************************************************************)
EXTENDS Naturals, FiniteSets

CONSTANTS
  Kids,                    \* key ids
  Keys,                    \* RSA keys
  NoKey,
  Malformed,               \* a value that is empty, not PEM or not RSA
  Refreshers,              \* goroutines that may call RefreshTokenKeys
  MinimumRefreshInterval,
  UAATimeout               \* of the HTTP client

ASSUME TokenKeysAssumption ==
  /\ {NoKey, Malformed} \cap Keys = {} /\ NoKey # Malformed
  /\ MinimumRefreshInterval \in Nat \ {0}
  /\ UAATimeout \in Nat

VARIABLES
  uaaKeys,     \* kid -> what UAA lists for it
  publicKeys,  \* kid -> the key in the sync.Map
  sinceQuery,  \* ticks since lastQueryTime, which stop counting in the end
  refresh      \* refresher -> the locals of its RefreshTokenKeys

keyVars == <<uaaKeys, publicKeys, sinceQuery, refresh>>

NoResponse == [k \in Kids |-> NoKey]

NotRefreshing ==
  [at |-> "idle", current |-> FALSE, flight |-> 0,
   tokenKeys |-> NoResponse, currentKeyIds |-> {}]

RefreshStates ==
  [at : {"idle", "called", "loaded", "query", "answered", "prune"},
   current : BOOLEAN,
   flight : 0 .. UAATimeout,
   tokenKeys : [Kids -> Keys \cup {NoKey, Malformed}],
   currentKeyIds : SUBSET Kids]

KeysTypeOK ==
  /\ uaaKeys \in [Kids -> Keys \cup {NoKey, Malformed}]
  /\ publicKeys \in [Kids -> Keys \cup {NoKey}]
  /\ sinceQuery \in 0 .. MinimumRefreshInterval
  /\ refresh \in [Refreshers -> RefreshStates]

\* lastQueryTime is 0 at first, and the command refreshes the keys before it
\* serves anything.
KeysInit ==
  /\ uaaKeys \in [Kids -> Keys]
  /\ publicKeys = uaaKeys
  /\ sinceQuery = 0
  /\ refresh = [p \in Refreshers |-> NotRefreshing]
-----------------------------------------------------------------------------
\* What a goroutine does when it calls RefreshTokenKeys.
CallRefresh(p) ==
  /\ refresh[p].at = "idle"
  /\ refresh' = [refresh EXCEPT ![p].at = "called"]

\* lastQueryTime is loaded; too soon after it, the call returns nil.
LoadQueryTime(p) ==
  /\ refresh[p].at = "called"
  /\ refresh' = [refresh EXCEPT ![p] =
       IF sinceQuery < MinimumRefreshInterval
       THEN NotRefreshing
       ELSE [@ EXCEPT !.at = "loaded", !.current = TRUE]]
  /\ UNCHANGED <<uaaKeys, publicKeys, sinceQuery>>

\* The CompareAndSwap, whose result is not looked at: with or without it the
\* request to UAA follows.
SwapQueryTime(p) ==
  LET swaps == refresh[p].current IN
  /\ refresh[p].at = "loaded"
  /\ sinceQuery' = IF swaps THEN 0 ELSE sinceQuery
  /\ refresh' = [q \in Refreshers |->
       IF q = p THEN [refresh[p] EXCEPT !.at = "query", !.current = FALSE]
       ELSE [refresh[q] EXCEPT !.current = @ /\ ~swaps]]
  /\ UNCHANGED <<uaaKeys, publicKeys>>

\* UAA lists its keys; the answer is on its way.
UAAAnswers(p) ==
  /\ refresh[p].at = "query"
  /\ refresh' = [refresh EXCEPT ![p].at = "answered",
                                ![p].tokenKeys = uaaKeys]
  /\ UNCHANGED <<uaaKeys, publicKeys, sinceQuery>>

\* The call fails, times out, or has a status or a body that is no use.
QueryFails(p) ==
  /\ refresh[p].at \in {"query", "answered"}
  /\ refresh' = [refresh EXCEPT ![p] = NotRefreshing]
  /\ UNCHANGED <<uaaKeys, publicKeys, sinceQuery>>

\* The answer is decoded, and the ids of the keys known so far are collected.
ReceiveKeys(p) ==
  /\ refresh[p].at = "answered"
  /\ refresh' = [refresh EXCEPT
       ![p].at = "prune", ![p].flight = 0,
       ![p].currentKeyIds = {k \in Kids : publicKeys[k] # NoKey}]
  /\ UNCHANGED <<uaaKeys, publicKeys, sinceQuery>>

\* Mutant: a malformed key is passed over and the rest goes on.
StoreKey_SkipMalformed(p) ==
  /\ refresh[p].at = "prune"
  /\ \E k \in Kids :
       LET key == refresh[p].tokenKeys[k] IN
       /\ key # NoKey
       /\ publicKeys' = IF key = Malformed THEN publicKeys
                        ELSE [publicKeys EXCEPT ![k] = key]
       /\ refresh' = [refresh EXCEPT
            ![p].tokenKeys[k] = NoKey,
            ![p].currentKeyIds = IF key = Malformed THEN @ ELSE @ \ {k}]
  /\ UNCHANGED <<uaaKeys, sinceQuery>>

\* The next key of the answer is stored, whatever was there. The first that
\* is malformed ends the refresh.
StoreKey(p) ==
  /\ refresh[p].at = "prune"
  /\ \E k \in Kids :
       LET key == refresh[p].tokenKeys[k] IN
       /\ key # NoKey
       /\ \/ /\ key = Malformed
             /\ refresh' = [refresh EXCEPT ![p] = NotRefreshing]
             /\ UNCHANGED publicKeys
          \/ /\ key # Malformed
             /\ publicKeys' = [publicKeys EXCEPT ![k] = key]
             /\ refresh' = [refresh EXCEPT ![p].tokenKeys[k] = NoKey,
                                           ![p].currentKeyIds = @ \ {k}]
  /\ UNCHANGED <<uaaKeys, sinceQuery>>

\* After the last key, what was known before and was not in the answer goes.
DeleteKey(p) ==
  LET old == refresh[p].currentKeyIds IN
  /\ refresh[p].at = "prune"
  /\ refresh[p].tokenKeys = NoResponse
  /\ \/ /\ old = {}
        /\ refresh' = [refresh EXCEPT ![p] = NotRefreshing]
        /\ UNCHANGED publicKeys
     \/ \E k \in old :
          /\ publicKeys' = [publicKeys EXCEPT ![k] = NoKey]
          /\ refresh' = [refresh EXCEPT ![p].currentKeyIds = @ \ {k}]
  /\ UNCHANGED <<uaaKeys, sinceQuery>>

RefreshStep(p) ==
  \/ LoadQueryTime(p) \/ SwapQueryTime(p) \/ UAAAnswers(p)
  \/ ReceiveKeys(p) \/ StoreKey(p) \/ DeleteKey(p)

\* UAA replaces, adds, drops or breaks a key.
RotateKey(k, key) ==
  /\ uaaKeys' = [uaaKeys EXCEPT ![k] = key]
  /\ uaaKeys' # uaaKeys
  /\ UNCHANGED <<publicKeys, sinceQuery, refresh>>
-----------------------------------------------------------------------------
OnTheWire(p) == refresh[p].at \in {"query", "answered"}

KeysMayTick ==
  \A p \in Refreshers :
    \/ refresh[p].at = "idle"
    \/ OnTheWire(p) /\ refresh[p].flight < UAATimeout

KeysTick ==
  /\ sinceQuery' = IF sinceQuery < MinimumRefreshInterval
                   THEN sinceQuery + 1 ELSE sinceQuery
  /\ refresh' = [p \in Refreshers |->
       IF OnTheWire(p) THEN [refresh[p] EXCEPT !.flight = @ + 1]
       ELSE refresh[p]]
  /\ UNCHANGED <<uaaKeys, publicKeys>>
=============================================================================
