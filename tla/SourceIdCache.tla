--------------------------- MODULE SourceIdCache ---------------------------
(***************************************************************************)
(* What the owner of a token may see, asked from CAPI and cached           *)
(* (src/internal/auth/capi_client.go): lookups that run at once, a pruner, *)
(* permissions that change, and requests to CAPI that fail.                *)
(*                                                                         *)
(* Ticks are those of TokenKeys. The pages of a listing are one request,   *)
(* whose answer is what CAPI holds when it arrives.                        *)
(***************************************************************************)
EXTENDS Integers

CONSTANTS
  Users,                    \* a token, as the caches tell them apart
  Apps, ServiceInstances,   \* sources by the listing they are in
  AppNames, Names(_),       \* the names of apps, and the name of each
  Callers,                  \* goroutines that look permissions up
  MAX_RETRIES,
  CacheExpirationInterval,
  CAPITimeout,              \* of the HTTP client
  NoEntry

Sources == Apps \cup ServiceInstances

ASSUME SourceIdCacheAssumption ==
  /\ Apps \cap ServiceInstances = {}
  /\ MAX_RETRIES \in Nat
  /\ CacheExpirationInterval \in Nat \ {0}
  /\ CAPITimeout \in Nat

VARIABLES
  permitted,   \* user -> the sources CAPI would list
  tokenCache,  \* user -> the entry of the sync.Map, with its time to live
  lookup,      \* caller -> the locals of its call
  doomed       \* users whose entry the pruner's pass found or will find
               \* expired, and the one it is about to delete

cacheVars == <<permitted, tokenCache, lookup, doomed>>

NotLooking ==
  [at |-> "idle", user |-> NoEntry, sourceId |-> NoEntry,
   retryCount |-> 0, sourceIds |-> {}, flight |-> 0, isAuthorized |-> FALSE]

CacheEntries ==
  [sourceIds : SUBSET Sources, retryCount : 0 .. MAX_RETRIES,
   ttl : -1 .. CacheExpirationInterval]

LookupStates ==
  [at : {"idle", "apps", "services", "store", "done"},
   user : Users \cup {NoEntry},
   sourceId : Sources \cup AppNames \cup {NoEntry},
   retryCount : 0 .. MAX_RETRIES,
   sourceIds : SUBSET Sources,
   flight : 0 .. CAPITimeout,
   isAuthorized : BOOLEAN]

CacheTypeOK ==
  /\ permitted \in [Users -> SUBSET Sources]
  /\ tokenCache \in [Users -> CacheEntries \cup {NoEntry}]
  /\ lookup \in [Callers -> LookupStates]
  /\ doomed \in [expired : SUBSET Users, deleting : SUBSET Users]

CacheInit ==
  /\ permitted \in [Users -> SUBSET Sources]
  /\ tokenCache = [u \in Users |-> NoEntry]
  /\ lookup = [c \in Callers |-> NotLooking]
  /\ doomed = [expired |-> {}, deleting |-> {}]
-----------------------------------------------------------------------------
Asking(user, id) ==
  [NotLooking EXCEPT !.user = user, !.sourceId = id]

Answer(call, yes) == [call EXCEPT !.at = "done", !.isAuthorized = yes]

\* Mutant: an entry counts as long as it is there.
IsAuthorized_NoExpiry(c, user, id) ==
  LET entry == tokenCache[user]
      cached == entry # NoEntry
      hit == cached /\ id \in entry.sourceIds
      exhausted == cached /\ entry.retryCount >= MAX_RETRIES
  IN
  /\ lookup[c].at = "idle"
  /\ lookup' = [lookup EXCEPT ![c] =
       IF hit \/ exhausted THEN Answer(Asking(user, id), hit)
       ELSE [Asking(user, id) EXCEPT
               !.at = "apps",
               !.retryCount = IF cached THEN entry.retryCount + 1 ELSE 0]]

\* Mutant: one retry too many.
IsAuthorized_OneMore(c, user, id) ==
  LET entry == tokenCache[user]
      cached == entry # NoEntry /\ entry.ttl > 0
      hit == cached /\ id \in entry.sourceIds
      exhausted == cached /\ entry.retryCount > MAX_RETRIES
  IN
  /\ lookup[c].at = "idle"
  /\ lookup' = [lookup EXCEPT ![c] =
       IF hit \/ exhausted THEN Answer(Asking(user, id), hit)
       ELSE [Asking(user, id) EXCEPT
               !.at = "apps",
               !.retryCount = IF cached THEN entry.retryCount + 1 ELSE 0]]

\* An entry counts until it expires. A source that is not in it may be new, so
\* that CAPI is asked again, a few times.
IsAuthorized(c, user, id) ==
  LET entry == tokenCache[user]
      cached == entry # NoEntry /\ entry.ttl > 0
      hit == cached /\ id \in entry.sourceIds
      exhausted == cached /\ entry.retryCount >= MAX_RETRIES
  IN
  /\ lookup[c].at = "idle"
  /\ lookup' = [lookup EXCEPT ![c] =
       IF hit \/ exhausted THEN Answer(Asking(user, id), hit)
       ELSE [Asking(user, id) EXCEPT
               !.at = "apps",
               !.retryCount = IF cached THEN entry.retryCount + 1 ELSE 0]]

\* AvailableSourceIDs for its own sake: nothing is cached, NoEntry is asked for.
ListSources(c, user) ==
  /\ lookup[c].at = "idle"
  /\ lookup' = [lookup EXCEPT ![c] =
       [Asking(user, NoEntry) EXCEPT !.at = "apps"]]

ListsApps(c) ==
  /\ lookup[c].at = "apps"
  /\ lookup' = [lookup EXCEPT
       ![c].at = "services", ![c].flight = 0,
       ![c].sourceIds = permitted[lookup[c].user] \cap Apps]
  /\ UNCHANGED <<permitted, tokenCache, doomed>>

\* A listing that only filters the meta information is not stored.
Listed(call, ids) ==
  [call EXCEPT !.at = IF call.sourceId = NoEntry THEN "done" ELSE "store",
               !.flight = 0, !.sourceIds = ids]

ListsServiceInstances(c) ==
  LET found == permitted[lookup[c].user] \cap ServiceInstances IN
  /\ lookup[c].at = "services"
  /\ lookup' = [lookup EXCEPT ![c] = Listed(@, @.sourceIds \cup found)]
  /\ UNCHANGED <<permitted, tokenCache, doomed>>

\* An error in any request, status or body makes the whole listing nil.
ListingFails(c) ==
  /\ lookup[c].at \in {"apps", "services"}
  /\ lookup' = [lookup EXCEPT ![c] = Listed(@, {})]
  /\ UNCHANGED <<permitted, tokenCache, doomed>>

\* What was listed replaces what the cache has, a failed listing too.
StoreSourceIds(c) ==
  LET call == lookup[c] IN
  /\ call.at = "store"
  /\ tokenCache' = [tokenCache EXCEPT ![call.user] =
       [sourceIds |-> call.sourceIds, retryCount |-> call.retryCount,
        ttl |-> CacheExpirationInterval]]
  /\ doomed' = [doomed EXCEPT !.expired = @ \ {call.user}]
  /\ lookup' = [lookup EXCEPT ![c] =
       Answer(@, @.sourceId \in @.sourceIds)]
  /\ UNCHANGED permitted

\* GetRelatedSourceIds, once CAPI answers: the apps of these names. With no
\* name CAPI is not asked, and an error is as if there were none.
RelatedSourceIds(user, names) ==
  {p \in names \X Apps : p[2] \in permitted[user] /\ Names(p[2]) = p[1]}
-----------------------------------------------------------------------------
\* Mutant: the comparison of the times is the wrong way round.
BeginPrune_Before ==
  /\ doomed.expired = {} /\ doomed.deleting = {}
  /\ doomed' = [doomed EXCEPT !.expired =
       {u \in Users : tokenCache[u] # NoEntry /\ tokenCache[u].ttl > 0}]
  /\ doomed' # doomed
  /\ UNCHANGED <<permitted, tokenCache, lookup>>

\* A pass of pruneTokens reads the clock once. What is stored during the pass
\* is not expired by that clock, so the entries it deletes are among those that
\* are expired when it begins.
BeginPrune ==
  /\ doomed.expired = {} /\ doomed.deleting = {}
  /\ doomed' = [doomed EXCEPT !.expired =
       {u \in Users : tokenCache[u] # NoEntry /\ tokenCache[u].ttl < 0}]
  /\ doomed' # doomed
  /\ UNCHANGED <<permitted, tokenCache, lookup>>

VisitExpired ==
  /\ doomed.deleting = {}
  /\ \E u \in doomed.expired :
       doomed' = [expired |-> doomed.expired \ {u}, deleting |-> {u}]
  /\ UNCHANGED <<permitted, tokenCache, lookup>>

\* By then a request may have stored a new entry for the token.
DeleteExpired ==
  \E u \in doomed.deleting :
    /\ tokenCache' = [tokenCache EXCEPT ![u] = NoEntry]
    /\ doomed' = [doomed EXCEPT !.deleting = {}]
    /\ UNCHANGED <<permitted, lookup>>

ChangePermissions(user, s) ==
  /\ permitted' = [permitted EXCEPT ![user] =
       IF s \in @ THEN @ \ {s} ELSE @ \cup {s}]
  /\ UNCHANGED <<tokenCache, lookup, doomed>>
-----------------------------------------------------------------------------
Listing(c) == lookup[c].at \in {"apps", "services"}

CacheMayTick ==
  /\ doomed.expired = {} /\ doomed.deleting = {}
  /\ \A c \in Callers :
       \/ lookup[c].at = "idle"
       \/ Listing(c) /\ lookup[c].flight < CAPITimeout

CacheTick ==
  /\ tokenCache' = [u \in Users |->
       IF tokenCache[u] = NoEntry \/ tokenCache[u].ttl < 0 THEN tokenCache[u]
       ELSE [tokenCache[u] EXCEPT !.ttl = @ - 1]]
  /\ lookup' = [c \in Callers |->
       IF Listing(c) THEN [lookup[c] EXCEPT !.flight = @ + 1] ELSE lookup[c]]
  /\ UNCHANGED <<permitted, doomed>>
=============================================================================
