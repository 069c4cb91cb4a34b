----------------------------- MODULE AuthProofs -----------------------------
(***************************************************************************)
(* Theorems about AuthProxy, for any keys, tokens, users, sources and      *)
(* requests, and any timeouts and limits.                                  *)
(***************************************************************************)
EXTENDS AuthProxy, TLAPS

-----------------------------------------------------------------------------
(* Keys *)

\* The locals of a refresh are replaced by proper ones.
LEMMA CallRefreshType ==
  ASSUME KeysTypeOK, NEW p \in Refreshers, CallRefresh(p)
  PROVE  refresh' \in [Refreshers -> RefreshStates]
BY DEF KeysTypeOK, CallRefresh, RefreshStates

\* A goroutine without a refresh has proper locals.
LEMMA NotRefreshingType == NotRefreshing \in RefreshStates
BY TokenKeysAssumption DEF NotRefreshing, RefreshStates, NoResponse

\* A step of RefreshTokenKeys.
LEMMA RefreshType ==
  ASSUME KeysTypeOK, NEW p \in Refreshers, RefreshStep(p) \/ QueryFails(p)
  PROVE  KeysTypeOK'
<1>a. refresh[p] \in RefreshStates /\ uaaKeys \in [Kids -> Keys \cup {NoKey, Malformed}]
  BY DEF KeysTypeOK
<1>b. ASSUME NEW k \in RefreshStates, refresh' = [refresh EXCEPT ![p] = k]
      PROVE  refresh' \in [Refreshers -> RefreshStates]
  BY <1>b DEF KeysTypeOK
<1>1. CASE LoadQueryTime(p)
  BY <1>1, NotRefreshingType DEF LoadQueryTime, KeysTypeOK, RefreshStates
<1>2. CASE SwapQueryTime(p)
  <2>1. ASSUME NEW q \in Refreshers
        PROVE  refresh'[q] \in RefreshStates
    <3>1. refresh[q] \in RefreshStates
      BY DEF KeysTypeOK
    <3>2. CASE q = p
      <4>1. refresh'[q] = [refresh[p] EXCEPT !.at = "query", !.current = FALSE]
        BY <1>2, <3>2 DEF SwapQueryTime
      <4> QED BY <1>a, <4>1 DEF RefreshStates
    <3>3. CASE q # p
      <4>1. refresh'[q] = [refresh[q] EXCEPT !.current = @ /\ ~refresh[p].current]
        BY <1>2, <3>3 DEF SwapQueryTime
      <4>2. (refresh[q].current /\ ~refresh[p].current) \in BOOLEAN
        OBVIOUS
      <4> QED BY <3>1, <4>1, <4>2 DEF RefreshStates
    <3> QED BY <3>2, <3>3
  <2>2. sinceQuery' \in 0 .. MinimumRefreshInterval
    BY <1>2, TokenKeysAssumption DEF SwapQueryTime, KeysTypeOK
  <2> QED BY <1>2, <2>1, <2>2 DEF SwapQueryTime, KeysTypeOK
<1>3. CASE UAAAnswers(p)
  <2> DEFINE k == [refresh[p] EXCEPT !.at = "answered", !.tokenKeys = uaaKeys]
  <2>1. refresh' = [refresh EXCEPT ![p] = k]
    BY <1>3 DEF UAAAnswers, KeysTypeOK
  <2>2. k \in RefreshStates
    BY <1>a DEF RefreshStates
  <2> HIDE DEF k
  <2> QED BY <1>3, <1>b, <2>1, <2>2 DEF UAAAnswers, KeysTypeOK
<1>4. CASE QueryFails(p)
  BY <1>4, NotRefreshingType DEF QueryFails, KeysTypeOK
<1>5. CASE ReceiveKeys(p)
  <2> DEFINE known == {k \in Kids : publicKeys[k] # NoKey}
             k == [refresh[p] EXCEPT !.at = "prune", !.flight = 0, !.currentKeyIds = known]
  <2>1. refresh' = [refresh EXCEPT ![p] = k]
    BY <1>5 DEF ReceiveKeys, KeysTypeOK
  <2>2. 0 \in 0 .. UAATimeout /\ known \in SUBSET Kids
    BY TokenKeysAssumption
  <2>3. k \in RefreshStates
    <3> HIDE DEF known
    <3> QED BY <1>a, <2>2 DEF RefreshStates
  <2> HIDE DEF k
  <2> QED BY <1>5, <1>b, <2>1, <2>3 DEF ReceiveKeys, KeysTypeOK
<1>6. CASE StoreKey(p)
  <2>1. PICK k \in Kids :
          /\ refresh[p].tokenKeys[k] # NoKey
          /\ \/ refresh' = [refresh EXCEPT ![p] = NotRefreshing] /\ UNCHANGED publicKeys
             \/ /\ refresh[p].tokenKeys[k] # Malformed
                /\ publicKeys' = [publicKeys EXCEPT ![k] = refresh[p].tokenKeys[k]]
                /\ refresh' = [refresh EXCEPT ![p].tokenKeys[k] = NoKey,
                                              ![p].currentKeyIds = @ \ {k}]
    BY <1>6 DEF StoreKey
  <2>2. CASE refresh' = [refresh EXCEPT ![p] = NotRefreshing] /\ UNCHANGED publicKeys
    BY <1>6, <2>2, NotRefreshingType DEF StoreKey, KeysTypeOK
  <2>3. CASE /\ refresh[p].tokenKeys[k] # Malformed
             /\ publicKeys' = [publicKeys EXCEPT ![k] = refresh[p].tokenKeys[k]]
             /\ refresh' = [refresh EXCEPT ![p].tokenKeys[k] = NoKey,
                                           ![p].currentKeyIds = @ \ {k}]
    <3>1. refresh[p] \in RefreshStates
      BY DEF KeysTypeOK
    <3>2. refresh[p].tokenKeys[k] \in Keys
      BY <2>1, <2>3, <3>1 DEF RefreshStates
    <3>3. publicKeys' \in [Kids -> Keys \cup {NoKey}]
      BY <2>3, <3>2 DEF KeysTypeOK
    <3>4. refresh' \in [Refreshers -> RefreshStates]
      BY <2>3, <3>1 DEF KeysTypeOK, RefreshStates
    <3> QED BY <1>6, <3>3, <3>4 DEF StoreKey, KeysTypeOK
  <2> QED BY <2>1, <2>2, <2>3
<1>7. CASE DeleteKey(p)
  <2>1. refresh' \in [Refreshers -> RefreshStates]
    <3>1. \/ refresh' = [refresh EXCEPT ![p] = NotRefreshing]
          \/ \E k : refresh' = [refresh EXCEPT ![p] =
                                 [refresh[p] EXCEPT !.currentKeyIds = @ \ {k}]]
      BY <1>7 DEF DeleteKey, KeysTypeOK
    <3>2. \A k : [refresh[p] EXCEPT !.currentKeyIds = @ \ {k}] \in RefreshStates
      BY <1>a DEF RefreshStates
    <3> QED BY <1>b, <3>1, <3>2, NotRefreshingType
  <2>2. publicKeys' \in [Kids -> Keys \cup {NoKey}]
    BY <1>7 DEF DeleteKey, KeysTypeOK
  <2> QED BY <1>7, <2>1, <2>2 DEF DeleteKey, KeysTypeOK
<1> QED BY <1>1, <1>2, <1>3, <1>4, <1>5, <1>6, <1>7 DEF RefreshStep

\* Calls to UAA take their time.
LEMMA KeysTickType ==
  ASSUME KeysTypeOK, KeysMayTick, KeysTick
  PROVE  KeysTypeOK'
<1>1. \A p \in Refreshers : refresh'[p] \in RefreshStates
  <2> TAKE p \in Refreshers
  <2>1. CASE OnTheWire(p)
    <3>1. refresh[p].flight + 1 \in 0 .. UAATimeout
      BY <2>1, TokenKeysAssumption
         DEF KeysMayTick, OnTheWire, KeysTypeOK, RefreshStates
    <3> QED BY <2>1, <3>1 DEF KeysTick, KeysTypeOK, RefreshStates
  <2>2. CASE ~OnTheWire(p)
    BY <2>2 DEF KeysTick, KeysTypeOK
  <2> QED BY <2>1, <2>2
<1>2. sinceQuery' \in 0 .. MinimumRefreshInterval
  BY TokenKeysAssumption DEF KeysTick, KeysTypeOK
<1> QED BY <1>1, <1>2 DEF KeysTick, KeysTypeOK

-----------------------------------------------------------------------------
(* What an inductive proof needs beside the types *)

\* A lookup under way knows for whom, and only a source is authorized.
LookupOK(k) ==
  /\ k.at \notin {"idle", "done"} => k.user \in Users
  /\ k.isAuthorized => k.at = "done" /\ k.sourceId \in Sources

\* A request that is read has a token, and it looks up one source id of a name at
\* a time.
RequestOK(q, k) ==
  /\ q.at \notin {"idle", "refused"} => q.token \in Tokens /\ q.ask \in Asks
  /\ k.at # "idle" => q.at \in {"authorize", "filter"}
  /\ k.at # "idle" /\ q.at = "authorize" => q.name \in Sources \cup AppNames

\* What CAPI listed when the other listing was asked for, and what is to be stored.
LookupRecent(k) ==
  /\ k.at = "services" => \A s \in k.sourceIds : unlisted[k.user][s] <= k.flight
  /\ k.at = "store" => \A s \in k.sourceIds : unlisted[k.user][s] <= CAPITimeout

\* An entry grows older as it nears its end.
EntryRecent(user, entry) ==
  entry # NoEntry =>
    \A s \in entry.sourceIds :
      unlisted[user][s] <= CAPITimeout + CacheExpirationInterval - entry.ttl

\* What an answer may be based on.
AnswerRecent(k) ==
  k.at = "done" =>
    /\ k.isAuthorized => unlisted[k.user][k.sourceId] < Staleness
    /\ k.sourceId = NoEntry => \A s \in k.sourceIds : unlisted[k.user][s] <= CAPITimeout

Recent ==
  /\ \A u \in Users : \A s \in permitted[u] : unlisted[u][s] = 0
  /\ \A u \in Users : EntryRecent(u, tokenCache[u])
  /\ \A c \in Callers : LookupRecent(lookup[c])

AuthInv ==
  /\ TypeOK
  /\ \A c \in Callers : LookupOK(lookup[c])
  /\ \A r \in Requests : RequestOK(request[r], lookup[r])
  /\ Recent

-----------------------------------------------------------------------------
(* Lookups *)

\* The locals of a lookup after a step, and what its answer is based on.
Sound(k) == k \in LookupStates /\ LookupOK(k) /\ LookupRecent(k) /\ AnswerRecent(k)

\* Numbers and sets that the proofs below use.
LEMMA Facts ==
  ASSUME AuthInv
  PROVE  /\ CAPITimeout \in Nat /\ CacheExpirationInterval \in Nat \ {0} /\ MAX_RETRIES \in Nat
         /\ Staleness = CAPITimeout + CacheExpirationInterval
         /\ \A u \in Users, s \in Sources : unlisted[u][s] \in 0 .. Staleness
         /\ \A u \in Users : permitted[u] \in SUBSET Sources
         /\ lookup \in [Callers -> LookupStates]
         /\ \A c \in Callers : LookupOK(lookup[c]) /\ LookupRecent(lookup[c])
BY SourceIdCacheAssumption DEF AuthInv, TypeOK, CacheTypeOK, Staleness, Recent

\* Nothing is looked up.
LEMMA NotLookingStep == NotLooking.at = "idle" /\ Sound(NotLooking)
BY SourceIdCacheAssumption
   DEF Sound, NotLooking, LookupStates, LookupOK, LookupRecent, AnswerRecent

\* The locals that a lookup starts with.
LEMMA AskingType ==
  ASSUME NEW user \in Users, NEW id \in Sources \cup AppNames \cup {NoEntry}
  PROVE  /\ Asking(user, id) \in LookupStates /\ Asking(user, id).isAuthorized = FALSE
         /\ Asking(user, id).user = user /\ Asking(user, id).sourceId = id
         /\ Asking(user, id).sourceIds = {}
<1>1. NotLooking \in LookupStates
  BY NotLookingStep DEF Sound
<1>2. Asking(user, id) \in LookupStates
  BY <1>1 DEF Asking, LookupStates
<1> QED BY <1>2 DEF Asking, NotLooking

\* IsAuthorized answers from an entry that is not expired, or asks CAPI.
LEMMA IsAuthorizedStep ==
  ASSUME AuthInv, NEW c \in Callers, NEW user \in Users,
         NEW id \in Sources \cup AppNames, IsAuthorized(c, user, id)
  PROVE  \E k : /\ lookup' = [lookup EXCEPT ![c] = k]
               /\ Sound(k)
<1> DEFINE entry == tokenCache[user]
           cached == entry # NoEntry /\ entry.ttl > 0
           hit == cached /\ id \in entry.sourceIds
           exhausted == cached /\ entry.retryCount >= MAX_RETRIES
<1>1. cached => entry \in CacheEntries /\ EntryRecent(user, entry)
  BY DEF AuthInv, TypeOK, CacheTypeOK, Recent
<1>2. Asking(user, id) \in LookupStates /\ Asking(user, id).isAuthorized = FALSE
      /\ Asking(user, id).user = user /\ Asking(user, id).sourceId = id
      /\ Asking(user, id).sourceIds = {}
  <2>1. id \in Sources \cup AppNames \cup {NoEntry}
    OBVIOUS
  <2> HIDE DEF entry
  <2> QED BY <2>1, AskingType
<1>3. CASE hit \/ exhausted
  <2> DEFINE k == Answer(Asking(user, id), hit)
  <2>1. lookup' = [lookup EXCEPT ![c] = k]
    BY <1>3 DEF IsAuthorized
  <2>2. /\ k \in LookupStates /\ k.at = "done" /\ k.user = user /\ k.sourceId = id
        /\ k.sourceIds = {} /\ k.isAuthorized = hit
    BY <1>2 DEF Answer, LookupStates
  <2>3. hit => id \in Sources /\ unlisted[user][id] < Staleness
    <3> SUFFICES ASSUME hit
                 PROVE  id \in Sources /\ unlisted[user][id] < Staleness
      OBVIOUS
    <3>1. id \in Sources /\ entry.ttl \in Int /\ entry.ttl > 0
      BY <1>1 DEF CacheEntries
    <3>2. unlisted[user][id] <= CAPITimeout + CacheExpirationInterval - entry.ttl
      BY <1>1 DEF EntryRecent
    <3> QED BY <3>1, <3>2, Facts
  <2> HIDE DEF k, hit
  <2>4. Sound(k)
    BY <2>2, <2>3 DEF Sound, LookupOK, LookupRecent, AnswerRecent
  <2> QED BY <2>1, <2>4
<1>4. CASE ~(hit \/ exhausted)
  <2> DEFINE n == IF cached THEN entry.retryCount + 1 ELSE 0
             k == [Asking(user, id) EXCEPT !.at = "apps", !.retryCount = n]
  <2>1. lookup' = [lookup EXCEPT ![c] = k]
    BY <1>4 DEF IsAuthorized
  <2>2. n \in 0 .. MAX_RETRIES
    BY <1>1, <1>4, Facts DEF CacheEntries
  <2> HIDE DEF n
  <2>3. k \in LookupStates /\ k.at = "apps" /\ k.user = user /\ k.isAuthorized = FALSE
    BY <1>2, <2>2 DEF LookupStates
  <2> HIDE DEF k
  <2>4. Sound(k)
    BY <2>3 DEF Sound, LookupOK, LookupRecent, AnswerRecent
  <2> QED BY <2>1, <2>4
<1> HIDE DEF hit, exhausted
<1> QED BY <1>3, <1>4

\* AvailableSourceIDs asks CAPI.
LEMMA ListSourcesStep ==
  ASSUME AuthInv, NEW c \in Callers, NEW user \in Users, ListSources(c, user)
  PROVE  \E k : lookup' = [lookup EXCEPT ![c] = k] /\ Sound(k)
<1> DEFINE k == [Asking(user, NoEntry) EXCEPT !.at = "apps"]
<1>a. NoEntry \in Sources \cup AppNames \cup {NoEntry}
  OBVIOUS
<1>b. /\ Asking(user, NoEntry) \in LookupStates /\ Asking(user, NoEntry).user = user
      /\ Asking(user, NoEntry).isAuthorized = FALSE
  BY <1>a, AskingType
<1>1. k \in LookupStates /\ k.at = "apps" /\ k.user = user /\ k.isAuthorized = FALSE
  BY <1>b DEF LookupStates
<1>2. lookup' = [lookup EXCEPT ![c] = k]
  BY DEF ListSources
<1> HIDE DEF k
<1>3. Sound(k)
  BY <1>1 DEF Sound, LookupOK, LookupRecent, AnswerRecent
<1> QED BY <1>2, <1>3

\* CAPI answers one of two requests, or fails.
LEMMA ListingStep ==
  ASSUME AuthInv, NEW c \in Callers,
         ListsApps(c) \/ ListsServiceInstances(c) \/ ListingFails(c)
  PROVE  \E k : lookup' = [lookup EXCEPT ![c] = k] /\ Sound(k)
<1>1. /\ lookup[c] \in LookupStates /\ LookupOK(lookup[c]) /\ LookupRecent(lookup[c])
      /\ lookup[c].user \in Users /\ ~lookup[c].isAuthorized /\ 0 \in 0 .. CAPITimeout
  BY Facts DEF ListsApps, ListsServiceInstances, ListingFails, LookupOK
<1> DEFINE user == lookup[c].user
<1>2. /\ permitted[user] \in SUBSET Sources
      /\ \A s \in permitted[user] : unlisted[user][s] = 0
  BY <1>1, Facts DEF AuthInv, Recent
<1>3. CASE ListsApps(c)
  <2> DEFINE ids == permitted[user] \cap Apps
             k == [lookup[c] EXCEPT !.at = "services", !.flight = 0, !.sourceIds = ids]
  <2>1. lookup' = [lookup EXCEPT ![c] = k]
    BY <1>3, Facts DEF ListsApps
  <2>2. ids \in SUBSET Sources /\ \A s \in ids : unlisted[user][s] = 0
    BY <1>2
  <2> HIDE DEF ids
  <2>3. /\ k \in LookupStates /\ k.at = "services" /\ k.user = user /\ k.flight = 0
        /\ k.sourceIds = ids /\ k.sourceId = lookup[c].sourceId
        /\ k.isAuthorized = lookup[c].isAuthorized
    BY <1>1, <2>2 DEF LookupStates
  <2> HIDE DEF k
  <2>4. Sound(k)
    BY <1>1, <2>2, <2>3 DEF Sound, LookupOK, LookupRecent, AnswerRecent
  <2> QED BY <2>1, <2>4
<1>4. ASSUME NEW ids \in SUBSET Sources,
             \A s \in ids : unlisted[user][s] <= CAPITimeout,
             lookup' = [lookup EXCEPT ![c] = Listed(lookup[c], ids)]
      PROVE  \E k : lookup' = [lookup EXCEPT ![c] = k] /\ Sound(k)
  <2> DEFINE k == Listed(lookup[c], ids)
  <2>1. /\ k \in LookupStates /\ k.at \in {"store", "done"} /\ k.user = user
        /\ k.sourceIds = ids /\ k.sourceId = lookup[c].sourceId
        /\ k.isAuthorized = lookup[c].isAuthorized
    BY <1>1 DEF Listed, LookupStates
  <2> HIDE DEF k
  <2>2. Sound(k)
    BY <1>1, <1>4, <2>1 DEF Sound, LookupOK, LookupRecent, AnswerRecent
  <2> QED BY <1>4, <2>2 DEF k
<1>5. CASE ListsServiceInstances(c)
  <2> DEFINE ids == lookup[c].sourceIds \cup (permitted[user] \cap ServiceInstances)
  <2>1. lookup' = [lookup EXCEPT ![c] = Listed(lookup[c], ids)]
    BY <1>5, Facts DEF ListsServiceInstances
  <2>2. /\ ids \in SUBSET Sources /\ lookup[c].flight \in 0 .. CAPITimeout
        /\ lookup[c].sourceIds \in SUBSET Sources
    BY <1>1, <1>2 DEF LookupStates
  <2>3. ASSUME NEW s \in ids
        PROVE  unlisted[user][s] <= CAPITimeout
    <3>1. unlisted[user][s] = 0 \/ unlisted[user][s] <= lookup[c].flight
      BY <1>1, <1>2, <1>5 DEF ListsServiceInstances, LookupRecent
    <3> QED BY <1>1, <2>2, <2>3, <3>1, Facts
  <2> HIDE DEF ids
  <2> QED BY <1>4, <2>1, <2>2, <2>3
<1>6. CASE ListingFails(c)
  <2>1. lookup' = [lookup EXCEPT ![c] = Listed(lookup[c], {})]
    BY <1>6, Facts DEF ListingFails
  <2>2. {} \in SUBSET Sources /\ \A s \in {} : unlisted[user][s] <= CAPITimeout
    OBVIOUS
  <2> QED BY <1>4, <2>1, <2>2
<1> QED BY <1>3, <1>5, <1>6

\* What was listed is stored.
LEMMA StoreStep ==
  ASSUME AuthInv, NEW c \in Callers, StoreSourceIds(c)
  PROVE  /\ \E k : lookup' = [lookup EXCEPT ![c] = k] /\ Sound(k)
         /\ tokenCache' \in [Users -> CacheEntries \cup {NoEntry}]
         /\ \A u \in Users : EntryRecent(u, tokenCache'[u])
         /\ doomed' \in [expired : SUBSET Users, deleting : SUBSET Users]
<1>1. /\ lookup[c] \in LookupStates /\ LookupOK(lookup[c]) /\ LookupRecent(lookup[c])
      /\ lookup[c].user \in Users /\ lookup[c].at = "store" /\ ~lookup[c].isAuthorized
  BY Facts DEF StoreSourceIds, LookupOK, LookupStates
<1> DEFINE user == lookup[c].user
           ids == lookup[c].sourceIds
           yes == lookup[c].sourceId \in ids
           k == Answer(lookup[c], yes)
           entry == [sourceIds |-> ids, retryCount |-> lookup[c].retryCount,
                     ttl |-> CacheExpirationInterval]
<1>2. lookup' = [lookup EXCEPT ![c] = k] /\ tokenCache' = [tokenCache EXCEPT ![user] = entry]
  BY Facts DEF StoreSourceIds
<1>3. ids \in SUBSET Sources /\ \A s \in ids : unlisted[user][s] <= CAPITimeout
  BY <1>1 DEF LookupStates, LookupRecent
<1>4. yes \in BOOLEAN /\ (yes => lookup[c].sourceId \in ids)
  OBVIOUS
<1>5. entry \in CacheEntries
  BY <1>1, <1>3, Facts DEF CacheEntries, LookupStates
<1>6. EntryRecent(user, entry)
  <2>1. CAPITimeout + CacheExpirationInterval - CacheExpirationInterval = CAPITimeout
    BY Facts
  <2> QED BY <1>3, <2>1 DEF EntryRecent
<1>7. /\ tokenCache' \in [Users -> CacheEntries \cup {NoEntry}]
      /\ \A u \in Users : EntryRecent(u, tokenCache'[u])
  <2> HIDE DEF entry
  <2> QED BY <1>1, <1>2, <1>5, <1>6 DEF AuthInv, TypeOK, CacheTypeOK, Recent
<1>8. doomed' \in [expired : SUBSET Users, deleting : SUBSET Users]
  BY DEF StoreSourceIds, AuthInv, TypeOK, CacheTypeOK
<1> HIDE DEF ids, yes
<1>9. /\ k \in LookupStates /\ k.at = "done" /\ k.user = user /\ k.sourceIds = ids
      /\ k.sourceId = lookup[c].sourceId /\ k.isAuthorized = yes
  BY <1>1, <1>4 DEF Answer, LookupStates, ids
<1> HIDE DEF k
<1>10. Sound(k)
  <2>1. \A s \in ids : s \in Sources /\ unlisted[user][s] < Staleness
    BY <1>1, <1>3, Facts
  <2> QED BY <1>3, <1>4, <1>9, <2>1 DEF Sound, LookupOK, LookupRecent, AnswerRecent
<1> QED BY <1>2, <1>7, <1>8, <1>10

-----------------------------------------------------------------------------
(* Requests *)

\* The handler of a request goes on properly.
RequestStep(r) ==
  \E q \in RequestStates :
    request' = [request EXCEPT ![r] = q] /\ RequestOK(q, lookup'[r])

\* What is known of a request, whose handler has its own lookup.
LEMMA RequestFacts ==
  ASSUME AuthInv, NEW r \in Requests
  PROVE  /\ request \in [Requests -> RequestStates] /\ request[r] \in RequestStates
         /\ RequestOK(request[r], lookup[r]) /\ r \in Callers /\ r \in Refreshers
         /\ lookup[r] \in LookupStates /\ LookupOK(lookup[r])
BY AuthProxyAssumption DEF AuthInv, TypeOK, CacheTypeOK

\* Source ids by themselves are pairs.
LEMMA ThemselvesType ==
  ASSUME NEW names \in SUBSET (Sources \cup AppNames)
  PROVE  Themselves(names) \in SUBSET Pairs
BY DEF Themselves, Pairs

\* A request goes on to the gateway.
LEMMA ForwardStep ==
  ASSUME AuthInv, NEW r \in Requests, request[r].at \notin {"idle", "refused"},
         NEW ids \in SUBSET Pairs, Forward(r, ids), lookup'[r].at = "idle"
  PROVE  RequestStep(r)
<1> DEFINE q == [request[r] EXCEPT !.at = "forwarded", !.name = NoName, !.todo = {},
                                   !.allowed = ids]
<1>1. request' = [request EXCEPT ![r] = q]
  BY RequestFacts DEF Forward
<1>2. /\ q \in RequestStates /\ q.at = "forwarded"
      /\ q.token = request[r].token /\ q.ask = request[r].ask
  BY RequestFacts DEF RequestStates
<1> HIDE DEF q
<1>3. RequestOK(q, lookup'[r])
  BY <1>2, RequestFacts DEF RequestOK
<1> QED BY <1>1, <1>2, <1>3 DEF RequestStep

\* A request is refused.
LEMMA RefuseStep ==
  ASSUME AuthInv, NEW r \in Requests, Refuse(r), lookup'[r].at = "idle"
  PROVE  RequestStep(r)
<1> DEFINE q == [NoRequest EXCEPT !.at = "refused"]
<1>1. request' = [request EXCEPT ![r] = q]
  BY DEF Refuse
<1>2. q \in RequestStates /\ q.at = "refused"
  BY DEF NoRequest, RequestStates
<1> HIDE DEF q
<1>3. RequestOK(q, lookup'[r])
  BY <1>2 DEF RequestOK
<1> QED BY <1>1, <1>2, <1>3 DEF RequestStep

\* A handler is at another place.
LEMMA GotoStep ==
  ASSUME AuthInv, NEW r \in Requests, request[r].at \notin {"idle", "refused"},
         NEW at \in {"refreshing", "related", "meta", "filter"}, Goto(r, at),
         lookup'[r].at = "idle" \/ at = "filter"
  PROVE  RequestStep(r)
<1> DEFINE q == [request[r] EXCEPT !.at = at]
<1>1. request' = [request EXCEPT ![r] = q]
  BY RequestFacts DEF Goto
<1>2. /\ q \in RequestStates /\ q.at = at
      /\ q.token = request[r].token /\ q.ask = request[r].ask
  BY RequestFacts DEF RequestStates
<1> HIDE DEF q
<1>3. RequestOK(q, lookup'[r])
  BY <1>2, RequestFacts DEF RequestOK
<1> QED BY <1>1, <1>2, <1>3 DEF RequestStep

\* Source ids are to be authorized.
LEMMA ToAuthorizeStep ==
  ASSUME AuthInv, NEW r \in Requests, request[r].at \notin {"idle", "refused"},
         NEW all \in SUBSET Pairs, lookup'[r].at = "idle",
         request' = [request EXCEPT ![r].at = "authorize", ![r].todo = all]
  PROVE  RequestStep(r)
<1> DEFINE q == [request[r] EXCEPT !.at = "authorize", !.todo = all]
<1>1. request' = [request EXCEPT ![r] = q]
  BY RequestFacts
<1>2. /\ q \in RequestStates /\ q.at = "authorize"
      /\ q.token = request[r].token /\ q.ask = request[r].ask
  BY RequestFacts DEF RequestStates
<1> HIDE DEF q
<1>3. RequestOK(q, lookup'[r])
  BY <1>2, RequestFacts DEF RequestOK
<1> QED BY <1>1, <1>2, <1>3 DEF RequestStep

\* The token of a request is read.
LEMMA ReadWithStep ==
  ASSUME AuthInv, NEW r \in Requests, request[r].at \in {"key", "refreshing"},
         UNCHANGED lookup, NEW key, ReadWith(r, key)
  PROVE  RequestStep(r) /\ refresh' \in [Refreshers -> RefreshStates]
<1>1. /\ lookup'[r].at = "idle" /\ request[r].at \notin {"idle", "refused"}
      /\ request[r].ask \in Asks
  BY RequestFacts DEF RequestOK
<1>2. Themselves(request[r].ask.names) \in SUBSET Pairs
  BY <1>1, ThemselvesType, AuthProxyAssumption
<1>3. CASE Authenticated(r) /\ UNCHANGED refresh
  <2>a. refresh' \in [Refreshers -> RefreshStates]
    BY <1>3 DEF AuthInv, TypeOK, KeysTypeOK
  <2>1. CASE Forward(r, Themselves(request[r].ask.names))
    BY <1>1, <1>2, <2>a, <2>1, ForwardStep
  <2>2. CASE request' = [request EXCEPT ![r].at = "authorize",
                                        ![r].todo = Themselves(request[r].ask.names)]
    BY <1>1, <1>2, <2>a, <2>2, ToAuthorizeStep
  <2>3. CASE Goto(r, "related") \/ Goto(r, "meta")
    BY <1>1, <2>a, <2>3, GotoStep
  <2> QED BY <1>3, <2>1, <2>2, <2>3 DEF Authenticated
<1>4. CASE Refuse(r) /\ UNCHANGED refresh
  BY <1>1, <1>4, RefuseStep DEF AuthInv, TypeOK, KeysTypeOK
<1>5. CASE Refuse(r) /\ \E b \in Background : CallRefresh(b)
  BY <1>1, <1>5, RefuseStep, CallRefreshType, AuthProxyAssumption DEF AuthInv, TypeOK
<1> QED BY <1>3, <1>4, <1>5 DEF ReadWith

\* What a handler does before anything is looked up.
LEMMA HandleStep ==
  ASSUME AuthInv, NEW r \in Requests, UNCHANGED lookup,
         Arrive(r) \/ LoadKey(r) \/ LoadKeyAgain(r)
  PROVE  RequestStep(r) /\ refresh' \in [Refreshers -> RefreshStates]
<1>1. CASE Arrive(r)
  <2>1. PICK t \in Tokens, ask \in Asks :
          request' = [request EXCEPT ![r] =
                        [NoRequest EXCEPT !.at = "key", !.token = t, !.ask = ask]]
    BY <1>1 DEF Arrive
  <2> DEFINE q == [NoRequest EXCEPT !.at = "key", !.token = t, !.ask = ask]
  <2>2. q \in RequestStates /\ q.at = "key" /\ q.token = t /\ q.ask = ask
    BY DEF NoRequest, RequestStates
  <2>3. lookup'[r].at = "idle"
    BY <1>1, RequestFacts DEF Arrive, RequestOK
  <2> HIDE DEF q
  <2>4. RequestOK(q, lookup'[r])
    BY <2>2, <2>3 DEF RequestOK
  <2> QED BY <1>1, <2>1, <2>2, <2>4
          DEF q, Arrive, keyVars, RequestStep, AuthInv, TypeOK, KeysTypeOK
<1>2. CASE LoadKey(r)
  <2>1. lookup'[r].at = "idle" /\ request[r].at = "key"
    BY <1>2, RequestFacts DEF LoadKey, RequestOK
  <2>2. CASE Refuse(r) /\ UNCHANGED refresh
    BY <2>1, <2>2, RefuseStep DEF AuthInv, TypeOK, KeysTypeOK
  <2>3. CASE ReadWith(r, publicKeys[request[r].token.kid])
    BY <2>1, <2>3, ReadWithStep
  <2>4. CASE CallRefresh(r) /\ Goto(r, "refreshing")
    <3>1. RequestStep(r)
      BY <2>1, <2>4, GotoStep
    <3> QED BY <2>4, <3>1, CallRefreshType, RequestFacts DEF AuthInv, TypeOK
  <2> QED BY <1>2, <2>2, <2>3, <2>4 DEF LoadKey
<1>3. CASE LoadKeyAgain(r)
  BY <1>3, ReadWithStep DEF LoadKeyAgain
<1> QED BY <1>1, <1>2, <1>3

\* A query is expanded.
LEMMA ExpandStep ==
  ASSUME AuthInv, NEW r \in Requests, NEW related \in SUBSET Pairs, Expand(r, related)
  PROVE  RequestStep(r) /\ UNCHANGED <<keyVars, cacheVars, history>>
<1>1. /\ lookup'[r].at = "idle" /\ request[r].at \notin {"idle", "refused"}
      /\ request[r].ask \in Asks
  BY RequestFacts DEF RequestOK, Expand, cacheVars
<1> DEFINE all == related \cup Themselves(request[r].ask.names)
<1>2. all \in SUBSET Pairs
  BY <1>1, ThemselvesType, AuthProxyAssumption
<1>3. \/ Forward(r, all)
      \/ request' = [request EXCEPT ![r].at = "authorize", ![r].todo = all]
  BY DEF Expand
<1> HIDE DEF all
<1> QED BY <1>1, <1>2, <1>3, ForwardStep, ToAuthorizeStep DEF Expand

\* The apps of the names are pairs of a name and a source.
LEMMA RelatedType ==
  ASSUME AuthInv, NEW r \in Requests, request[r].at = "related"
  PROVE  RelatedSourceIds(request[r].token.user, request[r].ask.names) \in SUBSET Pairs
<1>1. request[r].ask \in Asks
  BY RequestFacts DEF RequestOK
<1>2. request[r].ask.names \in SUBSET (Sources \cup AppNames)
  BY <1>1, AuthProxyAssumption
<1>3. Apps \subseteq Sources
  BY DEF Sources
<1> QED BY <1>2, <1>3 DEF RelatedSourceIds, Pairs

\* The next source id is looked up, what was found is taken, and the meta
\* information is filtered.
LEMMA LookUpStep ==
  ASSUME AuthInv, NEW r \in Requests,
         Authorize(r) \/ Authorized(r) \/ FetchMeta(r) \/ OnlyAuthorized(r)
  PROVE  /\ RequestStep(r)
         /\ \E k : lookup' = [lookup EXCEPT ![r] = k] /\ Sound(k)
<1>1. /\ request[r] \in RequestStates /\ RequestOK(request[r], lookup[r])
      /\ lookup[r] \in LookupStates /\ LookupOK(lookup[r])
      /\ lookup \in [Callers -> LookupStates] /\ r \in Callers
  BY RequestFacts, Facts
<1>2. /\ request[r].at \in {"authorize", "meta", "filter"}
      /\ request[r].token \in Tokens /\ request[r].ask \in Asks
      /\ request[r].token.user \in Users
  BY <1>1, AuthProxyAssumption DEF RequestOK, Authorize, Authorized, FetchMeta, OnlyAuthorized
<1>3. CASE Authorize(r)
  <2>1. PICK p \in request[r].todo :
          /\ IsAuthorized(r, request[r].token.user, p[2])
          /\ request' = [request EXCEPT ![r].name = p[1]]
    BY <1>3 DEF Authorize
  <2>2. p[1] \in Sources \cup AppNames /\ p[2] \in Sources \cup AppNames
    BY <1>1 DEF RequestStates, Pairs
  <2>3. \E k : lookup' = [lookup EXCEPT ![r] = k] /\ Sound(k)
    BY <1>1, <1>2, <2>1, <2>2, IsAuthorizedStep
  <2> DEFINE q == [request[r] EXCEPT !.name = p[1]]
  <2>4. request' = [request EXCEPT ![r] = q]
    BY <2>1, RequestFacts
  <2>5. /\ q \in RequestStates /\ q.name = p[1] /\ q.at = "authorize"
        /\ q.token = request[r].token /\ q.ask = request[r].ask
    BY <1>1, <1>3, <2>2 DEF RequestStates, Authorize
  <2> HIDE DEF q
  <2>6. RequestOK(q, lookup'[r])
    BY <1>2, <2>2, <2>5 DEF RequestOK
  <2> QED BY <2>3, <2>4, <2>5, <2>6 DEF RequestStep
<1>4. CASE Authorized(r)
  <2> DEFINE n == request[r].name
             p == <<n, lookup[r].sourceId>>
             todo == request[r].todo \ {p}
             allowed == request[r].allowed \cup
                        (IF lookup[r].isAuthorized THEN {p} ELSE {})
  <2>1. /\ lookup' = [lookup EXCEPT ![r] = NotLooking]
        /\ request[r].at = "authorize" /\ lookup[r].at = "done"
    BY <1>4 DEF Authorized
  <2>2. lookup'[r].at = "idle" /\ Sound(NotLooking)
    BY <1>1, <2>1, NotLookingStep
  <2>3. n \in Sources \cup AppNames
    BY <1>1, <2>1 DEF RequestOK
  <2>4. todo \in SUBSET Pairs /\ allowed \in SUBSET Pairs
    <3>1. lookup[r].isAuthorized => p \in Pairs
      BY <1>1, <2>3 DEF LookupOK, Pairs
    <3> HIDE DEF p
    <3> QED BY <1>1, <3>1 DEF RequestStates
  <2>5. \/ Refuse(r) \/ Forward(r, allowed)
        \/ \E name \in {NoName, n} :
             request' = [request EXCEPT ![r].todo = todo, ![r].allowed = allowed,
                                        ![r].name = name]
    BY <1>4 DEF Authorized
  <2> HIDE DEF todo, allowed
  <2>6. CASE Refuse(r)
    BY <2>1, <2>2, <2>6, RefuseStep
  <2>7. CASE Forward(r, allowed)
    BY <2>1, <2>2, <2>4, <2>7, ForwardStep
  <2>8. CASE \E name \in {NoName, n} :
               request' = [request EXCEPT ![r].todo = todo, ![r].allowed = allowed,
                                          ![r].name = name]
    <3>1. PICK name \in {NoName, n} :
            request' = [request EXCEPT ![r].todo = todo, ![r].allowed = allowed,
                                       ![r].name = name]
      BY <2>8
    <3> DEFINE q == [request[r] EXCEPT !.todo = todo, !.allowed = allowed, !.name = name]
    <3>2. request' = [request EXCEPT ![r] = q]
      BY <3>1, RequestFacts
    <3>3. /\ q \in RequestStates /\ q.at = "authorize"
          /\ q.token = request[r].token /\ q.ask = request[r].ask
      BY <1>1, <2>1, <2>3, <2>4 DEF RequestStates
    <3> HIDE DEF q
    <3>4. RequestOK(q, lookup'[r])
      BY <1>2, <2>2, <3>3 DEF RequestOK
    <3>5. RequestStep(r)
      BY <3>2, <3>3, <3>4 DEF RequestStep
    <3> QED BY <2>1, <2>2, <3>5
  <2> QED BY <2>5, <2>6, <2>7, <2>8
<1>5. CASE FetchMeta(r)
  <2>1. request[r].at = "meta" /\ lookup[r].at = "idle"
    BY <1>1, <1>5 DEF FetchMeta, RequestOK
  <2>2. CASE Forward(r, Themselves(Sources)) /\ UNCHANGED lookup
    <3>1. Themselves(Sources) \in SUBSET Pairs
      BY ThemselvesType
    <3>2. RequestStep(r)
      BY <2>1, <2>2, <3>1, ForwardStep
    <3>3. lookup' = [lookup EXCEPT ![r] = lookup[r]] /\ Sound(lookup[r])
      BY <1>1, <2>1, <2>2, Facts DEF Sound, AnswerRecent
    <3> QED BY <3>2, <3>3
  <2>3. CASE Goto(r, "filter") /\ ListSources(r, request[r].token.user)
    BY <1>1, <1>2, <2>1, <2>3, GotoStep, ListSourcesStep
  <2> QED BY <1>5, <2>2, <2>3 DEF FetchMeta
<1>6. CASE OnlyAuthorized(r)
  <2>1. /\ lookup' = [lookup EXCEPT ![r] = NotLooking] /\ request[r].at = "filter"
        /\ Forward(r, Themselves(lookup[r].sourceIds))
    BY <1>6 DEF OnlyAuthorized
  <2>2. lookup'[r].at = "idle" /\ Sound(NotLooking)
    BY <1>1, <2>1, NotLookingStep
  <2>3. lookup[r].sourceIds \in SUBSET (Sources \cup AppNames)
    BY <1>1 DEF LookupStates
  <2>4. RequestStep(r)
    BY <2>1, <2>2, <2>3, ThemselvesType, ForwardStep
  <2> QED BY <2>1, <2>2, <2>4
<1> QED BY <1>3, <1>4, <1>5, <1>6

-----------------------------------------------------------------------------
(* Steps *)

\* What AuthInv says of the caches and of lookups, and that answers are recent.
CachesSound ==
  /\ CacheTypeOK'
  /\ \A c \in Callers : LookupOK(lookup[c])'
  /\ Recent'
  /\ \A r \in Requests :
       lookup[r].at # "done" /\ lookup'[r].at = "done" => AnswerRecent(lookup'[r])

\* Nothing happens to the caches.
LEMMA CachesSame ==
  ASSUME AuthInv, UNCHANGED cacheVars, UNCHANGED unlisted
  PROVE  CachesSound
BY DEF CachesSound, AuthInv, TypeOK, CacheTypeOK, cacheVars, LookupOK, Recent,
   EntryRecent, LookupRecent

\* A lookup goes on.
LEMMA CachesStep ==
  ASSUME AuthInv, UNCHANGED <<permitted, unlisted>>,
         NEW c \in Callers, \E k : lookup' = [lookup EXCEPT ![c] = k] /\ Sound(k),
         tokenCache' \in [Users -> CacheEntries \cup {NoEntry}],
         \A u \in Users : EntryRecent(u, tokenCache'[u]),
         doomed' \in [expired : SUBSET Users, deleting : SUBSET Users]
  PROVE  /\ CachesSound
         /\ \A d \in Callers \ {c} : lookup'[d] = lookup[d]
<1>1. PICK k : lookup' = [lookup EXCEPT ![c] = k] /\ Sound(k)
  OBVIOUS
<1>2. /\ lookup' \in [Callers -> LookupStates] /\ lookup'[c] = k
      /\ \A d \in Callers \ {c} : lookup'[d] = lookup[d]
  BY <1>1, Facts DEF Sound
<1>3. CacheTypeOK'
  BY <1>2 DEF AuthInv, TypeOK, CacheTypeOK
<1>4. \A d \in Callers : LookupOK(lookup'[d]) /\ LookupRecent(lookup'[d])
  BY <1>1, <1>2, Facts DEF Sound
<1>5. \A d \in Callers : LookupOK(lookup[d])'
  BY <1>4 DEF LookupOK
<1>6. Recent'
  BY <1>4 DEF AuthInv, Recent, EntryRecent, LookupRecent
<1>7. \A r \in Requests :
        lookup[r].at # "done" /\ lookup'[r].at = "done" => AnswerRecent(lookup'[r])
  BY <1>1, <1>2, AuthProxyAssumption DEF Sound
<1> QED BY <1>2, <1>3, <1>5, <1>6, <1>7 DEF CachesSound

\* A handler goes on.
LEMMA RequestsStep ==
  ASSUME AuthInv, NEW r \in Requests, RequestStep(r),
         \A d \in Requests \ {r} : lookup'[d] = lookup[d]
  PROVE  /\ request' \in [Requests -> RequestStates]
         /\ \A d \in Requests : RequestOK(request[d], lookup[d])'
<1>1. PICK q \in RequestStates :
        request' = [request EXCEPT ![r] = q] /\ RequestOK(q, lookup'[r])
  BY DEF RequestStep
<1>2. \A d \in Requests : RequestOK(request'[d], lookup'[d])
  BY <1>1, RequestFacts
<1> QED BY <1>1, <1>2, RequestFacts DEF RequestOK

\* What else changes.
LEMMA Assemble ==
  ASSUME KeysTypeOK', CachesSound,
         request' \in [Requests -> RequestStates],
         \A d \in Requests : RequestOK(request[d], lookup[d])',
         unlisted' \in [Users -> [Sources -> 0 .. Staleness]],
         dropped' \subseteq Kids, faults' \in 0 .. MaxFaults
  PROVE  AuthInv'
BY DEF AuthInv, TypeOK, CachesSound

\* A step of a request.
LEMMA RequestInv ==
  ASSUME AuthInv, NEW r \in Requests,
         Arrive(r) \/ Handle(r) \/ LookUp(r) \/ CAPIFails(r) \/ MetaFails(r)
  PROVE  AuthInv' /\ CachesSound
<1>1. /\ faults \in 0 .. MaxFaults /\ (Fault => faults' \in 0 .. MaxFaults)
      /\ KeysTypeOK /\ dropped \subseteq Kids
      /\ unlisted \in [Users -> [Sources -> 0 .. Staleness]]
      /\ (UNCHANGED keyVars => KeysTypeOK')
  BY AuthProxyAssumption DEF AuthInv, TypeOK, Fault, KeysTypeOK, keyVars
<1>2. /\ request \in [Requests -> RequestStates] /\ r \in Callers
      /\ tokenCache \in [Users -> CacheEntries \cup {NoEntry}]
      /\ doomed \in [expired : SUBSET Users, deleting : SUBSET Users]
      /\ \A u \in Users : EntryRecent(u, tokenCache[u])
      /\ Requests \subseteq Callers
  BY AuthProxyAssumption DEF AuthInv, TypeOK, CacheTypeOK, Recent
<1>3. ASSUME Arrive(r) \/ LoadKey(r) \/ LoadKeyAgain(r)
      PROVE  AuthInv' /\ CachesSound
  <2>1. UNCHANGED <<uaaKeys, publicKeys, sinceQuery, cacheVars, unlisted, dropped, faults>>
    BY <1>3 DEF Arrive, LoadKey, LoadKeyAgain, keyVars, history
  <2>2. RequestStep(r) /\ refresh' \in [Refreshers -> RefreshStates]
    BY <1>3, <2>1, HandleStep DEF cacheVars
  <2>3. KeysTypeOK'
    BY <1>1, <2>1, <2>2 DEF KeysTypeOK
  <2>4. CachesSound
    BY <2>1, CachesSame
  <2> QED BY <1>1, <2>1, <2>2, <2>3, <2>4, RequestsStep, Assemble DEF cacheVars
<1>4. ASSUME RequestStep(r), UNCHANGED <<keyVars, cacheVars, history>>, faults' \in 0 .. MaxFaults
      PROVE  AuthInv' /\ CachesSound
  BY <1>1, <1>4, RequestsStep, CachesSame, Assemble DEF history, cacheVars
<1>5. ASSUME \E related \in SUBSET Pairs : Expand(r, related), faults' \in 0 .. MaxFaults
      PROVE  AuthInv' /\ CachesSound
  BY <1>4, <1>5, ExpandStep
<1>6. CASE ExpandNames(r)
  <2>1. request[r].at = "related" /\ UNCHANGED faults
    BY <1>6 DEF ExpandNames, Expand
  <2> QED BY <1>1, <1>5, <1>6, <2>1, RelatedType DEF ExpandNames
<1>7. CASE MetaFails(r)
  <2>1. lookup'[r].at = "idle" /\ Refuse(r) /\ UNCHANGED <<keyVars, cacheVars, history>>
    BY <1>7, RequestFacts DEF MetaFails, RequestOK, cacheVars
  <2>2. RequestStep(r)
    BY <2>1, RefuseStep
  <2> QED BY <1>1, <1>4, <1>7, <2>1, <2>2 DEF MetaFails
<1>8. CASE Authorize(r) \/ Authorized(r) \/ FetchMeta(r) \/ OnlyAuthorized(r)
  <2>1. UNCHANGED <<keyVars, permitted, tokenCache, doomed, unlisted, dropped, faults>>
    BY <1>8 DEF Authorize, Authorized, FetchMeta, OnlyAuthorized, history
  <2>2. RequestStep(r) /\ \E k : lookup' = [lookup EXCEPT ![r] = k] /\ Sound(k)
    BY <1>8, LookUpStep
  <2>3. CachesSound /\ \A d \in Callers \ {r} : lookup'[d] = lookup[d]
    BY <1>2, <2>1, <2>2, CachesStep
  <2>4. \A d \in Requests \ {r} : lookup'[d] = lookup[d]
    BY <1>2, <2>3
  <2> QED BY <1>1, <2>1, <2>2, <2>3, <2>4, RequestsStep, Assemble
<1>9. ASSUME LookUp(r) \/ ListingFails(r), UNCHANGED <<keyVars, request, unlisted, dropped>>,
             faults' \in 0 .. MaxFaults
      PROVE  AuthInv' /\ CachesSound
  <2>1. /\ \E k : lookup' = [lookup EXCEPT ![r] = k] /\ Sound(k)
        /\ tokenCache' \in [Users -> CacheEntries \cup {NoEntry}]
        /\ \A u \in Users : EntryRecent(u, tokenCache'[u])
        /\ doomed' \in [expired : SUBSET Users, deleting : SUBSET Users]
        /\ UNCHANGED permitted /\ lookup[r].at # "idle"
    <3>1. CASE StoreSourceIds(r)
      BY <1>2, <3>1, StoreStep DEF StoreSourceIds
    <3>2. CASE ListsApps(r) \/ ListsServiceInstances(r) \/ ListingFails(r)
      BY <1>2, <3>2, ListingStep DEF ListsApps, ListsServiceInstances, ListingFails
    <3> QED BY <1>9, <3>1, <3>2 DEF LookUp
  <2>2. CachesSound /\ \A d \in Callers \ {r} : lookup'[d] = lookup[d]
    BY <1>2, <1>9, <2>1, CachesStep
  <2>3. \A d \in Requests : lookup'[d].at # "idle" => lookup[d].at # "idle"
    BY <1>2, <2>1, <2>2
  <2>4. \A d \in Requests : RequestOK(request[d], lookup[d])'
    BY <1>9, <2>3, RequestFacts DEF RequestOK
  <2> QED BY <1>1, <1>2, <1>9, <2>2, <2>4, Assemble
<1>10. CASE LookUp(r)
  BY <1>1, <1>9, <1>10 DEF LookUp, history
<1>11. CASE CAPIFails(r)
  <2>1. faults' \in 0 .. MaxFaults
    BY <1>1, <1>11 DEF CAPIFails
  <2>2. CASE Expand(r, {})
    BY <1>5, <2>1, <2>2
  <2>3. CASE ListingFails(r) /\ UNCHANGED <<keyVars, request, history>>
    BY <1>9, <2>1, <2>3 DEF history
  <2> QED BY <1>11, <2>2, <2>3 DEF CAPIFails
<1> QED BY <1>3, <1>6, <1>7, <1>8, <1>10, <1>11 DEF Handle

\* A refresh goes on, fails, or a key is rotated.
LEMMA KeysInv ==
  ASSUME AuthInv, UNCHANGED <<cacheVars, request, unlisted>>, KeysTypeOK',
         dropped' \subseteq Kids, faults' \in 0 .. MaxFaults
  PROVE  AuthInv' /\ CachesSound
<1>1. CachesSound
  BY CachesSame
<1>2. \A d \in Requests : RequestOK(request[d], lookup[d])'
  BY RequestFacts DEF RequestOK, cacheVars
<1> QED BY <1>1, <1>2, Assemble DEF AuthInv, TypeOK

\* The pruner goes on. What it deletes is gone, whatever it was.
LEMMA PruneInv ==
  ASSUME AuthInv, Prune
  PROVE  AuthInv' /\ CachesSound
<1>1. /\ doomed \in [expired : SUBSET Users, deleting : SUBSET Users]
      /\ tokenCache \in [Users -> CacheEntries \cup {NoEntry}]
      /\ lookup \in [Callers -> LookupStates]
      /\ \A u \in Users : EntryRecent(u, tokenCache[u])
  BY DEF AuthInv, TypeOK, CacheTypeOK, Recent
<1>2. UNCHANGED <<keyVars, request, unlisted, dropped, faults, permitted, lookup>>
  BY DEF Prune, BeginPrune, VisitExpired, DeleteExpired, history
<1>3. /\ doomed' \in [expired : SUBSET Users, deleting : SUBSET Users]
      /\ tokenCache' \in [Users -> CacheEntries \cup {NoEntry}]
      /\ \A u \in Users : tokenCache'[u] \in {tokenCache[u], NoEntry}
  <2>1. CASE BeginPrune
    BY <1>1, <2>1 DEF BeginPrune
  <2>2. CASE VisitExpired
    BY <1>1, <2>2 DEF VisitExpired
  <2>3. CASE DeleteExpired
    BY <1>1, <2>3 DEF DeleteExpired
  <2> QED BY <2>1, <2>2, <2>3 DEF Prune
<1>4. \A u \in Users : EntryRecent(u, tokenCache'[u])
  BY <1>1, <1>3 DEF EntryRecent
<1>5. CachesSound
  <2>1. CacheTypeOK'
    BY <1>2, <1>3 DEF AuthInv, TypeOK, CacheTypeOK
  <2>2. Recent' /\ \A c \in Callers : LookupOK(lookup[c])'
    BY <1>2, <1>4 DEF AuthInv, Recent, EntryRecent, LookupRecent, LookupOK
  <2> QED BY <1>2, <2>1, <2>2 DEF CachesSound
<1>6. \A d \in Requests : RequestOK(request[d], lookup[d])'
  BY <1>2, RequestFacts DEF RequestOK
<1> QED BY <1>2, <1>5, <1>6, Assemble DEF AuthInv, TypeOK, KeysTypeOK, keyVars

\* CAPI begins or ends to list a source.
LEMMA PermitInv ==
  ASSUME AuthInv, Permit
  PROVE  AuthInv' /\ CachesSound
<1>1. PICK u \in Users, s \in Sources :
        /\ ChangePermissions(u, s)
        /\ unlisted' = [unlisted EXCEPT ![u][s] = 0]
  BY DEF Permit
<1>2. /\ UNCHANGED <<tokenCache, lookup, doomed, keyVars, request, dropped>>
      /\ faults' \in 0 .. MaxFaults
  BY <1>1, AuthProxyAssumption DEF Permit, ChangePermissions, Fault, AuthInv, TypeOK
<1>3. /\ permitted \in [Users -> SUBSET Sources]
      /\ unlisted \in [Users -> [Sources -> 0 .. Staleness]]
  BY DEF AuthInv, TypeOK, CacheTypeOK
<1>4. /\ permitted' \in [Users -> SUBSET Sources]
      /\ \A v \in Users : permitted'[v] \subseteq permitted[v] \cup {s}
      /\ \A v \in Users : v # u => permitted'[v] = permitted[v]
  BY <1>1, <1>3 DEF ChangePermissions
<1>5. 0 \in 0 .. Staleness
  BY Facts
<1>6. /\ unlisted' \in [Users -> [Sources -> 0 .. Staleness]]
      /\ unlisted'[u][s] = 0
      /\ \A v \in Users, x \in Sources : unlisted'[v][x] \in {0, unlisted[v][x]}
      /\ \A v \in Users, x \in Sources : v # u \/ x # s => unlisted'[v][x] = unlisted[v][x]
  BY <1>1, <1>3, <1>5
<1>7. \A m \in Nat, v \in Users, x \in Sources : unlisted[v][x] <= m => unlisted'[v][x] <= m
  BY <1>6
<1>8. \A v \in Users : \A x \in permitted'[v] : unlisted'[v][x] = 0
  BY <1>3, <1>4, <1>6, Facts DEF AuthInv, Recent
<1>9. \A v \in Users : EntryRecent(v, tokenCache[v])'
  <2> SUFFICES ASSUME NEW v \in Users, tokenCache[v] # NoEntry, NEW x \in tokenCache[v].sourceIds
               PROVE  unlisted'[v][x] <=
                        CAPITimeout + CacheExpirationInterval - tokenCache[v].ttl
    BY <1>2 DEF EntryRecent
  <2>1. /\ x \in Sources /\ tokenCache[v].ttl \in -1 .. CacheExpirationInterval
        /\ unlisted[v][x] <= CAPITimeout + CacheExpirationInterval - tokenCache[v].ttl
    BY DEF AuthInv, TypeOK, CacheTypeOK, CacheEntries, Recent, EntryRecent
  <2>2. CAPITimeout + CacheExpirationInterval - tokenCache[v].ttl \in Nat
    BY <2>1, Facts
  <2> QED BY <1>7, <2>1, <2>2
<1>10. ASSUME NEW c \in Callers
       PROVE  LookupRecent(lookup[c])' /\ LookupOK(lookup[c])'
  <2>1. /\ lookup[c] \in LookupStates /\ LookupOK(lookup[c]) /\ LookupRecent(lookup[c])
        /\ CAPITimeout \in Nat
    BY Facts
  <2>2. /\ lookup[c].flight \in Nat /\ lookup[c].sourceIds \in SUBSET Sources
        /\ lookup[c].at \in {"services", "store"} => lookup[c].user \in Users
    BY <2>1 DEF LookupStates, LookupOK
  <2>3. LookupRecent(lookup[c])'
    BY <1>2, <1>7, <2>1, <2>2 DEF LookupRecent
  <2> QED BY <1>2, <2>1, <2>3 DEF LookupOK
<1>11. CachesSound
  <2>1. CacheTypeOK'
    BY <1>2, <1>4 DEF AuthInv, TypeOK, CacheTypeOK
  <2> QED BY <1>2, <1>8, <1>9, <1>10, <2>1 DEF CachesSound, Recent
<1>12. \A d \in Requests : RequestOK(request[d], lookup[d])'
  BY <1>2, RequestFacts DEF RequestOK
<1> QED BY <1>2, <1>6, <1>11, <1>12, Assemble DEF AuthInv, TypeOK, KeysTypeOK, keyVars

\* Time passes: what is not listed, listings and entries grow older together.
LEMMA TickInv ==
  ASSUME AuthInv, Tick
  PROVE  AuthInv' /\ CachesSound
<1>1. /\ KeysTypeOK' /\ UNCHANGED <<permitted, doomed, dropped, faults>>
  BY KeysTickType DEF Tick, CacheTick, AuthInv, TypeOK
<1>2. /\ unlisted' \in [Users -> [Sources -> 0 .. Staleness]]
      /\ \A u \in Users, s \in Sources : unlisted'[u][s] <= unlisted[u][s] + 1
      /\ \A u \in Users : \A s \in permitted[u] : unlisted'[u][s] = 0
  BY Facts DEF Tick
<1>3. ASSUME NEW c \in Callers
      PROVE  /\ lookup'[c] \in LookupStates /\ lookup'[c].at = lookup[c].at
             /\ LookupOK(lookup[c])' /\ LookupRecent(lookup[c])'
  <2>1. /\ lookup[c] \in LookupStates /\ LookupOK(lookup[c]) /\ LookupRecent(lookup[c])
    BY Facts
  <2>2. CASE Listing(c)
    <3> DEFINE k == [lookup[c] EXCEPT !.flight = @ + 1]
    <3>1. lookup'[c] = k
      BY <2>2 DEF Tick, CacheTick
    <3>2. lookup[c].flight + 1 \in 0 .. CAPITimeout
      BY <2>1, <2>2, Facts DEF Tick, CacheMayTick, Listing, LookupStates
    <3>3. /\ k \in LookupStates /\ k.at = lookup[c].at /\ k.user = lookup[c].user
          /\ k.sourceIds = lookup[c].sourceIds /\ k.flight = lookup[c].flight + 1
          /\ k.sourceId = lookup[c].sourceId /\ k.isAuthorized = lookup[c].isAuthorized
      BY <2>1, <3>2 DEF LookupStates
    <3> HIDE DEF k
    <3>4. LookupOK(lookup[c])'
      BY <2>1, <3>1, <3>3 DEF LookupOK
    <3>5. /\ lookup[c].user \in Users /\ lookup[c].sourceIds \in SUBSET Sources
          /\ lookup[c].flight \in Nat /\ lookup[c].at # "store"
      BY <2>1, <2>2 DEF Listing, LookupOK, LookupStates
    <3>6. LookupRecent(lookup[c])'
      BY <1>2, <2>1, <3>1, <3>3, <3>5, Facts DEF LookupRecent
    <3> QED BY <3>1, <3>3, <3>4, <3>6
  <2>3. CASE ~Listing(c)
    <3>1. lookup'[c] = lookup[c] /\ lookup[c].at = "idle"
      BY <2>3 DEF Tick, CacheTick, CacheMayTick
    <3> QED BY <2>1, <3>1 DEF LookupOK, LookupRecent
  <2> QED BY <2>2, <2>3
<1>4. ASSUME NEW u \in Users
      PROVE  /\ tokenCache'[u] \in CacheEntries \cup {NoEntry}
             /\ EntryRecent(u, tokenCache[u])'
  <2> DEFINE entry == tokenCache[u]
  <2>1. /\ entry \in CacheEntries \cup {NoEntry} /\ EntryRecent(u, entry)
        /\ tokenCache'[u] = IF entry = NoEntry \/ entry.ttl < 0 THEN entry
                            ELSE [entry EXCEPT !.ttl = @ - 1]
    BY DEF Tick, CacheTick, AuthInv, TypeOK, CacheTypeOK, Recent
  <2> HIDE DEF entry
  <2>2. CASE entry = NoEntry
    BY <2>1, <2>2 DEF EntryRecent
  <2>3. CASE entry # NoEntry /\ entry.ttl < 0
    <3>1. /\ tokenCache'[u] = entry /\ entry \in CacheEntries
          /\ entry.ttl = -1 /\ entry.sourceIds \in SUBSET Sources
      BY <2>1, <2>3, Facts DEF CacheEntries
    <3>2. \A s \in entry.sourceIds :
            unlisted'[u][s] <= CAPITimeout + CacheExpirationInterval - entry.ttl
      BY <1>2, <3>1, Facts
    <3> QED BY <3>1, <3>2 DEF EntryRecent
  <2>4. CASE entry # NoEntry /\ ~(entry.ttl < 0)
    <3> DEFINE e == [entry EXCEPT !.ttl = @ - 1]
    <3>1. /\ tokenCache'[u] = e /\ entry \in CacheEntries
          /\ entry.ttl \in 0 .. CacheExpirationInterval /\ entry.sourceIds \in SUBSET Sources
      BY <2>1, <2>4, Facts DEF CacheEntries
    <3>2. entry.ttl - 1 \in -1 .. CacheExpirationInterval
      BY <3>1, Facts
    <3>3. e \in CacheEntries /\ e.ttl = entry.ttl - 1 /\ e.sourceIds = entry.sourceIds
      BY <3>1, <3>2 DEF CacheEntries
    <3> HIDE DEF e
    <3>4. \A s \in entry.sourceIds :
            unlisted'[u][s] <= CAPITimeout + CacheExpirationInterval - e.ttl
      BY <1>2, <2>1, <2>4, <3>1, <3>3, Facts DEF EntryRecent
    <3> QED BY <3>1, <3>3, <3>4 DEF EntryRecent
  <2> QED BY <2>1, <2>2, <2>3, <2>4
<1>5. CachesSound
  <2>1. CacheTypeOK'
    BY <1>1, <1>3, <1>4 DEF Tick, CacheTick, AuthInv, TypeOK, CacheTypeOK
  <2>2. Recent'
    BY <1>1, <1>2, <1>3, <1>4 DEF Recent
  <2> QED BY <1>3, <2>1, <2>2, AuthProxyAssumption DEF CachesSound
<1>6. ASSUME NEW r \in Requests
      PROVE  request'[r] \in RequestStates /\ RequestOK(request[r], lookup[r])'
  <2>1. /\ request'[r] = IF request[r].at \in {"forwarded", "refused"} THEN NoRequest
                         ELSE request[r]
        /\ lookup'[r].at = lookup[r].at
    BY <1>3, RequestFacts DEF Tick
  <2>2. NoRequest \in RequestStates /\ NoRequest.at = "idle"
    BY DEF NoRequest, RequestStates
  <2> QED BY <2>1, <2>2, RequestFacts DEF RequestOK
<1>7. request' \in [Requests -> RequestStates]
  BY <1>6 DEF Tick
<1> QED BY <1>1, <1>2, <1>5, <1>6, <1>7, Assemble DEF AuthInv, TypeOK

\* Every step keeps AuthInv, and what it answers is recent.
LEMMA NextInv ==
  ASSUME AuthInv, [Next]_vars
  PROVE  AuthInv' /\ CachesSound
<1>1. /\ KeysTypeOK /\ dropped \subseteq Kids /\ faults \in 0 .. MaxFaults
      /\ (Fault => faults' \in 0 .. MaxFaults)
  BY AuthProxyAssumption DEF AuthInv, TypeOK, Fault
<1>2. ASSUME NEW p \in Refreshers, RefreshKeys(p)
      PROVE  AuthInv' /\ CachesSound
  BY <1>1, <1>2, RefreshType, KeysInv DEF RefreshKeys, history
<1>3. CASE RefreshFails
  BY <1>1, <1>3, RefreshType, KeysInv DEF RefreshFails, history
<1>4. CASE Rotate
  <2>1. PICK k \in Kids, key \in Keys \cup {NoKey, Malformed} :
          /\ RotateKey(k, key)
          /\ dropped' = IF key = NoKey THEN dropped \cup {k} ELSE dropped
    BY <1>4 DEF Rotate
  <2>2. KeysTypeOK'
    BY <1>1, <2>1 DEF RotateKey, KeysTypeOK
  <2> QED BY <1>1, <1>4, <2>1, <2>2, KeysInv DEF Rotate
<1>5. CASE UNCHANGED vars
  BY <1>1, <1>5, KeysInv DEF vars, keyVars, history, KeysTypeOK
<1> QED BY <1>2, <1>3, <1>4, <1>5, RequestInv, PruneInv, PermitInv, TickInv DEF Next

\* At the start nothing is cached or looked up.
LEMMA InitInv == Init => AuthInv
<1> SUFFICES ASSUME Init PROVE AuthInv
  OBVIOUS
<1>1. KeysTypeOK
  BY NotRefreshingType, TokenKeysAssumption DEF Init, KeysInit, KeysTypeOK
<1>2. NotLooking \in LookupStates /\ NotLooking.at = "idle" /\ NotLooking.isAuthorized = FALSE
  BY NotLookingStep DEF Sound, NotLooking
<1>3. CacheTypeOK
  BY <1>2 DEF Init, CacheInit, CacheTypeOK
<1>4. NoRequest \in RequestStates /\ NoRequest.at = "idle"
  BY DEF NoRequest, RequestStates
<1>5. Staleness \in Nat /\ MaxFaults \in Nat
  BY SourceIdCacheAssumption, AuthProxyAssumption DEF Staleness
<1>6. TypeOK
  BY <1>1, <1>3, <1>4, <1>5 DEF Init, TypeOK
<1>7. Recent
  BY <1>2 DEF Init, CacheInit, Recent, EntryRecent, LookupRecent, CacheTypeOK
<1>8. /\ \A c \in Callers : LookupOK(lookup[c])
      /\ \A r \in Requests : RequestOK(request[r], lookup[r])
  BY <1>2, <1>4, AuthProxyAssumption DEF Init, CacheInit, LookupOK, RequestOK
<1> QED BY <1>6, <1>7, <1>8 DEF AuthInv

-----------------------------------------------------------------------------
(* Keys that stay *)

\* What an answer of UAA lacks, and what a refresh is going to delete, was once
\* not listed.
KeysSteady ==
  \A k \in Kids \ dropped :
    /\ uaaKeys[k] # NoKey
    /\ \A p \in Refreshers :
         /\ refresh[p].at = "answered" => refresh[p].tokenKeys[k] # NoKey
         /\ refresh[p].at = "prune" /\ k \in refresh[p].currentKeyIds =>
              refresh[p].tokenKeys[k] # NoKey

\* A refresh keeps what it knows, and takes no key away that was always listed.
LEMMA RefreshSteady ==
  ASSUME KeysTypeOK, KeysSteady, NEW p \in Refreshers, RefreshStep(p) \/ QueryFails(p),
         UNCHANGED dropped
  PROVE  /\ KeysSteady'
         /\ \A k \in Kids \ dropped : publicKeys[k] # NoKey => publicKeys'[k] # NoKey
<1>1. /\ refresh \in [Refreshers -> RefreshStates] /\ refresh[p] \in RefreshStates
      /\ publicKeys \in [Kids -> Keys \cup {NoKey}]
      /\ UNCHANGED uaaKeys
  BY DEF KeysTypeOK, RefreshStep, LoadQueryTime, SwapQueryTime, UAAAnswers, ReceiveKeys,
         StoreKey, DeleteKey, QueryFails
<1>2. ASSUME \A q \in Refreshers \ {p} :
               /\ refresh'[q].at = refresh[q].at
               /\ refresh'[q].tokenKeys = refresh[q].tokenKeys
               /\ refresh'[q].currentKeyIds = refresh[q].currentKeyIds,
             \A k \in Kids \ dropped :
               /\ refresh'[p].at = "answered" => refresh'[p].tokenKeys[k] # NoKey
               /\ refresh'[p].at = "prune" /\ k \in refresh'[p].currentKeyIds =>
                    refresh'[p].tokenKeys[k] # NoKey
      PROVE  KeysSteady'
  BY <1>1, <1>2 DEF KeysSteady
<1>3. ASSUME NEW r, refresh' = [refresh EXCEPT ![p] = r], r.at \notin {"answered", "prune"}
      PROVE  KeysSteady'
  BY <1>1, <1>2, <1>3
<1>4. NotRefreshing.at = "idle"
  BY DEF NotRefreshing
<1>5. CASE LoadQueryTime(p)
  <2>1. PICK r \in {NotRefreshing, [refresh[p] EXCEPT !.at = "loaded", !.current = TRUE]} :
          refresh' = [refresh EXCEPT ![p] = r]
    BY <1>1, <1>5 DEF LoadQueryTime
  <2>2. r.at \in {"idle", "loaded"}
    BY <1>1, <1>4 DEF RefreshStates
  <2> QED BY <1>3, <1>5, <2>1, <2>2 DEF LoadQueryTime
<1>6. CASE SwapQueryTime(p)
  <2>1. refresh'[p] = [refresh[p] EXCEPT !.at = "query", !.current = FALSE]
    BY <1>6 DEF SwapQueryTime
  <2>2. refresh'[p].at = "query"
    BY <1>1, <2>1 DEF RefreshStates
  <2>3. ASSUME NEW q \in Refreshers \ {p}
        PROVE  /\ refresh'[q].at = refresh[q].at
               /\ refresh'[q].tokenKeys = refresh[q].tokenKeys
               /\ refresh'[q].currentKeyIds = refresh[q].currentKeyIds
    <3>1. refresh'[q] = [refresh[q] EXCEPT !.current = @ /\ ~refresh[p].current]
      BY <1>6 DEF SwapQueryTime
    <3> QED BY <1>1, <3>1 DEF RefreshStates
  <2> QED BY <1>2, <1>6, <2>2, <2>3 DEF SwapQueryTime
<1>7. CASE UAAAnswers(p)
  <2> DEFINE r == [refresh[p] EXCEPT !.at = "answered", !.tokenKeys = uaaKeys]
  <2>1. refresh' = [refresh EXCEPT ![p] = r] /\ UNCHANGED publicKeys
    BY <1>1, <1>7 DEF UAAAnswers
  <2>2. r.at = "answered" /\ r.tokenKeys = uaaKeys
    BY <1>1 DEF RefreshStates
  <2> HIDE DEF r
  <2> QED BY <1>1, <1>2, <2>1, <2>2 DEF KeysSteady
<1>8. CASE ReceiveKeys(p)
  <2> DEFINE known == {k \in Kids : publicKeys[k] # NoKey}
             r == [refresh[p] EXCEPT !.at = "prune", !.flight = 0, !.currentKeyIds = known]
  <2>1. refresh' = [refresh EXCEPT ![p] = r] /\ UNCHANGED publicKeys /\ refresh[p].at = "answered"
    BY <1>1, <1>8 DEF ReceiveKeys
  <2>2. r.at = "prune" /\ r.tokenKeys = refresh[p].tokenKeys
    BY <1>1 DEF RefreshStates
  <2> HIDE DEF r
  <2> QED BY <1>1, <1>2, <2>1, <2>2 DEF KeysSteady
<1>9. CASE StoreKey(p)
  <2>1. PICK k \in Kids :
          /\ refresh[p].tokenKeys[k] # NoKey
          /\ \/ refresh' = [refresh EXCEPT ![p] = NotRefreshing] /\ UNCHANGED publicKeys
             \/ /\ publicKeys' = [publicKeys EXCEPT ![k] = refresh[p].tokenKeys[k]]
                /\ refresh' = [refresh EXCEPT ![p].tokenKeys[k] = NoKey,
                                              ![p].currentKeyIds = @ \ {k}]
    BY <1>9 DEF StoreKey
  <2>2. CASE refresh' = [refresh EXCEPT ![p] = NotRefreshing] /\ UNCHANGED publicKeys
    BY <1>3, <1>4, <2>2
  <2>3. CASE /\ publicKeys' = [publicKeys EXCEPT ![k] = refresh[p].tokenKeys[k]]
             /\ refresh' = [refresh EXCEPT ![p].tokenKeys[k] = NoKey,
                                           ![p].currentKeyIds = @ \ {k}]
    <3>1. /\ refresh'[p].at = "prune" /\ refresh[p].at = "prune"
          /\ refresh'[p].tokenKeys = [refresh[p].tokenKeys EXCEPT ![k] = NoKey]
          /\ refresh'[p].currentKeyIds = refresh[p].currentKeyIds \ {k}
          /\ \A q \in Refreshers \ {p} : refresh'[q] = refresh[q]
      BY <1>1, <1>9, <2>3 DEF RefreshStates, StoreKey
    <3>2. refresh[p].tokenKeys \in [Kids -> Keys \cup {NoKey, Malformed}]
      BY <1>1 DEF RefreshStates
    <3>3. KeysSteady'
      BY <1>2, <3>1, <3>2 DEF KeysSteady
    <3> QED BY <1>1, <2>1, <2>3, <3>3
  <2> QED BY <2>1, <2>2, <2>3
<1>10. CASE DeleteKey(p)
  <2>1. refresh[p].at = "prune" /\ \A k \in Kids : refresh[p].tokenKeys[k] = NoKey
    BY <1>10 DEF DeleteKey, NoResponse
  <2>2. CASE refresh' = [refresh EXCEPT ![p] = NotRefreshing] /\ UNCHANGED publicKeys
    BY <1>3, <1>4, <2>2
  <2>3. CASE \E k \in refresh[p].currentKeyIds :
               /\ publicKeys' = [publicKeys EXCEPT ![k] = NoKey]
               /\ refresh' = [refresh EXCEPT ![p].currentKeyIds = @ \ {k}]
    <3>1. PICK k \in refresh[p].currentKeyIds :
            /\ publicKeys' = [publicKeys EXCEPT ![k] = NoKey]
            /\ refresh' = [refresh EXCEPT ![p].currentKeyIds = @ \ {k}]
      BY <2>3
    <3>2. k \in dropped
      BY <1>1, <2>1 DEF KeysSteady, RefreshStates
    <3>3. /\ refresh'[p].at = "prune" /\ refresh'[p].tokenKeys = refresh[p].tokenKeys
          /\ refresh'[p].currentKeyIds = refresh[p].currentKeyIds \ {k}
          /\ \A q \in Refreshers \ {p} : refresh'[q] = refresh[q]
      BY <1>1, <2>1, <3>1 DEF RefreshStates
    <3>4. KeysSteady'
      BY <1>2, <2>1, <3>3 DEF KeysSteady
    <3> QED BY <1>1, <3>1, <3>2, <3>4
  <2> QED BY <1>10, <2>2, <2>3 DEF DeleteKey
<1>11. CASE QueryFails(p)
  BY <1>3, <1>4, <1>11 DEF QueryFails
<1> QED BY <1>5, <1>6, <1>7, <1>8, <1>9, <1>10, <1>11 DEF RefreshStep,
        LoadQueryTime, SwapQueryTime, UAAAnswers, ReceiveKeys, QueryFails

\* A call to RefreshTokenKeys changes nothing else.
LEMMA CallSteady ==
  ASSUME KeysTypeOK, KeysSteady, NEW p \in Refreshers, CallRefresh(p),
         UNCHANGED <<uaaKeys, publicKeys, dropped>>
  PROVE  KeysSteady'
<1>1. refresh'[p].at = "called" /\ \A q \in Refreshers \ {p} : refresh'[q] = refresh[q]
  BY DEF CallRefresh, KeysTypeOK, RefreshStates
<1> QED BY <1>1 DEF KeysSteady

\* Every step takes away no key that was always listed.
LEMMA NextSteady ==
  ASSUME AuthInv, KeysSteady, [Next]_vars
  PROVE  /\ KeysSteady'
         /\ \A k \in Kids \ dropped : publicKeys[k] # NoKey => publicKeys'[k] # NoKey
<1>1. KeysTypeOK
  BY DEF AuthInv, TypeOK
<1>2. ASSUME UNCHANGED <<keyVars, dropped>>
      PROVE  /\ KeysSteady'
             /\ \A k \in Kids \ dropped : publicKeys[k] # NoKey => publicKeys'[k] # NoKey
  BY <1>2 DEF KeysSteady, keyVars
<1>3. ASSUME NEW r \in Requests, LoadKey(r) \/ LoadKeyAgain(r)
      PROVE  /\ KeysSteady'
             /\ \A k \in Kids \ dropped : publicKeys[k] # NoKey => publicKeys'[k] # NoKey
  <2>1. UNCHANGED <<uaaKeys, publicKeys, sinceQuery, dropped>>
    BY <1>3 DEF LoadKey, LoadKeyAgain, history
  <2>2. UNCHANGED refresh \/ \E p \in Refreshers : CallRefresh(p)
    BY <1>3, AuthProxyAssumption DEF LoadKey, LoadKeyAgain, ReadWith
  <2> QED BY <1>1, <1>2, <2>1, <2>2, CallSteady DEF keyVars
<1>4. ASSUME NEW r \in Requests,
             Arrive(r) \/ ExpandNames(r) \/ Authorize(r) \/ Authorized(r) \/ FetchMeta(r)
               \/ OnlyAuthorized(r) \/ LookUp(r) \/ CAPIFails(r) \/ MetaFails(r)
      PROVE  UNCHANGED <<keyVars, dropped>>
  BY <1>4 DEF Arrive, ExpandNames, Expand, Authorize, Authorized, FetchMeta, OnlyAuthorized,
     LookUp, CAPIFails, MetaFails, history
<1>5. ASSUME NEW p \in Refreshers, RefreshStep(p) \/ QueryFails(p), UNCHANGED history
      PROVE  /\ KeysSteady'
             /\ \A k \in Kids \ dropped : publicKeys[k] # NoKey => publicKeys'[k] # NoKey
  BY <1>1, <1>5, RefreshSteady DEF history
<1>6. CASE Rotate
  <2>1. PICK k \in Kids, key \in Keys \cup {NoKey, Malformed} :
          /\ RotateKey(k, key)
          /\ dropped' = IF key = NoKey THEN dropped \cup {k} ELSE dropped
    BY <1>6 DEF Rotate
  <2> QED BY <1>1, <2>1 DEF RotateKey, KeysSteady, KeysTypeOK
<1>7. CASE Tick
  <2>1. \A p \in Refreshers : /\ refresh'[p].at = refresh[p].at
                              /\ refresh'[p].tokenKeys = refresh[p].tokenKeys
                              /\ refresh'[p].currentKeyIds = refresh[p].currentKeyIds
    <3> TAKE p \in Refreshers
    <3>1. refresh[p] \in RefreshStates
      BY <1>1 DEF KeysTypeOK
    <3>2. refresh'[p] \in {[refresh[p] EXCEPT !.flight = @ + 1], refresh[p]}
      BY <1>7 DEF Tick, KeysTick
    <3> QED BY <3>1, <3>2 DEF RefreshStates
  <2> QED BY <1>7, <2>1 DEF Tick, KeysTick, KeysSteady
<1>8. CASE UNCHANGED vars
  BY <1>2, <1>8 DEF vars, history
<1>9. CASE Prune \/ Permit
  BY <1>2, <1>9 DEF Prune, Permit, history
<1> QED BY <1>2, <1>3, <1>4, <1>5, <1>6, <1>7, <1>8, <1>9
        DEF Next, Handle, RefreshKeys, RefreshFails

-----------------------------------------------------------------------------
\* Keys, caches, lookups and requests of cf_auth_middleware.go, uaa_client.go and
\* capi_client.go always hold what their handlers go on with: a lookup that goes
\* on has a user, and only pairs of a name and a source are authorized.
THEOREM TypeCorrect == Spec => []TypeOK
<1>1. AuthInv => TypeOK
  BY DEF AuthInv
<1>2. AuthInv /\ [Next]_vars => AuthInv'
  BY NextInv
<1> QED BY <1>1, <1>2, InitInv, PTL DEF Spec

\* Whatever the lifetime of an entry, the timeout of CAPI and the number of
\* requests, IsAuthorized and AvailableSourceIDs answer from listings that are
\* not older than these two together (capi_client.go).
THEOREM AuthorizedRecently == Spec => AuthorizesFromRecentListing
<1>1. AuthInv /\ [Next]_vars => AuthInv'
  BY NextInv
<1>2. AuthInv /\ [Next]_vars =>
        [\A r \in Requests :
           lookup[r].at # "done" /\ lookup'[r].at = "done" =>
             LET call == lookup'[r] IN
             /\ call.isAuthorized =>
                  unlisted[call.user][call.sourceId] < Staleness
             /\ call.sourceId = NoEntry =>
                  \A s \in call.sourceIds : unlisted[call.user][s] <= CAPITimeout
        ]_vars
  BY NextInv DEF CachesSound, AnswerRecent
<1> QED BY <1>1, <1>2, InitInv, PTL DEF Spec, AuthorizesFromRecentListing

\* Whatever refreshes overlap, fail or stop at a malformed key, RefreshTokenKeys
\* deletes no key that UAA has listed all the time (uaa_client.go).
THEOREM KeysStay == Spec => SteadyKeysStay
<1>1. Init => KeysSteady
  BY TokenKeysAssumption DEF Init, KeysInit, KeysSteady, NotRefreshing
<1>2. AuthInv /\ [Next]_vars => AuthInv'
  BY NextInv
<1>3. AuthInv /\ KeysSteady /\ [Next]_vars => KeysSteady'
  BY NextSteady
<1>4. AuthInv /\ KeysSteady /\ [Next]_vars =>
        [\A k \in Kids \ dropped : publicKeys[k] # NoKey => publicKeys'[k] # NoKey]_vars
  BY NextSteady
<1> QED BY <1>1, <1>2, <1>3, <1>4, InitInv, PTL DEF Spec, SteadyKeysStay
=============================================================================
