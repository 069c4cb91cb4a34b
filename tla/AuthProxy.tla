----------------------------- MODULE AuthProxy -----------------------------
(***************************************************************************)
(* Requests to the CF auth proxy (src/internal/auth/cf_auth_middleware.go  *)
(* with UAAClient.Read): the token is verified with the keys of TokenKeys, *)
(* what is asked for is compared with SourceIdCache, and the request goes  *)
(* on to the gateway or is refused. A query that names apps goes on with   *)
(* their source ids.                                                       *)
(***************************************************************************)
EXTENDS TokenKeys, SourceIdCache

CONSTANTS
  Requests,    \* requests at the same time: one each in every tick
  Background,  \* refreshes that Read starts and does not wait for
  Tokens,      \* [user, kid, key, admin, defect]: defect is what is wrong
               \* with a token apart from its key: "none", "header", "expired"
  Asks,        \* [endpoint, names]: the source id of a read, those that
               \* ExtractSourceIds finds in a query, or none for meta
  MaxFaults    \* bound: rotations, changes of permissions and failed calls

ASSUME AuthProxyAssumption ==
  /\ Refreshers = Requests \cup Background /\ Requests \cap Background = {}
  /\ Callers = Requests
  /\ \A t \in Tokens : t.user \in Users /\ t.kid \in Kids /\ t.key \in Keys
  /\ \A a \in Asks : a.names \subseteq Sources \cup AppNames
  /\ MaxFaults \in Nat

VARIABLES
  request,  \* request -> what its handler is doing
  dropped,  \* the key ids that UAA has once not listed
  unlisted, \* user -> source -> ticks since CAPI would have listed it
  faults

history == <<unlisted, dropped>>

vars == <<keyVars, cacheVars, request, history, faults>>

\* How long a source that CAPI no longer lists may be authorized: the answer
\* waits for that of the other listing, and is then good until it expires.
Staleness == CAPITimeout + CacheExpirationInterval

NoName == NoEntry

NoRequest ==
  [at |-> "idle", token |-> NoEntry, ask |-> NoEntry, name |-> NoName,
   todo |-> {}, allowed |-> {}]

Pairs == (Sources \cup AppNames) \X (Sources \cup AppNames)

RequestStates ==
  [at : {"idle", "key", "refreshing", "related", "meta", "filter",
         "authorize", "forwarded", "refused"},
   token : Tokens \cup {NoEntry},
   ask : Asks \cup {NoEntry},
   name : Sources \cup AppNames \cup {NoName},
   todo : SUBSET Pairs, allowed : SUBSET Pairs]

TypeOK ==
  /\ KeysTypeOK /\ CacheTypeOK
  /\ request \in [Requests -> RequestStates]
  /\ unlisted \in [Users -> [Sources -> 0 .. Staleness]]
  /\ dropped \subseteq Kids
  /\ faults \in 0 .. MaxFaults

Init ==
  /\ KeysInit /\ CacheInit
  /\ request = [r \in Requests |-> NoRequest]
  /\ unlisted = [u \in Users |-> [s \in Sources |->
       IF s \in permitted[u] THEN 0 ELSE Staleness]]
  /\ dropped = {}
  /\ faults = 0
-----------------------------------------------------------------------------
Goto(r, at) == request' = [request EXCEPT ![r].at = at]

Forward(r, ids) ==
  request' = [request EXCEPT ![r].at = "forwarded", ![r].name = NoName,
                             ![r].todo = {}, ![r].allowed = ids]

Refuse(r) ==
  request' = [request EXCEPT ![r] = [NoRequest EXCEPT !.at = "refused"]]

\* Every source id by itself, as no app is named.
Themselves(names) == {<<n, n>> : n \in names}

Arrive(r) ==
  /\ request[r].at = "idle"
  /\ \E t \in Tokens, ask \in Asks :
       request' = [request EXCEPT ![r] =
         [NoRequest EXCEPT !.at = "key", !.token = t, !.ask = ask]]
  /\ UNCHANGED <<keyVars, cacheVars, history, faults>>

\* What the handler does once the token is read.
Authenticated(r) ==
  LET t == request[r].token
      ask == request[r].ask
  IN
  \/ ask.endpoint = "read" /\ t.admin /\ Forward(r, Themselves(ask.names))
  \/ /\ ask.endpoint = "read" /\ ~t.admin
     /\ request' = [request EXCEPT ![r].at = "authorize",
                                   ![r].todo = Themselves(ask.names)]
  \/ ask.endpoint = "query" /\ Goto(r, "related")
  \/ ask.endpoint = "meta" /\ Goto(r, "meta")

\* Mutant: a token that its key does not verify is refused and that is all.
ReadWith_NoRefresh(r, key) ==
  LET t == request[r].token
      verified == key = t.key /\ t.defect # "expired"
  IN
  /\ IF verified THEN Authenticated(r) ELSE Refuse(r)
  /\ UNCHANGED refresh

\* jose.Decode has found this key, or none. A token that the key does not
\* verify makes Read refresh the keys in the background.
ReadWith(r, key) ==
  LET t == request[r].token IN
  \/ /\ key = t.key /\ t.defect # "expired"
     /\ Authenticated(r) /\ UNCHANGED refresh
  \/ /\ key = NoKey \/ (key = t.key /\ t.defect = "expired")
     /\ Refuse(r) /\ UNCHANGED refresh
  \/ /\ key \notin {NoKey, t.key}
     /\ Refuse(r) /\ \E b \in Background : CallRefresh(b)

\* A query is parsed before its token is read; one without source ids is bad.
Unreadable(r) ==
  \/ request[r].token.defect = "header"
  \/ request[r].ask.endpoint = "query" /\ request[r].ask.names = {}

\* Read, with the first Load of loadOrFetchPublicKey.
LoadKey(r) ==
  LET key == publicKeys[request[r].token.kid] IN
  /\ request[r].at = "key"
  /\ \/ Unreadable(r) /\ Refuse(r) /\ UNCHANGED refresh
     \/ ~Unreadable(r) /\ key # NoKey /\ ReadWith(r, key)
     \/ /\ ~Unreadable(r) /\ key = NoKey
        /\ CallRefresh(r) /\ Goto(r, "refreshing")
  /\ UNCHANGED <<uaaKeys, publicKeys, sinceQuery, cacheVars, history, faults>>

\* The second Load, when the refresh has returned, whatever it returned.
LoadKeyAgain(r) ==
  /\ request[r].at = "refreshing"
  /\ refresh[r].at = "idle"
  /\ ReadWith(r, publicKeys[request[r].token.kid])
  /\ UNCHANGED <<uaaKeys, publicKeys, sinceQuery, cacheVars, history, faults>>
-----------------------------------------------------------------------------
\* GetRelatedSourceIds returns. What an admin asks for goes on as it is.
Expand(r, related) ==
  LET all == related \cup Themselves(request[r].ask.names) IN
  /\ request[r].at = "related"
  /\ \/ request[r].token.admin /\ Forward(r, all)
     \/ /\ ~request[r].token.admin
        /\ request' = [request EXCEPT ![r].at = "authorize", ![r].todo = all]
  /\ UNCHANGED <<keyVars, cacheVars, history>>

ExpandNames(r) ==
  /\ Expand(r, RelatedSourceIds(request[r].token.user, request[r].ask.names))
  /\ UNCHANGED faults

\* The next source id of the name at hand, or of another name.
Authorize(r) ==
  /\ request[r].at = "authorize"
  /\ lookup[r].at = "idle"
  /\ \E p \in request[r].todo :
       /\ request[r].name \in {NoName, p[1]}
       /\ IsAuthorized(r, request[r].token.user, p[2])
       /\ request' = [request EXCEPT ![r].name = p[1]]
  /\ UNCHANGED <<keyVars, permitted, tokenCache, doomed, history, faults>>

\* A name of which nothing may be seen is the end of the request.
Authorized(r) ==
  LET n == request[r].name
      p == <<n, lookup[r].sourceId>>
      todo == request[r].todo \ {p}
      allowed == request[r].allowed \cup
                 (IF lookup[r].isAuthorized THEN {p} ELSE {})
      finished == \A q \in todo : q[1] # n
      nothing == \A q \in allowed : q[1] # n
  IN
  /\ request[r].at = "authorize"
  /\ lookup[r].at = "done"
  /\ lookup' = [lookup EXCEPT ![r] = NotLooking]
  /\ \/ finished /\ nothing /\ Refuse(r)
     \/ ~(finished /\ nothing) /\ todo = {} /\ Forward(r, allowed)
     \/ /\ ~(finished /\ nothing) /\ todo # {}
        /\ request' = [request EXCEPT
             ![r].todo = todo, ![r].allowed = allowed,
             ![r].name = IF finished THEN NoName ELSE n]
  /\ UNCHANGED <<keyVars, permitted, tokenCache, doomed, history, faults>>

\* The gateway's meta information, of every source, is there.
FetchMeta(r) ==
  /\ request[r].at = "meta"
  /\ \/ /\ request[r].token.admin /\ Forward(r, Themselves(Sources))
        /\ UNCHANGED lookup
     \/ /\ ~request[r].token.admin /\ Goto(r, "filter")
        /\ ListSources(r, request[r].token.user)
  /\ UNCHANGED <<keyVars, permitted, tokenCache, doomed, history, faults>>

OnlyAuthorized(r) ==
  /\ request[r].at = "filter"
  /\ lookup[r].at = "done"
  /\ Forward(r, Themselves(lookup[r].sourceIds))
  /\ lookup' = [lookup EXCEPT ![r] = NotLooking]
  /\ UNCHANGED <<keyVars, permitted, tokenCache, doomed, history, faults>>
-----------------------------------------------------------------------------
Fault == faults < MaxFaults /\ faults' = faults + 1

Rotate ==
  /\ Fault
  /\ \E k \in Kids, key \in Keys \cup {NoKey, Malformed} :
       /\ RotateKey(k, key)
       /\ dropped' = IF key = NoKey THEN dropped \cup {k} ELSE dropped
  /\ UNCHANGED <<cacheVars, request, unlisted>>

Permit ==
  /\ Fault
  /\ \E u \in Users, s \in Sources :
       /\ ChangePermissions(u, s)
       /\ unlisted' = [unlisted EXCEPT ![u][s] = 0]
  /\ UNCHANGED <<keyVars, request, dropped>>

RefreshFails ==
  /\ Fault
  /\ \E p \in Refreshers : QueryFails(p)
  /\ UNCHANGED <<cacheVars, request, history>>

CAPIFails(r) ==
  /\ Fault
  /\ \/ Expand(r, {})
     \/ ListingFails(r) /\ UNCHANGED <<keyVars, request, history>>

MetaFails(r) ==
  /\ Fault
  /\ request[r].at = "meta" /\ Refuse(r)
  /\ UNCHANGED <<keyVars, cacheVars, history>>

\* A second or so. Requests that are answered make room for others.
Tick ==
  /\ KeysMayTick /\ CacheMayTick
  /\ \A r \in Requests :
       \/ request[r].at \in {"idle", "forwarded", "refused", "related", "meta"}
       \/ request[r].at = "refreshing" /\ refresh[r].at # "idle"
       \/ request[r].at \in {"authorize", "filter"} /\ Listing(r)
  /\ KeysTick /\ CacheTick
  /\ request' = [r \in Requests |->
       IF request[r].at \in {"forwarded", "refused"} THEN NoRequest
       ELSE request[r]]
  /\ unlisted' = [u \in Users |-> [s \in Sources |->
       IF s \in permitted[u] THEN 0
       ELSE IF unlisted[u][s] < Staleness THEN unlisted[u][s] + 1
       ELSE Staleness]]
  /\ UNCHANGED <<dropped, faults>>

RefreshKeys(p) ==
  RefreshStep(p) /\ UNCHANGED <<cacheVars, request, history, faults>>

LookUp(r) ==
  /\ ListsApps(r) \/ ListsServiceInstances(r) \/ StoreSourceIds(r)
  /\ UNCHANGED <<keyVars, request, history, faults>>

Prune ==
  /\ BeginPrune \/ VisitExpired \/ DeleteExpired
  /\ UNCHANGED <<keyVars, request, history, faults>>

Handle(r) ==
  \/ LoadKey(r) \/ LoadKeyAgain(r)
  \/ ExpandNames(r) \/ Authorize(r) \/ Authorized(r)
  \/ FetchMeta(r) \/ OnlyAuthorized(r)

Next ==
  \/ \E r \in Requests :
       Arrive(r) \/ Handle(r) \/ LookUp(r) \/ CAPIFails(r) \/ MetaFails(r)
  \/ \E p \in Refreshers : RefreshKeys(p)
  \/ Prune \/ Rotate \/ Permit \/ RefreshFails \/ Tick

\* What has begun goes on, UAA and CAPI answer in the end, and time passes.
Fairness ==
  /\ \A r \in Requests : WF_vars(Handle(r)) /\ WF_vars(LookUp(r))
  /\ \A p \in Refreshers : WF_vars(RefreshKeys(p))
  /\ WF_vars(Prune) /\ WF_vars(Tick)

Spec == Init /\ [][Next]_vars /\ Fairness
-----------------------------------------------------------------------------
\* A source is authorized, or shown in the meta information, only if CAPI
\* listed it a short while ago, whichever of several listings for the token was
\* stored last, whoever pruned it, and however often it was used since.
AuthorizesFromRecentListing ==
  [][\A r \in Requests :
       lookup[r].at # "done" /\ lookup'[r].at = "done" =>
         LET call == lookup'[r] IN
         /\ call.isAuthorized =>
              unlisted[call.user][call.sourceId] < Staleness
         /\ call.sourceId = NoEntry =>
              \A s \in call.sourceIds : unlisted[call.user][s] <= CAPITimeout
    ]_vars

\* Refreshes that fail, stop at a malformed key, or overtake one another never
\* take away the key of an id that UAA has listed all the time.
SteadyKeysStay ==
  [][\A k \in Kids \ dropped : publicKeys[k] # NoKey => publicKeys'[k] # NoKey]_vars

AskedWith(r, t, n) ==
  request[r].token = t /\ request[r].ask = [endpoint |-> "read", names |-> {n}]

\* Who may see a source, and asks for it for ever with a token that UAA's key
\* verifies, is served for ever: neither old keys, nor failed listings, nor
\* the limit on retries shut anybody out for good.
EventuallyServed ==
  \A t \in {t \in Tokens : t.defect = "none"}, s \in Sources :
    /\ <>[](s \in permitted[t.user] /\ uaaKeys[t.kid] = t.key)
    /\ <>[](\A k \in Kids : uaaKeys[k] # Malformed)
    /\ []<>(\E r \in Requests : request[r].at = "key" /\ AskedWith(r, t, s))
    => []<>(\E r \in Requests :
              request[r].at = "forwarded" /\ AskedWith(r, t, s))

\* An expired entry does not stay: it is pruned or replaced.
ExpiredEntriesLeave ==
  \A u \in Users :
    (tokenCache[u] # NoEntry /\ tokenCache[u].ttl < 0)
      ~> (tokenCache[u] = NoEntry \/ tokenCache[u].ttl >= 0)
=============================================================================
