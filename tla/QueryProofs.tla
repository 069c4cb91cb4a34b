---------------------------- MODULE QueryProofs -----------------------------
(***************************************************************************)
(* What is proved of the clients' tokens, for every number of requests and *)
(* whatever is asked: a token is fetched by one request at a time, only    *)
(* when there is none, and so no oftener than answers throw tokens away.   *)
(* And of queries: that one of which a read failed is not answered, that   *)
(* a proxied one reads only what was authorized for what it asks, that     *)
(* results come to the client as the gateway marshaled them, and that an   *)
(* answer shows what the store has of what was asked.                      *)
(***************************************************************************)
EXTENDS Query, FiniteSetTheorems, TLAPS

Calls == [at : {"idle", "token", "fetch", "sent", "failed"}, with : 0 .. MaxFetches]

\* Whoever fetches holds the mutex, and there is no token until it is done: only
\* a fetch brings one, and answers merely throw it away.
FetcherHolds == \A r \in Requests : http[r].at = "fetch" => mu = r /\ token = NoToken

\* Every token but the one at hand was thrown away by an answer of its own.
Spent == fetched <= refused + (IF token = NoToken THEN 0 ELSE 1)

FetchInv ==
  /\ ClientTypeOK /\ refused \in 0 .. MaxFetches
  /\ FetcherHolds /\ Spent

\* The count of refusals stops at MaxFetches.
LEMMA MinOfCapped ==
  ASSUME NEW n \in Nat, NEW m \in Nat
  PROVE  Min({n + 1, m}) = IF n + 1 <= m THEN n + 1 ELSE m
<1> DEFINE least == IF n + 1 <= m THEN n + 1 ELSE m
<1>1. least \in {n + 1, m} /\ \A y \in {n + 1, m} : least <= y
  OBVIOUS
<1>2. \A x \in {n + 1, m} : (\A y \in {n + 1, m} : x <= y) => x = least
  OBVIOUS
<1> HIDE DEF least
<1>3. Min({n + 1, m}) = least
  BY <1>1, <1>2 DEF Min
<1> QED
  BY <1>3 DEF least

\* A step of r, which moves http[r] only, keeps who fetches, if r does not begin
\* to fetch and there is still no token while another fetches.
LEMMA HolderKept ==
  ASSUME FetchInv, NEW r \in Requests, NEW k, k.at # "fetch",
         http' = [http EXCEPT ![r] = k],
         mu' = mu \/ http[r].at = "fetch",
         token' \in {token, NoToken} \/ http[r].at = "fetch"
  PROVE  FetcherHolds'
<1> SUFFICES ASSUME NEW s \in Requests, http'[s].at = "fetch"
             PROVE  mu' = s /\ token' = NoToken
  BY DEF FetcherHolds
<1>1. http \in [Requests -> Calls]
  BY DEF FetchInv, ClientTypeOK, Calls
<1>2. s # r
  BY <1>1
<1>3. http[s].at = "fetch"
  BY <1>1, <1>2
<1>4. mu = s /\ token = NoToken
  BY <1>3 DEF FetchInv, FetcherHolds
<1>5. http[r].at # "fetch"
  BY <1>2, <1>4 DEF FetchInv, FetcherHolds
<1> QED
  BY <1>4, <1>5
-----------------------------------------------------------------------------
\* No token, nobody fetches.
LEMMA FetchInit == QueryInit => FetchInv
  BY ClientAssumption
  DEF QueryInit, ClientInit, NoRequest, FetchInv, ClientTypeOK, FetcherHolds, Spent, NoToken

\* Do decides to fetch only with the mutex and without a token.
LEMMA StartKeeps ==
  ASSUME FetchInv, NEW r \in Requests, StartDo(r),
         UNCHANGED <<token, mu, fetched, revoked, refused>>
  PROVE  FetchInv'
<1> DEFINE k == [http[r] EXCEPT !.at = "token"]
<1>1. http \in [Requests -> Calls] /\ http[r] \in Calls
  BY DEF FetchInv, ClientTypeOK, Calls
<1>2. http' = [http EXCEPT ![r] = k]
  BY <1>1 DEF StartDo
<1>3. k \in Calls /\ k.at = "token"
  BY <1>1 DEF Calls
<1> HIDE DEF k
<1>4. ClientTypeOK'
  BY <1>1, <1>2, <1>3 DEF FetchInv, ClientTypeOK, Calls
<1>5. FetcherHolds'
  BY <1>2, <1>3, HolderKept
<1> QED
  BY <1>4, <1>5 DEF FetchInv, Spent

\* getClientToken and getUserToken keep it: only the one fetch adds a token.
LEMMA GetTokenKeeps ==
  ASSUME FetchInv, NEW r \in Requests, GetToken(r), UNCHANGED refused
  PROVE  FetchInv'
<1>t. /\ http \in [Requests -> Calls] /\ http[r] \in Calls
      /\ token \in 0 .. MaxFetches /\ fetched \in 0 .. MaxFetches
      /\ refused \in 0 .. MaxFetches /\ revoked \in 0 .. fetched
      /\ MaxFetches \in Nat
  BY ClientAssumption DEF FetchInv, ClientTypeOK, Calls
<1>1. CASE UseToken(r)
  <2> DEFINE k == [at |-> "sent", with |-> token]
  <2>1. http' = [http EXCEPT ![r] = k] /\ UNCHANGED <<token, mu, fetched, revoked>>
    BY <1>1 DEF UseToken
  <2>2. k \in Calls /\ k.at = "sent"
    BY <1>t DEF Calls
  <2> HIDE DEF k
  <2>3. ClientTypeOK'
    BY <1>t, <2>1, <2>2 DEF FetchInv, ClientTypeOK, Calls
  <2>4. FetcherHolds'
    BY <2>1, <2>2, HolderKept
  <2> QED
    BY <2>1, <2>3, <2>4 DEF FetchInv, Spent
<1>2. CASE LockToFetch(r)
  <2> DEFINE k == [http[r] EXCEPT !.at = "fetch"]
  <2>1. /\ http' = [http EXCEPT ![r] = k] /\ mu' = r /\ UNCHANGED <<token, fetched, revoked>>
        /\ mu = Nobody /\ token = NoToken
    BY <1>2, <1>t DEF LockToFetch, MustFetch
  <2>2. k \in Calls /\ k.at = "fetch"
    BY <1>t DEF Calls
  <2> HIDE DEF k
  <2>3. ClientTypeOK'
    BY <1>t, <2>1, <2>2 DEF FetchInv, ClientTypeOK, Calls
  <2>4. FetcherHolds'
    <3> SUFFICES ASSUME NEW s \in Requests, http'[s].at = "fetch"
                 PROVE  mu' = s /\ token' = NoToken
      BY DEF FetcherHolds
    <3>1. s # r => http[s].at = "fetch"
      BY <1>t, <2>1
    <3>2. s # r => mu = s
      BY <3>1 DEF FetchInv, FetcherHolds
    <3> QED
      BY <2>1, <3>2, ClientAssumption
  <2> QED
    BY <2>1, <2>3, <2>4 DEF FetchInv, Spent
<1>3. CASE Fetched(r)
  <2> DEFINE k == [at |-> "sent", with |-> fetched + 1]
  <2>1. /\ http' = [http EXCEPT ![r] = k] /\ mu' = Nobody /\ UNCHANGED revoked
        /\ token' = fetched + 1 /\ fetched' = fetched + 1 /\ fetched < MaxFetches
        /\ http[r].at = "fetch"
    BY <1>3 DEF Fetched
  <2>2. k \in Calls /\ k.at = "sent"
    BY <1>t, <2>1 DEF Calls
  <2> HIDE DEF k
  <2>3. ClientTypeOK'
    BY <1>t, <2>1, <2>2 DEF FetchInv, ClientTypeOK, Calls
  <2>4. FetcherHolds'
    BY <2>1, <2>2, HolderKept
  <2>5. token = NoToken
    BY <2>1 DEF FetchInv, FetcherHolds
  <2>6. fetched <= refused
    BY <1>t, <2>5 DEF FetchInv, Spent
  <2>7. Spent'
    BY <1>t, <2>1, <2>6 DEF Spent, NoToken
  <2> QED
    BY <2>3, <2>4, <2>7 DEF FetchInv
<1>4. CASE FetchFails(r)
  <2> DEFINE k == [http[r] EXCEPT !.at = "failed"]
  <2>1. /\ http' = [http EXCEPT ![r] = k] /\ mu' = Nobody
        /\ UNCHANGED <<token, fetched, revoked>> /\ http[r].at = "fetch"
    BY <1>4, <1>t DEF FetchFails
  <2>2. k \in Calls /\ k.at = "failed"
    BY <1>t DEF Calls
  <2> HIDE DEF k
  <2>3. ClientTypeOK'
    BY <1>t, <2>1, <2>2 DEF FetchInv, ClientTypeOK, Calls
  <2>4. FetcherHolds'
    BY <2>1, <2>2, HolderKept
  <2> QED
    BY <2>1, <2>3, <2>4 DEF FetchInv, Spent
<1> QED
  BY <1>1, <1>2, <1>3, <1>4 DEF GetToken

\* Do's end keeps it: an answer that is refused throws the token at hand away, and
\* is counted; any other leaves it.
LEMMA AnswerKeeps ==
  ASSUME FetchInv, NEW r \in Requests, NEW status, Answered(r, status),
         refused' = IF Refused(status) THEN Min({refused + 1, MaxFetches}) ELSE refused
  PROVE  FetchInv'
<1>t. /\ http \in [Requests -> Calls] /\ http[r] \in Calls
      /\ token \in 0 .. MaxFetches /\ fetched \in 0 .. MaxFetches
      /\ refused \in 0 .. MaxFetches /\ MaxFetches \in Nat
  BY ClientAssumption DEF FetchInv, ClientTypeOK, Calls
<1>1. /\ http' = [http EXCEPT ![r] = NoRequest] /\ UNCHANGED <<mu, fetched, revoked>>
      /\ token' = IF Refused(status) THEN NoToken ELSE token
  BY DEF Answered
<1>2. NoRequest \in Calls /\ NoRequest.at = "idle"
  BY <1>t DEF Calls, NoRequest, NoToken
<1>3. ClientTypeOK'
  BY <1>t, <1>1, <1>2 DEF FetchInv, ClientTypeOK, Calls, NoToken
<1>4. FetcherHolds'
  BY <1>1, <1>2, HolderKept
<1>5. fetched <= refused + 1
  BY <1>t DEF FetchInv, Spent
<1>6. refused' \in 0 .. MaxFetches /\ Spent'
  <2>1. CASE Refused(status)
    <3>1. refused' = IF refused + 1 <= MaxFetches THEN refused + 1 ELSE MaxFetches
      BY <2>1, <1>t, MinOfCapped
    <3>2. token' = NoToken /\ fetched' = fetched
      BY <2>1, <1>1
    <3> QED
      BY <1>t, <1>5, <3>1, <3>2 DEF Spent
  <2>2. CASE ~Refused(status)
    BY <2>2, <1>t, <1>1 DEF FetchInv, Spent
  <2> QED
    BY <2>1, <2>2
<1> QED
  BY <1>3, <1>4, <1>6 DEF FetchInv

\* A request without an answer throws no token away.
LEMMA NoAnswerKeeps ==
  ASSUME FetchInv, NEW r \in Requests, NotAnswered(r), UNCHANGED refused
  PROVE  FetchInv'
<1>t. http \in [Requests -> Calls] /\ MaxFetches \in Nat
  BY ClientAssumption DEF FetchInv, ClientTypeOK, Calls
<1>1. http' = [http EXCEPT ![r] = NoRequest] /\ UNCHANGED <<token, mu, fetched, revoked>>
  BY DEF NotAnswered
<1>2. NoRequest \in Calls /\ NoRequest.at = "idle"
  BY <1>t DEF Calls, NoRequest, NoToken
<1>3. ClientTypeOK'
  BY <1>t, <1>1, <1>2 DEF FetchInv, ClientTypeOK, Calls
<1>4. FetcherHolds'
  BY <1>1, <1>2, HolderKept
<1> QED
  BY <1>1, <1>3, <1>4 DEF FetchInv, Spent

\* A token is spent before the next one is fetched.
LEMMA FetchNext == FetchInv /\ [QueryNext]_vars => FetchInv'
<1> SUFFICES ASSUME FetchInv, [QueryNext]_vars
             PROVE  FetchInv'
  OBVIOUS
<1>u. ASSUME UNCHANGED clientVars, UNCHANGED refused
      PROVE  FetchInv'
  BY <1>u DEF clientVars, FetchInv, ClientTypeOK, FetcherHolds, Spent
<1>1. ASSUME NEW r \in Requests, Issue(r)
      PROVE  FetchInv'
  BY <1>1, StartKeeps DEF Issue
<1>2. ASSUME NEW r \in Requests, Authenticate(r)
      PROVE  FetchInv'
  BY <1>2, GetTokenKeeps DEF Authenticate
<1>3. ASSUME NEW r \in Requests,
             Proxy(r) \/ Gateway(r) \/ ReadSource(r) \/ Respond(r) \/ Finish(r)
      PROVE  FetchInv'
  BY <1>3, <1>u DEF Proxy, Gateway, ReadSource, Respond, Finish
<1>4. ASSUME NEW r \in Requests, Return(r)
      PROVE  FetchInv'
  BY <1>4, AnswerKeeps DEF Return
<1>5. ASSUME NEW r \in Requests, GiveUp(r)
      PROVE  FetchInv'
  BY <1>5, NoAnswerKeeps DEF GiveUp
<1>6. CASE Revoke /\ UNCHANGED <<store, job, faults, refused>>
  <2>1. fetched \in 0 .. MaxFetches /\ MaxFetches \in Nat
    BY ClientAssumption DEF FetchInv, ClientTypeOK
  <2>2. revoked' \in 0 .. fetched' /\ UNCHANGED <<token, mu, fetched, http, refused>>
    BY <1>6, <2>1 DEF Revoke
  <2> QED
    BY <2>2 DEF FetchInv, ClientTypeOK, FetcherHolds, Spent
<1>7. CASE UNCHANGED vars
  BY <1>7, <1>u DEF vars
<1> QED
  BY <1>1, <1>2, <1>3, <1>4, <1>5, <1>6, <1>7 DEF QueryNext
-----------------------------------------------------------------------------
\* Tokens are fetched no oftener than answers throw them away, and one at a time
\* (oauth2_http_client.go, getClientToken and Do).
THEOREM FetchesStayBounded == QuerySpec => []FetchesBounded
<1>1. FetchInv => FetchesBounded
  <2> SUFFICES ASSUME FetchInv
               PROVE  FetchesBounded
    OBVIOUS
  <2>1. fetched \in 0 .. MaxFetches /\ refused \in 0 .. MaxFetches /\ Spent
    BY DEF FetchInv, ClientTypeOK
  <2> QED
    BY <2>1, ClientAssumption DEF Spent, FetchesBounded
<1> QED
  BY <1>1, FetchInit, FetchNext, PTL DEF QuerySpec

\* At most one request fetches a token at a time, and none when there is one
\* (oauth2_http_client.go, the mutex of getClientToken and getUserToken).
THEOREM OneFetchAtATime ==
  QuerySpec => [](\A r, s \in Requests :
                    http[r].at = "fetch" /\ http[s].at = "fetch" => r = s /\ token = NoToken)
<1>1. FetchInv => \A r, s \in Requests :
                    http[r].at = "fetch" /\ http[s].at = "fetch" => r = s /\ token = NoToken
  BY DEF FetchInv, FetcherHolds
<1> QED
  BY <1>1, FetchInit, FetchNext, PTL DEF QuerySpec
-----------------------------------------------------------------------------
Fields == {"at", "range", "raw", "failed", "status", "json", "todo", "es", "series",
           "sel", "query", "sets", "partial"}

Errors == {MarshalError("internal"), MarshalError("bad_data")}

\* An error comes with its status from where it is made to the client's answer.
Told(j) ==
  /\ j.at \in {"responded", "done"} /\ j.status = 200 => ~j.failed
  /\ j.at = "responded" /\ j.status # 200 => j.json \in Errors
  /\ j.at = "done" /\ j.status # 200 => Answer(j) = NoResult

IsJob(j) == Fields \subseteq DOMAIN j /\ Told(j)

ToldInv == DOMAIN job = Requests /\ \A r \in Requests : IsJob(job[r])

\* A refused query is told so.
LEMMA RefusalIsJob ==
  ASSUME NEW j, Fields \subseteq DOMAIN j, NEW status \in {400, 404, 500},
         NEW json \in Errors
  PROVE  IsJob(Responded(j, status, json))
  BY DEF Responded, IsJob, Told, Fields

\* A query that begins to read has no failure yet.
LEMMA BegunIsJob ==
  ASSUME NEW j, Fields \subseteq DOMAIN j, j.at = "select", NEW i
  PROVE  /\ Fields \subseteq DOMAIN Begin(j, i) /\ Begin(j, i).at = "select"
         /\ IsJob(Begin(j, i))
  BY DEF Begin, IsJob, Told, Fields

\* The engine answers with an error if a read failed.
LEMMA ExecutedIsJob ==
  ASSUME NEW j, Fields \subseteq DOMAIN j
  PROVE  IsJob(Execute(j))
<1> DEFINE k == [j EXCEPT !.at = "select"]
<1>1. Fields \subseteq DOMAIN k /\ k.at = "select"
  BY DEF Fields
<1> HIDE DEF k
<1>2. IsJob(Begin(k, 1))
  BY <1>1, BegunIsJob
<1>3. IsJob(Responded(j, 500, MarshalError("internal")))
  BY RefusalIsJob DEF Errors
<1> QED
  BY <1>2, <1>3 DEF Execute, k

\* The error that is handed on raw decodes to no result, as one that is refused.
LEMMA ErrorDecodes ==
  ASSUME NEW e, NEW isRange
  PROVE  Decode(MarshalError(e), isRange) = NoResult
  BY DEF Decode, MarshalError

\* What the client decodes is an error if the answer was one.
LEMMA ReturnedIsJob ==
  ASSUME NEW j, IsJob(j), j.at = "responded"
  PROVE  IsJob([j EXCEPT !.at = "done", !.json =
                  IF j.raw THEN Raw(j.status, @) ELSE Decoded(j.status, @, j.range)])
<1> DEFINE k == [j EXCEPT !.at = "done", !.json =
                  IF j.raw THEN Raw(j.status, @) ELSE Decoded(j.status, @, j.range)]
<1>1. /\ Fields \subseteq DOMAIN k /\ k.at = "done"
      /\ k.status = j.status /\ k.failed = j.failed /\ k.raw = j.raw /\ k.range = j.range
      /\ k.json = IF j.raw THEN Raw(j.status, j.json) ELSE Decoded(j.status, j.json, j.range)
  BY DEF IsJob, Fields
<1> HIDE DEF k
<1>2. ASSUME j.status # 200
      PROVE  Answer(k) = NoResult
  <2>1. j.json \in Errors
    BY <1>2 DEF IsJob, Told
  <2>2. CASE j.raw
    <3>1. k.json \in Errors \cup {MarshalError("unexpected status code")}
      BY <2>1, <2>2, <1>1 DEF Raw
    <3>2. Decode(k.json, k.range) = NoResult
      BY <3>1, ErrorDecodes DEF Errors
    <3> QED
      BY <2>2, <3>2, <1>1 DEF Answer
  <2>3. CASE ~j.raw
    BY <1>2, <2>3, <1>1 DEF Answer, Decoded
  <2> QED
    BY <2>2, <2>3
<1>3. k.status = 200 => ~k.failed
  BY <1>1 DEF IsJob, Told
<1>4. IsJob(k)
  BY <1>1, <1>2, <1>3 DEF IsJob, Told
<1> QED
  BY <1>4 DEF k

\* Nothing was asked.
LEMMA ToldInit == QueryInit => ToldInv
  BY DEF QueryInit, ToldInv, IsJob, Told, NoJob, Fields

\* One request changes at a time.
LEMMA ToldSet ==
  ASSUME ToldInv, NEW r \in Requests, NEW k, IsJob(k), job' = [job EXCEPT ![r] = k]
  PROVE  ToldInv'
<1>1. DOMAIN job' = Requests /\ \A s \in Requests : job'[s] = IF s = r THEN k ELSE job[s]
  BY DEF ToldInv
<1>2. \A s \in Requests : IsJob(job[s])
  BY DEF ToldInv
<1>3. \A s \in Requests : IsJob(job'[s])
  BY <1>1, <1>2
<1> QED
  BY <1>1, <1>3 DEF ToldInv, IsJob, Told, Answer

\* A request that is issued has no failure yet.
LEMMA IssueTold ==
  ASSUME ToldInv, NEW r \in Requests, Issue(r)
  PROVE  ToldInv'
<1>1. PICK ask \in Asks[r] :
        job' = [job EXCEPT ![r] =
          [NoJob EXCEPT !.at = "http", !.range = ask.range, !.raw = ask.raw,
                        !.proxied = ask.proxied, !.asked = ask.query,
                        !.query = ask.query]]
  BY DEF Issue
<1> DEFINE k == [NoJob EXCEPT !.at = "http", !.range = ask.range, !.raw = ask.raw,
                              !.proxied = ask.proxied, !.asked = ask.query,
                              !.query = ask.query]
<1>2. IsJob(k)
  BY DEF NoJob, IsJob, Told, Fields
<1> HIDE DEF k
<1>3. job' = [job EXCEPT ![r] = k]
  BY <1>1 DEF k
<1> QED
  BY <1>2, <1>3, ToldSet

\* The CF auth proxy refuses or passes on.
LEMMA ProxyTold ==
  ASSUME ToldInv, NEW r \in Requests, Proxy(r)
  PROVE  ToldInv'
<1> DEFINE j == job[r]
           refusal(status) == Responded(j, status, MarshalError("bad_data"))
<1>1. Fields \subseteq DOMAIN j
  BY DEF ToldInv, IsJob
<1>2. /\ \/ job' = [job EXCEPT ![r] = refusal(400)]
         \/ job' = [job EXCEPT ![r] = refusal(404)]
         \/ \E sets : job' = [job EXCEPT ![r] =
              Execute([j EXCEPT !.sets = sets, !.query = ReplaceSourceIdSets(@, sets)])]
  BY DEF Proxy
<1>3. ASSUME NEW status \in {400, 404}
      PROVE  IsJob(refusal(status))
  BY <1>1, RefusalIsJob DEF Errors
<1>4. ASSUME NEW sets
      PROVE  IsJob(Execute([j EXCEPT !.sets = sets, !.query = ReplaceSourceIdSets(@, sets)]))
  <2> DEFINE k == [j EXCEPT !.sets = sets, !.query = ReplaceSourceIdSets(@, sets)]
  <2>1. Fields \subseteq DOMAIN k
    BY <1>1
  <2> HIDE DEF k
  <2>2. IsJob(Execute(k))
    BY <2>1, ExecutedIsJob
  <2> QED
    BY <2>2 DEF k
<1> HIDE DEF refusal
<1>5. \E k : IsJob(k) /\ job' = [job EXCEPT ![r] = k]
  BY <1>2, <1>3, <1>4, ZenonT(40)
<1> QED
  BY <1>5, ToldSet

\* The gateway refuses or begins to read.
LEMMA GatewayTold ==
  ASSUME ToldInv, NEW r \in Requests, Gateway(r)
  PROVE  ToldInv'
<1>1. Fields \subseteq DOMAIN job[r] /\ r \in DOMAIN job
  BY DEF ToldInv, IsJob
<1>2. IsJob(Execute(job[r]))
  BY <1>1, ExecutedIsJob
<1>3. job' = [job EXCEPT ![r] = Execute(job[r])]
  BY <1>1 DEF Gateway
<1> QED
  BY <1>2, <1>3, ToldSet

\* A read leaves the job where it is, whether the next selector begins or not.
LEMMA ReadTold ==
  ASSUME ToldInv, NEW r \in Requests, ReadSource(r)
  PROVE  ToldInv'
<1> DEFINE j == job[r]
           added(s, read) == [j EXCEPT !.todo = @ \ {s}, !.es = @ \o read]
           next(k) == IF k.todo = {} THEN Begin(Selected(k, k.es), k.sel + 1) ELSE k
           short(k) == [k EXCEPT !.partial = TRUE]
<1>1. Fields \subseteq DOMAIN j /\ j.at = "select"
  BY DEF ToldInv, IsJob, ReadSource
<1>2. \/ \E s, es : job' = [job EXCEPT ![r] = next(added(s, es))]
      \/ \E s, es : job' = [job EXCEPT ![r] = next(short(added(s, es)))]
      \/ job' = [job EXCEPT ![r].failed = TRUE]
  BY DEF ReadSource
<1>3. ASSUME NEW k, Fields \subseteq DOMAIN k, k.at = "select"
      PROVE  IsJob(next(k))
  <2> DEFINE m == Selected(k, k.es)
  <2>1. Fields \subseteq DOMAIN m /\ m.at = "select"
    BY <1>3 DEF Selected, Fields
  <2> HIDE DEF m
  <2>2. IsJob(Begin(m, k.sel + 1))
    BY <2>1, BegunIsJob
  <2>3. IsJob(k)
    BY <1>3 DEF IsJob, Told
  <2> QED
    BY <2>2, <2>3 DEF m
<1>4. ASSUME NEW s, NEW es
      PROVE  /\ Fields \subseteq DOMAIN added(s, es) /\ added(s, es).at = "select"
             /\ Fields \subseteq DOMAIN short(added(s, es))
             /\ short(added(s, es)).at = "select"
  BY <1>1 DEF Fields
<1>5. ASSUME job' = [job EXCEPT ![r].failed = TRUE]
      PROVE  \E k : IsJob(k) /\ job' = [job EXCEPT ![r] = k]
  <2> DEFINE k == [j EXCEPT !.failed = TRUE]
  <2>1. Fields \subseteq DOMAIN k /\ k.at = "select"
    BY <1>1 DEF Fields
  <2>2. job' = [job EXCEPT ![r] = k]
    BY <1>5 DEF ToldInv
  <2> HIDE DEF k
  <2> QED
    BY <2>1, <2>2 DEF IsJob, Told
<1> HIDE DEF added, short, next
<1>6. \E k : IsJob(k) /\ job' = [job EXCEPT ![r] = k]
  BY <1>2, <1>3, <1>4, <1>5
<1> QED
  BY <1>6, ToldSet

\* The engine answers.
LEMMA RespondTold ==
  ASSUME ToldInv, NEW r \in Requests, Respond(r)
  PROVE  ToldInv'
<1> DEFINE j == job[r]
           answer == Marshal(IF j.range THEN RangeResult(j) ELSE InstantResult(j))
<1>1. Fields \subseteq DOMAIN j
  BY DEF ToldInv, IsJob
<1>2. job' = [job EXCEPT ![r] =
        IF j.failed THEN Responded(j, 500, MarshalError("internal"))
        ELSE Responded(j, 200, answer)]
  BY DEF Respond
<1> HIDE DEF answer
<1>3. IsJob(Responded(j, 500, MarshalError("internal")))
  BY <1>1, RefusalIsJob DEF Errors
<1>4. ~j.failed => IsJob(Responded(j, 200, answer))
  BY <1>1 DEF Responded, IsJob, Told, Fields
<1>5. \E k : IsJob(k) /\ job' = [job EXCEPT ![r] = k]
  BY <1>2, <1>3, <1>4, ZenonT(40)
<1> QED
  BY <1>5, ToldSet

\* The client decodes the answer.
LEMMA ReturnTold ==
  ASSUME ToldInv, NEW r \in Requests, Return(r)
  PROVE  ToldInv'
<1>1. IsJob(job[r]) /\ job[r].at = "responded"
  BY DEF ToldInv, Return
<1>2. \E k : IsJob(k) /\ job' = [job EXCEPT ![r] = k]
  BY <1>1, ReturnedIsJob DEF Return
<1> QED
  BY <1>2, ToldSet

\* No failure is forgotten.
LEMMA ToldNext == ToldInv /\ [QueryNext]_vars => ToldInv'
<1> SUFFICES ASSUME ToldInv, [QueryNext]_vars
             PROVE  ToldInv'
  OBVIOUS
<1>u. ASSUME UNCHANGED job
      PROVE  ToldInv'
  BY <1>u DEF ToldInv, IsJob, Told, Answer
<1>0. ASSUME NEW r \in Requests, job' = [job EXCEPT ![r] = NoJob]
      PROVE  ToldInv'
  <2>1. IsJob(NoJob)
    BY DEF NoJob, IsJob, Told, Fields
  <2> QED
    BY <1>0, <2>1, ToldSet
<1>1. ASSUME NEW r \in Requests,
             Issue(r) \/ Proxy(r) \/ Gateway(r) \/ ReadSource(r) \/ Respond(r) \/ Return(r)
      PROVE  ToldInv'
  BY <1>1, IssueTold, ProxyTold, GatewayTold, ReadTold, RespondTold, ReturnTold
<1>2. ASSUME NEW r \in Requests, Authenticate(r)
      PROVE  ToldInv'
  BY <1>2, <1>u DEF Authenticate
<1>3. ASSUME NEW r \in Requests, GiveUp(r) \/ Finish(r)
      PROVE  ToldInv'
  BY <1>3, <1>0 DEF GiveUp, Finish
<1>4. CASE Revoke /\ UNCHANGED <<store, job, faults, refused>>
  BY <1>4, <1>u
<1>5. CASE UNCHANGED vars
  BY <1>5, <1>u DEF vars
<1> QED
  BY <1>1, <1>2, <1>3, <1>4, <1>5 DEF QueryNext

\* A query with a read that failed is not answered, and an error is never taken for
\* a result, whatever the store, the queries and the proxy's lists are (promql.go,
\* InstantQuery and RangeQuery; client.go, PromQL and PromQLRaw).
THEOREM FailuresAreTold == QuerySpec => []FailuresTold
<1>1. ToldInv => FailuresTold
  BY DEF ToldInv, IsJob, Told, FailuresTold
<1> QED
  BY <1>1, ToldInit, ToldNext, PTL DEF QuerySpec
-----------------------------------------------------------------------------
(* Induction, and sequences of sequences *)

\* The least of some numbers: the smallest of the intervals from 0 to one of them.
LEMMA LeastNumber == 
  ASSUME NEW T \in SUBSET Nat, T # {}
  PROVE  \E m \in T : \A k \in T : m <= k
<1> DEFINE F == {0 .. m : m \in T}
<1>1. F \subseteq FiniteSubsetsOf(Nat)
  <2>1. \A m \in T : 0 .. m \in SUBSET Nat /\ IsFiniteSet(0 .. m)
    BY FS_Interval
  <2> QED BY <2>1 DEF FiniteSubsetsOf
<1>2. F # {}
  OBVIOUS
<1> HIDE DEF F
<1>3. PICK A \in F : \A B \in F : ~ (<<B, A>> \in StrictSubsetOrdering(Nat))
  BY <1>1, <1>2, WFMin, FS_StrictSubsetOrderingWellFounded
<1>4. PICK m \in T : A = 0 .. m
  BY DEF F
<1>5. ASSUME NEW k \in T, k < m
      PROVE  FALSE
  <2>1. 0 .. k \in F
    BY DEF F
  <2>2. 0 .. k \subseteq 0 .. m /\ m \in 0 .. m /\ m \notin 0 .. k
    BY <1>5
  <2>3. <<0 .. k, A>> \in StrictSubsetOrdering(Nat)
    BY <1>4, <2>2 DEF StrictSubsetOrdering
  <2> QED BY <1>3, <2>1, <2>3
<1> QED BY <1>5

\* Induction, stated of a set.
LEMMA SetInduction ==
  ASSUME NEW D \in SUBSET Nat, 0 \in D, \A n \in D : n + 1 \in D
  PROVE  D = Nat
<1> SUFFICES ASSUME Nat \ D # {}
             PROVE  FALSE
  OBVIOUS
<1>1. PICK m \in Nat \ D : \A k \in Nat \ D : m <= k
  BY LeastNumber
<1>2. m # 0 /\ m - 1 \in Nat /\ m - 1 \in D
  BY <1>1
<1> QED BY <1>2

\* What the recursion of FlattenSeq defines, up to n.
Flat(ss, g, n) ==
  g = [i \in 1 .. n |-> IF i = 1 THEN ss[i] ELSE g[i - 1] \o ss[i]]

\* The recursion defines a function.
LEMMA FlattenExists ==
  ASSUME NEW ss, NEW n \in Nat
  PROVE  \E g : Flat(ss, g, n)
<1> DEFINE D == {k \in Nat : \E g : Flat(ss, g, k)}
<1>1. 0 \in D
  <2>1. Flat(ss, [i \in 1 .. 0 |-> 0], 0)
    BY DEF Flat
  <2> QED BY <2>1
<1>2. ASSUME NEW k \in D PROVE k + 1 \in D
  <2>1. PICK g : Flat(ss, g, k)
    OBVIOUS
  <2> DEFINE next == IF k + 1 = 1 THEN ss[k + 1] ELSE g[k] \o ss[k + 1]
             h == [i \in 1 .. (k + 1) |-> IF i = k + 1 THEN next ELSE g[i]]
  <2>a. k \in Nat /\ DOMAIN h = 1 .. (k + 1)
    OBVIOUS
  <2>b. \A i \in 1 .. k : g[i] = IF i = 1 THEN ss[i] ELSE g[i - 1] \o ss[i]
    <3> HIDE DEF D, h, next
    <3> QED BY <2>1 DEF Flat
  <2>c. \A i \in 1 .. k : h[i] = g[i]
    <3> HIDE DEF next
    <3> QED BY <2>a
  <2>2. ASSUME NEW i \in 1 .. (k + 1)
        PROVE  h[i] = IF i = 1 THEN ss[i] ELSE h[i - 1] \o ss[i]
    <3>1. CASE i = k + 1
      <4>1. h[i] = next
        BY <3>1 DEF next
      <4>2. k # 0 => h[i - 1] = g[k]
        <5> HIDE DEF next
        <5> QED BY <3>1, <2>a
      <4> HIDE DEF h
      <4> QED BY <3>1, <4>1, <4>2, <2>a
    <3>2. CASE i # k + 1
      <4>1. i \in 1 .. k /\ (i # 1 => i - 1 \in 1 .. k)
        BY <3>2, <2>a
      <4> HIDE DEF h
      <4> QED BY <4>1, <2>b, <2>c
    <3> QED BY <3>1, <3>2
  <2> HIDE DEF next
  <2>3. h = [i \in 1 .. (k + 1) |-> h[i]]
    OBVIOUS
  <2> HIDE DEF h
  <2>4. Flat(ss, h, k + 1)
    BY <2>2, <2>3 DEF Flat
  <2> QED BY <2>4, <2>a
<1> HIDE DEF D
<1>3. D = Nat
  <2>1. D \in SUBSET Nat
    BY DEF D
  <2> QED BY <1>1, <1>2, <2>1, SetInduction
<1> QED BY <1>3 DEF D

\* FlattenSeq is the last value of that function.
LEMMA FlattenIs ==
  ASSUME NEW ss, Len(ss) \in Nat, Len(ss) # 0
  PROVE  \E g : Flat(ss, g, Len(ss)) /\ FlattenSeq(ss) = g[Len(ss)]
<1> DEFINE g == CHOOSE g : Flat(ss, g, Len(ss))
<1>1. Flat(ss, g, Len(ss))
  BY FlattenExists
<1>2. FlattenSeq(ss) = g[Len(ss)]
  BY DEF FlattenSeq, Flat
<1> QED BY <1>1, <1>2

\* The elements of two sequences, one behind the other.
LEMMA ConcatRange ==
  ASSUME NEW S, NEW s \in Seq(S), NEW t \in Seq(S)
  PROVE  Range(s \o t) = Range(s) \cup Range(t)
<1>1. ASSUME NEW x \in Range(s \o t) PROVE x \in Range(s) \cup Range(t)
  <2>1. PICK i \in 1 .. Len(s) + Len(t) : x = (s \o t)[i]
    BY <1>1 DEF Range
  <2>2. CASE i <= Len(s)
    BY <2>1, <2>2 DEF Range
  <2>3. CASE i > Len(s)
    <3>1. x = t[i - Len(s)] /\ i - Len(s) \in 1 .. Len(t)
      BY <2>1, <2>3
    <3> QED BY <3>1 DEF Range
  <2> QED BY <2>1, <2>2, <2>3
<1>2. ASSUME NEW x \in Range(s) PROVE x \in Range(s \o t)
  <2>1. PICK i \in 1 .. Len(s) : x = s[i]
    BY <1>2 DEF Range
  <2>2. i \in 1 .. Len(s \o t) /\ x = (s \o t)[i]
    BY <2>1
  <2> QED BY <2>2 DEF Range
<1>3. ASSUME NEW x \in Range(t) PROVE x \in Range(s \o t)
  <2>1. PICK i \in 1 .. Len(t) : x = t[i]
    BY <1>3 DEF Range
  <2>2. i + Len(s) \in 1 .. Len(s \o t) /\ x = (s \o t)[i + Len(s)]
    BY <2>1
  <2> QED BY <2>2 DEF Range
<1> QED BY <1>1, <1>2, <1>3

\* The elements of sequences put one behind the other.
LEMMA FlattenRange ==
  ASSUME NEW S, NEW ss \in Seq(Seq(S)), ss # <<>>
  PROVE  /\ FlattenSeq(ss) \in Seq(S)
         /\ Range(FlattenSeq(ss)) = UNION {Range(ss[i]) : i \in DOMAIN ss}
<1> DEFINE n == Len(ss)
<1>0. n \in Nat /\ n # 0 /\ DOMAIN ss = 1 .. n /\ \A i \in 1 .. n : ss[i] \in Seq(S)
  OBVIOUS
<1> HIDE DEF n
<1>x. Len(ss) = n
  BY DEF n
<1> USE <1>0
<1>1. PICK g : Flat(ss, g, n) /\ FlattenSeq(ss) = g[n]
  BY <1>x, FlattenIs
<1>2. \A i \in 1 .. n : g[i] = IF i = 1 THEN ss[i] ELSE g[i - 1] \o ss[i]
  BY <1>1 DEF Flat
<1> DEFINE D == {k \in Nat : k \in 1 .. n =>
                   g[k] \in Seq(S) /\ Range(g[k]) = UNION {Range(ss[i]) : i \in 1 .. k}}
<1>3. 0 \in D
  OBVIOUS
<1>4. ASSUME NEW k \in D PROVE k + 1 \in D
  <2> SUFFICES ASSUME k + 1 \in 1 .. n
               PROVE  /\ g[k + 1] \in Seq(S)
                      /\ Range(g[k + 1]) = UNION {Range(ss[i]) : i \in 1 .. (k + 1)}
    OBVIOUS
  <2>1. CASE k = 0
    <3>1. g[1] = ss[1]
      BY <1>2
    <3>2. 1 .. 1 = {1}
      OBVIOUS
    <3>3. UNION {Range(ss[i]) : i \in {1}} = Range(ss[1])
      OBVIOUS
    <3> QED BY <2>1, <3>1, <3>2, <3>3
  <2>2. CASE k # 0
    <3>a. k \in 1 .. n /\ (k + 1) - 1 = k /\ k + 1 # 1
      BY <2>2
    <3>b. g[k + 1] = g[k] \o ss[k + 1]
      <4> HIDE DEF D
      <4> QED BY <1>2, <3>a
    <3>c. g[k] \in Seq(S) /\ Range(g[k]) = UNION {Range(ss[i]) : i \in 1 .. k}
      BY <3>a
    <3>e. k \in Nat
      OBVIOUS
    <3>d. ss[k + 1] \in Seq(S)
      OBVIOUS
    <3> HIDE DEF D
    <3>1. /\ g[k + 1] = g[k] \o ss[k + 1]
          /\ g[k] \in Seq(S) /\ Range(g[k]) = UNION {Range(ss[i]) : i \in 1 .. k}
          /\ ss[k + 1] \in Seq(S)
      BY <3>b, <3>c, <3>d
    <3>2. Range(g[k + 1]) = Range(g[k]) \cup Range(ss[k + 1])
      BY <3>1, ConcatRange
    <3>3. 1 .. (k + 1) = (1 .. k) \cup {k + 1}
      BY <3>e
    <3>4. UNION {Range(ss[i]) : i \in (1 .. k) \cup {k + 1}} =
            (UNION {Range(ss[i]) : i \in 1 .. k}) \cup Range(ss[k + 1])
      BY Zenon
    <3>5. g[k + 1] \in Seq(S)
      BY <3>1
    <3> QED BY <3>1, <3>2, <3>3, <3>4, <3>5
  <2> QED BY <2>1, <2>2
<1> HIDE DEF D
<1>5. D = Nat
  <2>1. D \in SUBSET Nat
    BY DEF D
  <2> QED BY <1>3, <1>4, <2>1, SetInduction
<1>6. n \in D /\ n \in 1 .. n
  BY <1>5
<1>7. g[n] \in Seq(S) /\ Range(g[n]) = UNION {Range(ss[i]) : i \in 1 .. n}
  BY <1>6 DEF D
<1> QED BY <1>1, <1>7
-----------------------------------------------------------------------------
(* What is read *)

\* The ids of sources; that the empty one is a string the provers do not know.
SourceNames == STRING \cup {""}

\* A sequence of strings is one of ids.
LEMMA SeqOfStrings == Seq(STRING) \subseteq Seq(SourceNames)
<1>1. ASSUME NEW S, NEW T, S \subseteq T
      PROVE  Seq(S) \subseteq Seq(T)
  <2> SUFFICES ASSUME NEW s \in Seq(S)
               PROVE  s \in Seq(T)
    OBVIOUS
  <2>1. Len(s) \in Nat /\ s = [i \in 1 .. Len(s) |-> s[i]]
    OBVIOUS
  <2>2. \A i \in 1 .. Len(s) : s[i] \in T
    BY <1>1
  <2> QED BY <2>1, <2>2
<1>2. STRING \subseteq SourceNames
  BY Zenon DEF SourceNames
<1> QED BY <1>1, <1>2, Zenon

\* Lists for the sources of a query, none of them empty.
Lists(sets) == \A id \in DOMAIN sets : sets[id] \in Seq(SourceNames) \ {<<>>}

\* A matcher is a record.
LEMMA MatcherFields ==
  ASSUME NEW m \in Matchers
  PROVE  DOMAIN m = {"name", "type", "value"}
BY DEF Matchers

\* A matcher asks for a source at least.
LEMMA AskedIDs ==
  ASSUME NEW m \in Matchers, m.type \in {"=", "=~"}
  PROVE  /\ IdsOf(m) \in Seq(SourceNames) /\ IdsOf(m) # <<>>
         /\ AddSourceIDs(m) = Range(IdsOf(m))
<1>1. m.value \in Seq(SourceNames) /\ (m.type = "=~" => m.value # <<>>)
  BY SeqOfStrings DEF Matchers
<1>2. <<"">> \in Seq(SourceNames) /\ <<"">> # <<>>
  BY DEF SourceNames
<1>3. IdsOf(m) = <<"">> \/ (IdsOf(m) = m.value /\ m.value # <<>>)
  BY <1>1 DEF IdsOf
<1>4. AddSourceIDs(m) = Range(IdsOf(m))
  BY DEF AddSourceIDs
<1> QED BY <1>1, <1>2, <1>3, <1>4

\* A matcher's sources are replaced by those listed for them.
LEMMA ReplacedIDs ==
  ASSUME NEW m \in Matchers, m.type \in {"=", "=~"}, NEW sets, Lists(sets),
         AddSourceIDs(m) \subseteq DOMAIN sets
  PROVE  AddSourceIDs(Replace(m, sets)) = UNION {Range(sets[id]) : id \in AddSourceIDs(m)}
<1> DEFINE asked == IdsOf(m)
           ss == [i \in DOMAIN asked |->
                    IF asked[i] \in DOMAIN sets THEN sets[asked[i]] ELSE <<>>]
           ids == FlattenSeq(ss)
<1>m. {"type", "value"} \subseteq DOMAIN m
  BY MatcherFields
<1>1. asked \in Seq(SourceNames) /\ asked # <<>> /\ AddSourceIDs(m) = Range(asked)
  BY AskedIDs
<1> HIDE DEF asked
<1>2. \A i \in DOMAIN asked : asked[i] \in DOMAIN sets /\ sets[asked[i]] \in Seq(SourceNames) \ {<<>>}
  BY <1>1 DEF Range, Lists
<1>3. ss = [i \in DOMAIN asked |-> sets[asked[i]]]
  BY <1>2
<1>4. DOMAIN asked = 1 .. Len(asked) /\ Len(asked) \in Nat /\ Len(asked) # 0
  BY <1>1
<1>5. ss \in Seq(Seq(SourceNames)) /\ ss # <<>> /\ DOMAIN ss = DOMAIN asked
  <2>1. \A i \in 1 .. Len(asked) : sets[asked[i]] \in Seq(SourceNames)
    BY <1>2, <1>4
  <2>2. ss = [i \in 1 .. Len(asked) |-> sets[asked[i]]]
    BY <1>3, <1>4
  <2> HIDE DEF ss
  <2>3. ss \in Seq(Seq(SourceNames)) /\ Len(ss) = Len(asked) /\ DOMAIN ss = 1 .. Len(asked)
    BY <1>4, <2>1, <2>2
  <2> QED BY <1>4, <2>3
<1> HIDE DEF ss
<1>6. ids \in Seq(SourceNames) /\ Range(ids) = UNION {Range(ss[i]) : i \in DOMAIN asked}
  BY <1>5, FlattenRange
<1>7. Range(ids) = UNION {Range(sets[id]) : id \in Range(asked)}
  <2>1. \A i \in DOMAIN asked : ss[i] = sets[asked[i]]
    BY <1>3
  <2>2. Range(asked) = {asked[i] : i \in DOMAIN asked}
    BY DEF Range
  <2> HIDE DEF ids
  <2>3. UNION {Range(ss[i]) : i \in DOMAIN asked} =
          UNION {Range(sets[asked[i]]) : i \in DOMAIN asked}
    BY <2>1
  <2>4. UNION {Range(sets[asked[i]]) : i \in DOMAIN asked} =
          UNION {Range(sets[id]) : id \in Range(asked)}
    BY <2>2
  <2> QED BY <1>6, <2>3, <2>4
<1>8. ids # <<>>
  <2>1. 1 \in DOMAIN asked /\ ss[1] \in Seq(SourceNames) \ {<<>>}
    BY <1>2, <1>3, <1>4
  <2>2. ss[1][1] \in Range(ss[1])
    BY <2>1 DEF Range
  <2>3. Range(ids) # {}
    BY <1>6, <2>1, <2>2
  <2> HIDE DEF ids
  <2> QED BY <2>3 DEF Range
<1>9. Replace(m, sets) = [m EXCEPT !.type = TypeFor(ids), !.value = ids]
  <2>1. ~(Range(asked) \cap DOMAIN sets = {})
    <3>1. 1 \in DOMAIN asked
      BY <1>4
    <3>2. asked[1] \in Range(asked) /\ asked[1] \in DOMAIN sets
      BY <1>2, <3>1 DEF Range
    <3> QED BY <3>2
  <2> QED BY <2>1 DEF Replace, asked, ss
<1> HIDE DEF ids
<1>10. /\ Replace(m, sets).type \in {"=", "=~"} /\ Replace(m, sets).value = ids
  BY <1>m, <1>9 DEF TypeFor
<1> QED BY <1>1, <1>7, <1>8, <1>10 DEF AddSourceIDs, IdsOf

\* So are those of a selector.
LEMMA SelectorIDs ==
  ASSUME NEW query \in Seq(Selectors), NEW sets, Lists(sets), NEW i \in 1 .. Len(query),
         DOMAIN sets = ExtractSourceIds(query)
  PROVE  SelectorSourceIDs(ReplaceSourceIdSets(query, sets)[i]) =
           UNION {Range(sets[id]) : id \in SelectorSourceIDs(query[i])}
<1> DEFINE sel == query[i]
           new == ReplaceSourceIdSets(query, sets)[i]
           Own(s) == {m \in s.matchers : m.name = "source_id"}
<1>1. sel \in Selectors
  OBVIOUS
<1>2. new.matchers = {ReplaceIn(m, sets) : m \in sel.matchers}
  BY <1>1 DEF ReplaceSourceIdSets, Selectors
<1>3. SelectorSourceIDs(sel) \subseteq DOMAIN sets
  BY DEF ExtractSourceIds
<1>4. \A m \in sel.matchers : m \in Matchers
  BY <1>1 DEF Selectors
<1> HIDE DEF sel, new
<1>5. ASSUME NEW m \in sel.matchers
      PROVE  ReplaceIn(m, sets).name = m.name
  BY <1>4, <1>5 DEF ReplaceIn, Replace, Matchers
<1>6. ASSUME NEW m \in Own(sel)
      PROVE  AddSourceIDs(ReplaceIn(m, sets)) =
               UNION {Range(sets[id]) : id \in AddSourceIDs(m)}
  <2>1. m \in Matchers /\ AddSourceIDs(m) \subseteq DOMAIN sets
    BY <1>3, <1>4, <1>6 DEF SelectorSourceIDs
  <2>2. CASE m.type \in {"=", "=~"}
    BY <1>6, <2>1, <2>2, ReplacedIDs DEF ReplaceIn
  <2>3. CASE m.type \notin {"=", "=~"}
    BY <2>3 DEF ReplaceIn, AddSourceIDs
  <2> QED BY <2>2, <2>3
<1>7. Own(new) = {ReplaceIn(m, sets) : m \in Own(sel)}
  BY <1>2, <1>5
<1>8. SelectorSourceIDs(new) = UNION {AddSourceIDs(ReplaceIn(m, sets)) : m \in Own(sel)}
  BY <1>7 DEF SelectorSourceIDs
<1>9. SelectorSourceIDs(sel) = UNION {AddSourceIDs(m) : m \in Own(sel)}
  BY DEF SelectorSourceIDs
<1> HIDE DEF Own
<1>10. SelectorSourceIDs(new) = UNION {Range(sets[id]) : id \in SelectorSourceIDs(sel)}
  BY <1>6, <1>8, <1>9
<1> QED BY <1>10 DEF new, sel

-----------------------------------------------------------------------------

ReadFields == {"at", "proxied", "asked", "query", "sets", "sel", "todo", "es", "series",
               "range", "raw", "failed", "status", "json", "partial"}

\* The query is the one asked, with the lists of the proxy for its sources.
Rewritten(j) ==
  /\ j.asked \in Seq(Selectors) /\ Lists(j.sets)
  /\ j.query = ReplaceSourceIdSets(j.asked, j.sets)
  /\ DOMAIN j.sets = ExtractSourceIds(j.asked)
  /\ \A id \in DOMAIN j.sets : j.sets[id] \in Authorized[id]

\* What is left to read is of the selector that is read.
Reads(j) ==
  /\ ReadFields \subseteq DOMAIN j
  /\ j.at = "http" => j.asked \in Seq(Selectors) /\ j.query = j.asked
  /\ j.at = "select" /\ j.proxied =>
       /\ Rewritten(j) /\ j.sel \in Nat \ {0}
       /\ j.todo # {} => /\ j.sel <= Len(j.query)
                         /\ j.todo \subseteq SelectorSourceIDs(j.query[j.sel])

ReadsInv == DOMAIN job = Requests /\ \A r \in Requests : Reads(job[r])

\* A selector is begun with its own sources.
LEMMA BeginReads ==
  ASSUME NEW j, ReadFields \subseteq DOMAIN j, j.at = "select", NEW i,
         j.proxied => Rewritten(j) /\ i \in Nat \ {0}
  PROVE  Reads(Begin(j, i))
<1> DEFINE k == Begin(j, i)
<1>1. /\ ReadFields \subseteq DOMAIN k /\ k.at = "select"
      /\ k.proxied = j.proxied /\ k.asked = j.asked /\ k.query = j.query /\ k.sets = j.sets
      /\ k.sel = i
      /\ k.todo = IF i > Len(j.query) THEN {} ELSE SelectorSourceIDs(j.query[i])
  BY DEF Begin, ReadFields
<1> HIDE DEF k
<1>2. j.proxied => Rewritten(k)
  BY <1>1 DEF Rewritten
<1>3. j.proxied /\ k.todo # {} => i <= Len(j.query)
  <2> SUFFICES ASSUME j.proxied, ~(i > Len(j.query))
               PROVE  i <= Len(j.query)
    BY <1>1
  <2>1. Len(j.query) \in Nat
    BY DEF Rewritten, ReplaceSourceIdSets
  <2> QED BY <2>1
<1> QED BY <1>1, <1>2, <1>3 DEF Reads, k

\* A refused query reads nothing.
LEMMA RespondedReads ==
  ASSUME NEW j, ReadFields \subseteq DOMAIN j, NEW status, NEW json
  PROVE  Reads(Responded(j, status, json))
  BY DEF Responded, Reads, ReadFields

\* The engine begins with the first selector, if it begins.
LEMMA ExecuteReads ==
  ASSUME NEW j, ReadFields \subseteq DOMAIN j, j.proxied => Rewritten(j)
  PROVE  Reads(Execute(j))
<1> DEFINE k == [j EXCEPT !.at = "select"]
<1>1. /\ ReadFields \subseteq DOMAIN k /\ k.at = "select" /\ k.proxied = j.proxied
      /\ k.asked = j.asked /\ k.query = j.query /\ k.sets = j.sets
  BY DEF ReadFields
<1> HIDE DEF k
<1>2. j.proxied => Rewritten(k)
  BY <1>1 DEF Rewritten
<1>3. Reads(Begin(k, 1))
  BY <1>1, <1>2, BeginReads
<1> QED BY <1>3, RespondedReads DEF Execute, k

\* One request changes at a time.
LEMMA ReadsSet ==
  ASSUME ReadsInv, NEW r \in Requests, NEW k, Reads(k), job' = [job EXCEPT ![r] = k]
  PROVE  ReadsInv'
<1>1. DOMAIN job' = Requests /\ \A s \in Requests : job'[s] = IF s = r THEN k ELSE job[s]
  BY DEF ReadsInv
<1>2. \A s \in Requests : Reads(job'[s])
  BY <1>1 DEF ReadsInv
<1> QED BY <1>1, <1>2 DEF ReadsInv, Reads, Rewritten

\* The proxy replaces the sources of the query that is asked.
LEMMA ProxyReads ==
  ASSUME ReadsInv, NEW r \in Requests, Proxy(r)
  PROVE  ReadsInv'
<1> DEFINE j == job[r]
           refusal(status) == Responded(j, status, MarshalError("bad_data"))
<1>1. ReadFields \subseteq DOMAIN j /\ j.asked \in Seq(Selectors) /\ j.query = j.asked
  BY DEF ReadsInv, Reads, Proxy
<1>2. \/ \E status \in {400, 404} : job' = [job EXCEPT ![r] = refusal(status)]
      \/ \E sets \in [ExtractSourceIds(j.query) ->
                        UNION {Authorized[i] : i \in DOMAIN Authorized}] :
           /\ \A i \in DOMAIN sets : sets[i] \in Authorized[i]
           /\ ~ \E i \in DOMAIN sets : sets[i] = <<>>
           /\ job' = [job EXCEPT ![r] =
                Execute([j EXCEPT !.sets = sets, !.query = ReplaceSourceIdSets(@, sets)])]
  BY ZenonT(40) DEF Proxy
<1>3. ASSUME NEW sets \in [ExtractSourceIds(j.query) ->
                             UNION {Authorized[i] : i \in DOMAIN Authorized}],
             \A i \in DOMAIN sets : sets[i] \in Authorized[i],
             ~ \E i \in DOMAIN sets : sets[i] = <<>>
      PROVE  Reads(Execute([j EXCEPT !.sets = sets, !.query = ReplaceSourceIdSets(@, sets)]))
  <2> DEFINE k == [j EXCEPT !.sets = sets, !.query = ReplaceSourceIdSets(@, sets)]
  <2>1. /\ ReadFields \subseteq DOMAIN k /\ k.asked = j.asked /\ k.sets = sets
        /\ k.query = ReplaceSourceIdSets(j.asked, sets)
    BY <1>1 DEF ReadFields
  <2>2. Lists(sets) /\ DOMAIN sets = ExtractSourceIds(j.asked)
    <3>1. \A id \in DOMAIN sets : sets[id] \in Seq(STRING) \ {<<>>}
      BY <1>1, <1>3, QueryAssumption
    <3>2. \A id \in DOMAIN sets : sets[id] \in Seq(SourceNames) \ {<<>>}
      BY <3>1, SeqOfStrings, Zenon
    <3>3. Lists(sets)
      BY <3>2, Zenon DEF Lists
    <3>4. DOMAIN sets = ExtractSourceIds(j.query)
      BY <1>3
    <3> QED BY <1>1, <3>3, <3>4, Zenon
  <2> HIDE DEF k
  <2>3. Rewritten(k)
    BY <1>1, <1>3, <2>1, <2>2 DEF Rewritten
  <2>4. Reads(Execute(k))
    BY <2>1, <2>3, ExecuteReads
  <2> QED BY <2>4 DEF k
<1>4. \A status : Reads(refusal(status))
  BY <1>1, RespondedReads
<1> HIDE DEF refusal
<1>5. \E k : Reads(k) /\ job' = [job EXCEPT ![r] = k]
  BY <1>2, <1>3, <1>4
<1> QED BY <1>5, ReadsSet

\* Without the proxy there is nothing to keep to.
LEMMA GatewayReads ==
  ASSUME ReadsInv, NEW r \in Requests, Gateway(r)
  PROVE  ReadsInv'
<1>1. ReadFields \subseteq DOMAIN job[r] /\ ~job[r].proxied
  BY DEF ReadsInv, Reads, Gateway
<1>2. Reads(Execute(job[r]))
  BY <1>1, ExecuteReads
<1>3. job' = [job EXCEPT ![r] = Execute(job[r])]
  BY DEF Gateway, ReadsInv
<1> QED BY <1>2, <1>3, ReadsSet

\* A query is sent as it was asked.
LEMMA IssueReads ==
  ASSUME ReadsInv, NEW r \in Requests, Issue(r)
  PROVE  ReadsInv'
<1>1. PICK ask \in Asks[r] :
        job' = [job EXCEPT ![r] =
          [NoJob EXCEPT !.at = "http", !.range = ask.range, !.raw = ask.raw,
                        !.proxied = ask.proxied, !.asked = ask.query,
                        !.query = ask.query]]
  BY DEF Issue
<1> DEFINE k == [NoJob EXCEPT !.at = "http", !.range = ask.range, !.raw = ask.raw,
                              !.proxied = ask.proxied, !.asked = ask.query,
                              !.query = ask.query]
<1>2. /\ ReadFields \subseteq DOMAIN k /\ k.at = "http"
      /\ k.asked = ask.query /\ k.query = ask.query
  BY DEF NoJob, ReadFields
<1> HIDE DEF k
<1>3. ask.query \in Seq(Selectors)
  BY QueryAssumption
<1>4. Reads(k)
  BY <1>2, <1>3 DEF Reads
<1>5. job' = [job EXCEPT ![r] = k]
  BY <1>1 DEF k
<1> QED BY <1>4, <1>5, ReadsSet

\* A read takes a source from those left, or the next selector begins.
LEMMA ReadSourceReads ==
  ASSUME ReadsInv, NEW r \in Requests, ReadSource(r)
  PROVE  ReadsInv'
<1> DEFINE j == job[r]
           added(s, read) == [j EXCEPT !.todo = @ \ {s}, !.es = @ \o read]
           next(k) == IF k.todo = {} THEN Begin(Selected(k, k.es), k.sel + 1) ELSE k
           short(k) == [k EXCEPT !.partial = TRUE]
           \* What a read leaves of the job.
           Still(k) == /\ ReadFields \subseteq DOMAIN k /\ k.at = "select"
                       /\ k.proxied = j.proxied /\ k.asked = j.asked
                       /\ k.query = j.query /\ k.sets = j.sets
                       /\ k.sel = j.sel /\ k.todo \subseteq j.todo
<1>1. Reads(j) /\ ReadFields \subseteq DOMAIN j /\ j.at = "select"
  BY DEF ReadsInv, Reads, ReadSource
<1>2. \/ \E s, es : job' = [job EXCEPT ![r] = next(added(s, es))]
      \/ \E s, es : job' = [job EXCEPT ![r] = next(short(added(s, es)))]
      \/ job' = [job EXCEPT ![r].failed = TRUE]
  BY DEF ReadSource
<1>3. ASSUME NEW k, Still(k)
      PROVE  Reads(k) /\ Reads(next(k))
  <2>1. Reads(k)
    BY <1>1, <1>3 DEF Reads, Rewritten
  <2> DEFINE m == Selected(k, k.es)
  <2>2. /\ ReadFields \subseteq DOMAIN m /\ m.at = "select"
        /\ m.proxied = k.proxied /\ m.asked = k.asked
        /\ m.query = k.query /\ m.sets = k.sets
    BY <1>3 DEF Selected, ReadFields
  <2> HIDE DEF m
  <2>3. j.proxied => Rewritten(m) /\ k.sel + 1 \in Nat \ {0}
    BY <1>1, <1>3, <2>2 DEF Reads, Rewritten
  <2>4. m.proxied = j.proxied
    BY <1>3, <2>2
  <2>5. Reads(Begin(m, k.sel + 1))
    BY <2>2, <2>3, <2>4, BeginReads
  <2> QED BY <2>1, <2>5 DEF m
<1>4. ASSUME NEW s, NEW es
      PROVE  Still(added(s, es)) /\ Still(short(added(s, es)))
  BY <1>1 DEF ReadFields
<1>5. ASSUME job' = [job EXCEPT ![r].failed = TRUE]
      PROVE  \E k : Reads(k) /\ job' = [job EXCEPT ![r] = k]
  <2> DEFINE k == [j EXCEPT !.failed = TRUE]
  <2>1. Still(k)
    BY <1>1 DEF ReadFields
  <2>2. job' = [job EXCEPT ![r] = k]
    BY <1>5 DEF ReadsInv
  <2> HIDE DEF k, Still
  <2> QED BY <1>3, <2>1, <2>2
<1> HIDE DEF added, short, next, Still
<1>6. \E k : Reads(k) /\ job' = [job EXCEPT ![r] = k]
  BY <1>2, <1>3, <1>4, <1>5
<1> QED BY <1>6, ReadsSet

\* An answer reads nothing.
LEMMA AnswerReads ==
  ASSUME ReadsInv, NEW r \in Requests, Respond(r) \/ Return(r)
  PROVE  ReadsInv'
<1> DEFINE j == job[r]
<1>1. ReadFields \subseteq DOMAIN j
  BY DEF ReadsInv, Reads
<1>2. CASE Respond(r)
  <2> DEFINE answer == Marshal(IF j.range THEN RangeResult(j) ELSE InstantResult(j))
  <2>a. job' = [job EXCEPT ![r] =
          IF j.failed THEN Responded(j, 500, MarshalError("internal"))
          ELSE Responded(j, 200, answer)]
    BY <1>2 DEF Respond
  <2> HIDE DEF answer
  <2>1. \E status, json : job' = [job EXCEPT ![r] = Responded(j, status, json)]
    BY <2>a, ZenonT(40)
  <2> QED BY <1>1, <2>1, RespondedReads, ReadsSet
<1>3. CASE Return(r)
  <2>1. PICK json : job' = [job EXCEPT ![r] = [j EXCEPT !.at = "done", !.json = json]]
    BY <1>3 DEF Return
  <2> DEFINE k == [j EXCEPT !.at = "done", !.json = json]
  <2>2. Reads(k)
    BY <1>1 DEF Reads, ReadFields
  <2> HIDE DEF k
  <2>3. job' = [job EXCEPT ![r] = k]
    BY <2>1 DEF k
  <2> QED BY <2>2, <2>3, ReadsSet
<1> QED BY <1>2, <1>3

\* No step widens what is read.
LEMMA ReadsNext == ReadsInv /\ [QueryNext]_vars => ReadsInv'
<1> SUFFICES ASSUME ReadsInv, [QueryNext]_vars
             PROVE  ReadsInv'
  OBVIOUS
<1>u. ASSUME UNCHANGED job
      PROVE  ReadsInv'
  BY <1>u DEF ReadsInv, Reads, Rewritten
<1>0. ASSUME NEW r \in Requests, job' = [job EXCEPT ![r] = NoJob]
      PROVE  ReadsInv'
  <2>1. Reads(NoJob)
    BY DEF NoJob, Reads, ReadFields
  <2> QED BY <1>0, <2>1, ReadsSet
<1>1. ASSUME NEW r \in Requests,
             Issue(r) \/ Proxy(r) \/ Gateway(r) \/ ReadSource(r) \/ Respond(r) \/ Return(r)
      PROVE  ReadsInv'
  BY <1>1, IssueReads, ProxyReads, GatewayReads, ReadSourceReads, AnswerReads
<1>2. ASSUME NEW r \in Requests, Authenticate(r)
      PROVE  ReadsInv'
  BY <1>2, <1>u DEF Authenticate
<1>3. ASSUME NEW r \in Requests, GiveUp(r) \/ Finish(r)
      PROVE  ReadsInv'
  BY <1>3, <1>0 DEF GiveUp, Finish
<1>4. CASE Revoke /\ UNCHANGED <<store, job, faults, refused>>
  BY <1>4, <1>u
<1>5. CASE UNCHANGED vars
  BY <1>5, <1>u DEF vars
<1> QED BY <1>1, <1>2, <1>3, <1>4, <1>5 DEF QueryNext

\* Whatever is asked and whatever the proxy's lists are, a proxied query reads sources
\* that were authorized for those it asks for, and no others (cf_auth_middleware.go,
\* Handler; promql.go, ReplaceSourceIdSets and Select).
THEOREM OnlyAllowedIsRead == QuerySpec => []OnlyAllowedRead
<1>1. QueryInit => ReadsInv
  BY DEF QueryInit, NoJob, ReadsInv, Reads, ReadFields
<1>2. ReadsInv => OnlyAllowedRead
  <2> SUFFICES ASSUME ReadsInv, NEW r \in Requests, job[r].at = "select", job[r].proxied
               PROVE  /\ \A id \in DOMAIN job[r].sets : job[r].sets[id] \in Authorized[id]
                      /\ job[r].todo # {} => job[r].todo \subseteq Wanted(job[r], job[r].sel)
    BY DEF OnlyAllowedRead
  <2> DEFINE j == job[r]
  <2>1. Reads(j)
    BY DEF ReadsInv
  <2>2. Rewritten(j)
    BY <2>1 DEF Reads
  <2>3. ASSUME j.todo # {}
        PROVE  j.todo \subseteq Wanted(j, j.sel)
    <3>1. /\ j.sel \in Nat \ {0} /\ j.sel <= Len(j.query)
          /\ j.todo \subseteq SelectorSourceIDs(j.query[j.sel])
      BY <2>1, <2>3 DEF Reads
    <3>2. Len(j.query) = Len(j.asked) /\ Len(j.asked) \in Nat
      BY <2>2 DEF Rewritten, ReplaceSourceIdSets
    <3>3. j.sel \in 1 .. Len(j.asked)
      BY <3>1, <3>2
    <3>4. SelectorSourceIDs(j.query[j.sel]) =
            UNION {Range(j.sets[id]) : id \in SelectorSourceIDs(j.asked[j.sel])}
      <4>1. j.query = ReplaceSourceIdSets(j.asked, j.sets)
        BY <2>2 DEF Rewritten
      <4>2. /\ j.asked \in Seq(Selectors) /\ Lists(j.sets)
            /\ DOMAIN j.sets = ExtractSourceIds(j.asked)
        BY <2>2 DEF Rewritten
      <4>3. PICK asked, sets, i : asked = j.asked /\ sets = j.sets /\ i = j.sel
        OBVIOUS
      <4>4. /\ asked \in Seq(Selectors) /\ Lists(sets) /\ i \in 1 .. Len(asked)
            /\ DOMAIN sets = ExtractSourceIds(asked)
            /\ j.query[j.sel] = ReplaceSourceIdSets(asked, sets)[i]
        BY <3>3, <4>1, <4>2, <4>3
      <4>5. SelectorSourceIDs(ReplaceSourceIdSets(asked, sets)[i]) =
              UNION {Range(sets[id]) : id \in SelectorSourceIDs(asked[i])}
        BY <4>4, SelectorIDs
      <4> QED BY <4>3, <4>4, <4>5
    <3>5. \A s : ToSet(s) = Range(s)
      BY DEF ToSet, Range
    <3>6. Wanted(j, j.sel) =
            UNION {Range(j.sets[id]) : id \in SelectorSourceIDs(j.asked[j.sel])}
      BY <3>5 DEF Wanted
    <3> QED BY <3>1, <3>4, <3>6
  <2> QED BY <2>2, <2>3 DEF Rewritten
<1> QED BY <1>1, <1>2, ReadsNext, PTL DEF QuerySpec
-----------------------------------------------------------------------------
(* From the gateway to the client *)

\* What an array of pairs is decoded to.
LEMMA PointBack ==
  ASSUME NEW T, NEW V, NEW p \in [t : T, v : V]
  PROVE  PointOf(Point(p)) = p
BY DEF PointOf, Point

\* A series is what its JSON says.
LEMMA SeriesBack ==
  ASSUME NEW L, NEW T, NEW V, NEW s \in [labels : L, points : Seq([t : T, v : V])]
  PROVE  SeriesOf(SeriesJson(s)) = s
<1> DEFINE json == SeriesJson(s)
           n == Len(s.points)
<1>1. n \in Nat /\ s.points \in Seq([t : T, v : V]) /\ DOMAIN s.points = 1 .. n
  OBVIOUS
<1> DEFINE values == [i \in 1 .. n |-> Point(s.points[i])]
<1>2. json = [metric |-> s.labels, values |-> values]
  BY <1>1 DEF SeriesJson, Map
<1>v. DOMAIN values = 1 .. n /\ \A i \in 1 .. n : values[i] = Point(s.points[i])
  OBVIOUS
<1> HIDE DEF values, json
<1>a. SeriesOf(json) = [labels |-> s.labels, points |-> [i \in DOMAIN values |-> PointOf(values[i])]]
  BY <1>2 DEF SeriesOf, Map
<1>3. SeriesOf(json) = [labels |-> s.labels,
                        points |-> [i \in 1 .. n |-> PointOf(Point(s.points[i]))]]
  BY <1>a, <1>v
<1>b. \A i \in 1 .. n : s.points[i] \in [t : T, v : V]
  <2>1. ASSUME NEW S, NEW q \in Seq(S)
        PROVE  \A i \in 1 .. Len(q) : q[i] \in S
    OBVIOUS
  <2> QED BY <1>1, <2>1, Zenon
<1>4. \A i \in 1 .. n : PointOf(Point(s.points[i])) = s.points[i]
  <2> HIDE DEF n
  <2> QED BY <1>b, PointBack
<1> HIDE DEF n, json
<1>5. [i \in 1 .. n |-> PointOf(Point(s.points[i]))] = [i \in 1 .. n |-> s.points[i]]
  BY <1>4
<1>6. s.points = [i \in 1 .. n |-> s.points[i]]
  BY <1>1
<1>7. SeriesOf(json) = [labels |-> s.labels, points |-> s.points]
  BY <1>3, <1>5, <1>6
<1> QED BY <1>7 DEF json

\* A sample is what its JSON says.
LEMMA SampleBack ==
  ASSUME NEW L, NEW T, NEW V, NEW s \in [labels : L, point : [t : T, v : V]]
  PROVE  SampleOf(SampleJson(s)) = s
BY DEF SampleOf, SampleJson, PointOf, Point

\* So is a vector of samples.
LEMMA VectorBack ==
  ASSUME NEW samples, \A s \in samples : SampleOf(SampleJson(s)) = s
  PROVE  Decode(Marshal(Vector(samples)), FALSE) = Vector(samples)
<1> DEFINE json == {SampleJson(s) : s \in samples}
<1>1. Marshal(Vector(samples)) = [status |-> "success", resultType |-> "vector", result |-> json]
  BY DEF Marshal, Vector, Json
<1> HIDE DEF json
<1>2. Decode(Marshal(Vector(samples)), FALSE) = Vector({SampleOf(s) : s \in json})
  BY <1>1 DEF Decode, Disassemble
<1>3. {SampleOf(s) : s \in json} = samples
  BY DEF json
<1> QED BY <1>2, <1>3

\* So is a matrix of series, whichever query it answers.
LEMMA MatrixBack ==
  ASSUME NEW isRange, NEW series, \A s \in series : SeriesOf(SeriesJson(s)) = s
  PROVE  Decode(Marshal(Matrix(series)), isRange) = Matrix(series)
<1> DEFINE json == {SeriesJson(s) : s \in series}
<1>1. Marshal(Matrix(series)) = [status |-> "success", resultType |-> "matrix", result |-> json]
  BY DEF Marshal, Matrix, Json
<1> HIDE DEF json
<1>2. Decode(Marshal(Matrix(series)), isRange) = Matrix({SeriesOf(s) : s \in json})
  BY <1>1 DEF Decode, Disassemble
<1>3. {SeriesOf(s) : s \in json} = series
  BY DEF json
<1> QED BY <1>2, <1>3

\* And a scalar.
LEMMA ScalarBack ==
  ASSUME NEW T, NEW V, NEW p \in [t : T, v : V]
  PROVE  Decode(Marshal(Scalar(p)), FALSE) = Scalar(p)
<1>1. Marshal(Scalar(p)) = [status |-> "success", resultType |-> "scalar", result |-> Point(p)]
  BY DEF Marshal, Scalar, Json
<1>2. Decode(Marshal(Scalar(p)), FALSE) = Scalar(PointOf(Point(p)))
  BY <1>1 DEF Decode, Disassemble
<1> QED BY <1>2, PointBack

\* What a client decodes is the result the gateway marshaled, a range query's if it
\* is a matrix and an instant query's of every type (marshaler.go, Marshal and
\* Unmarshal; client.go, PromQL and PromQLRange).
THEOREM MarshaledIsDecoded ==
  ASSUME NEW L, NEW T, NEW V,
         NEW p \in [t : T, v : V],
         NEW samples \in SUBSET [labels : L, point : [t : T, v : V]],
         NEW series \in SUBSET [labels : L, points : Seq([t : T, v : V])],
         NEW isRange \in BOOLEAN
  PROVE  /\ Decode(Marshal(Scalar(p)), FALSE) = Scalar(p)
         /\ Decode(Marshal(Vector(samples)), FALSE) = Vector(samples)
         /\ Decode(Marshal(Matrix(series)), isRange) = Matrix(series)
<1>1. Decode(Marshal(Scalar(p)), FALSE) = Scalar(p)
  BY ScalarBack
<1>2. Decode(Marshal(Vector(samples)), FALSE) = Vector(samples)
  <2>1. \A s \in samples : SampleOf(SampleJson(s)) = s
    BY SampleBack
  <2> QED BY <2>1, VectorBack
<1>3. Decode(Marshal(Matrix(series)), isRange) = Matrix(series)
  <2>1. \A s \in series : SeriesOf(SeriesJson(s)) = s
    BY SeriesBack
  <2> QED BY <2>1, MatrixBack
<1> QED BY <1>1, <1>2, <1>3
-----------------------------------------------------------------------------
(* The types of a query's state *)

\* A sequence, of whatever.
IsSequence(s) == \E S : s \in Seq(S)

\* An answer, or a series for each selector before the one that is read.
JobTyped(j) ==
  /\ ReadFields \subseteq DOMAIN j
  /\ j.at \in {"idle", "http", "select", "responded", "done"}
  /\ j.status \in {0, 200, 400, 404, 500}
  /\ IsSequence(j.query) /\ IsSequence(j.series)
  /\ j.at = "select" => j.sel \in 1 .. Len(j.query) + 1 /\ Len(j.series) = j.sel - 1
  /\ j.at = "select" /\ ~j.failed => (j.todo = {} <=> j.sel > Len(j.query))
  /\ j.at # "select" => j.series = <<>>

JobsTyped == DOMAIN job = Requests /\ \A r \in Requests : JobTyped(job[r])

CountsTyped == store \in Stores /\ faults \in 0 .. MaxFaults

\* A sequence of one more.
LEMMA AppendIsSequence ==
  ASSUME NEW s, IsSequence(s), NEW x
  PROVE  IsSequence(Append(s, x)) /\ Len(Append(s, x)) = Len(s) + 1 /\ Len(s) \in Nat
<1>1. PICK S : s \in Seq(S)
  BY DEF IsSequence
<1> DEFINE T == S \cup {x}
<1>2. s \in Seq(T) /\ x \in T /\ Len(s) \in Nat
  BY <1>1
<1> HIDE DEF T
<1>3. Append(s, x) \in Seq(T) /\ Len(Append(s, x)) = Len(s) + 1
  BY <1>2
<1> QED BY <1>2, <1>3 DEF IsSequence

\* The empty one.
LEMMA EmptyIsSequence == IsSequence(<<>>) /\ Len(<<>>) = 0
<1>1. <<>> \in Seq({})
  OBVIOUS
<1> QED BY <1>1 DEF IsSequence

\* A selector is begun with as many series as there are selectors before it.
LEMMA BegunTyped ==
  ASSUME NEW j, ReadFields \subseteq DOMAIN j, j.at = "select",
         j.status \in {0, 200, 400, 404, 500},
         IsSequence(j.query), IsSequence(j.series),
         NEW i \in 1 .. Len(j.query) + 1, Len(j.series) = i - 1
  PROVE  JobTyped(Begin(j, i))
<1> DEFINE k == Begin(j, i)
           ids == SelectorSourceIDs(j.query[i])
<1>1. /\ ReadFields \subseteq DOMAIN k /\ k.at = "select" /\ k.status = j.status
      /\ k.query = j.query /\ k.series = j.series /\ k.sel = i
      /\ i > Len(j.query) => k.todo = {}
      /\ ~(i > Len(j.query)) => k.todo = ids /\ (~k.failed => ids # {})
  BY DEF Begin, ReadFields
<1> HIDE DEF k, ids
<1>2. ~k.failed => (k.todo = {} <=> i > Len(j.query))
  BY <1>1
<1>3. JobTyped(k)
  BY <1>1, <1>2 DEF JobTyped
<1> QED BY <1>3 DEF k

\* An answer drops what was gathered.
LEMMA RespondedTyped ==
  ASSUME NEW j, ReadFields \subseteq DOMAIN j, IsSequence(j.query), NEW json,
         NEW status \in {200, 400, 404, 500}
  PROVE  JobTyped(Responded(j, status, json))
<1> DEFINE k == Responded(j, status, json)
<1>1. /\ ReadFields \subseteq DOMAIN k /\ k.at = "responded" /\ k.status = status
      /\ k.query = j.query /\ k.series = <<>>
  BY DEF Responded, ReadFields
<1> HIDE DEF k
<1>2. JobTyped(k)
  BY <1>1, EmptyIsSequence DEF JobTyped
<1> QED BY <1>2 DEF k

\* The engine begins with no series.
LEMMA ExecutedTyped ==
  ASSUME NEW j, ReadFields \subseteq DOMAIN j, IsSequence(j.query), j.series = <<>>,
         j.status \in {0, 200, 400, 404, 500}
  PROVE  JobTyped(Execute(j))
<1> DEFINE k == [j EXCEPT !.at = "select"]
<1>1. /\ ReadFields \subseteq DOMAIN k /\ k.at = "select" /\ k.status = j.status
      /\ k.query = j.query /\ k.series = j.series
  BY DEF ReadFields
<1> HIDE DEF k
<1>2. Len(j.query) \in Nat
  BY DEF IsSequence
<1>3. 1 \in 1 .. Len(k.query) + 1 /\ Len(k.series) = 1 - 1
  BY <1>1, <1>2, EmptyIsSequence
<1>4. JobTyped(Begin(k, 1))
  BY <1>1, <1>3, EmptyIsSequence, BegunTyped
<1>5. JobTyped(Responded(j, 500, MarshalError("internal")))
  BY RespondedTyped
<1> QED BY <1>4, <1>5 DEF Execute, k

\* One request changes at a time.
LEMMA JobsTypedSet ==
  ASSUME JobsTyped, NEW r \in Requests, NEW k, JobTyped(k), job' = [job EXCEPT ![r] = k]
  PROVE  JobsTyped'
<1>1. DOMAIN job' = Requests /\ \A s \in Requests : job'[s] = IF s = r THEN k ELSE job[s]
  BY DEF JobsTyped
<1>2. \A s \in Requests : JobTyped(job'[s])
  BY <1>1 DEF JobsTyped
<1> QED BY <1>1, <1>2 DEF JobsTyped, JobTyped

\* A query is sent, and refused or passed on, as a sequence of selectors.
LEMMA SentTyped ==
  ASSUME JobsTyped, NEW r \in Requests, Issue(r) \/ Proxy(r) \/ Gateway(r)
  PROVE  JobsTyped'
<1> DEFINE j == job[r]
<1>0. JobTyped(j) /\ ReadFields \subseteq DOMAIN j /\ r \in DOMAIN job
  BY DEF JobsTyped, JobTyped
<1>1. CASE Issue(r)
  <2>1. PICK ask \in Asks[r] :
          job' = [job EXCEPT ![r] =
            [NoJob EXCEPT !.at = "http", !.range = ask.range, !.raw = ask.raw,
                          !.proxied = ask.proxied, !.asked = ask.query,
                          !.query = ask.query]]
    BY <1>1 DEF Issue
  <2> DEFINE k == [NoJob EXCEPT !.at = "http", !.range = ask.range, !.raw = ask.raw,
                                !.proxied = ask.proxied, !.asked = ask.query,
                                !.query = ask.query]
  <2>2. /\ ReadFields \subseteq DOMAIN k /\ k.at = "http" /\ k.status = 0
        /\ k.query = ask.query /\ k.series = <<>>
    BY DEF NoJob, ReadFields
  <2> HIDE DEF k
  <2>3. IsSequence(ask.query)
    BY QueryAssumption DEF IsSequence
  <2>4. JobTyped(k)
    BY <2>2, <2>3, EmptyIsSequence DEF JobTyped
  <2>5. job' = [job EXCEPT ![r] = k]
    BY <2>1 DEF k
  <2> QED BY <2>4, <2>5, JobsTypedSet
<1>2. CASE Proxy(r)
  <2> DEFINE refusal(status) == Responded(j, status, MarshalError("bad_data"))
  <2>1. \/ \E status \in {400, 404} : job' = [job EXCEPT ![r] = refusal(status)]
        \/ \E sets : job' = [job EXCEPT ![r] =
             Execute([j EXCEPT !.sets = sets, !.query = ReplaceSourceIdSets(@, sets)])]
    BY <1>2, ZenonT(40) DEF Proxy
  <2>2. j.at = "http" /\ j.series = <<>> /\ IsSequence(j.query)
        /\ j.status \in {0, 200, 400, 404, 500}
    BY <1>0, <1>2 DEF Proxy, JobTyped
  <2>3. ASSUME NEW sets
        PROVE  JobTyped(Execute([j EXCEPT !.sets = sets, !.query = ReplaceSourceIdSets(@, sets)]))
    <3> DEFINE k == [j EXCEPT !.sets = sets, !.query = ReplaceSourceIdSets(@, sets)]
    <3>1. /\ ReadFields \subseteq DOMAIN k /\ k.status = j.status /\ k.series = j.series
          /\ k.query = ReplaceSourceIdSets(j.query, sets)
      BY <1>0 DEF ReadFields
    <3>2. IsSequence(ReplaceSourceIdSets(j.query, sets))
      <4>1. DOMAIN j.query = 1 .. Len(j.query) /\ Len(j.query) \in Nat
        BY <2>2 DEF IsSequence
      <4> DEFINE n == Len(j.query)
                 q == ReplaceSourceIdSets(j.query, sets)
                 S == {q[i] : i \in 1 .. n}
      <4>2. q = [i \in 1 .. n |-> q[i]] /\ n \in Nat
        BY <4>1 DEF ReplaceSourceIdSets
      <4> HIDE DEF q, n
      <4>3. [i \in 1 .. n |-> q[i]] \in Seq(S)
        BY <4>2
      <4>4. q \in Seq(S)
        BY <4>2, <4>3
      <4> QED BY <4>4 DEF IsSequence, q
    <3> HIDE DEF k
    <3>3. JobTyped(Execute(k))
      BY <2>2, <3>1, <3>2, ExecutedTyped
    <3> QED BY <3>3 DEF k
  <2>4. \A status \in {400, 404} : JobTyped(refusal(status))
    BY <1>0, <2>2, RespondedTyped
  <2> HIDE DEF refusal
  <2>5. \E k : JobTyped(k) /\ job' = [job EXCEPT ![r] = k]
    BY <2>1, <2>3, <2>4, ZenonT(40)
  <2> QED BY <2>5, JobsTypedSet
<1>3. CASE Gateway(r)
  <2>1. j.at = "http" /\ job' = [job EXCEPT ![r] = Execute(j)]
    BY <1>0, <1>3 DEF Gateway
  <2>2. JobTyped(Execute(j))
    BY <1>0, <2>1, ExecutedTyped DEF JobTyped
  <2> QED BY <2>1, <2>2, JobsTypedSet
<1> QED BY <1>1, <1>2, <1>3

\* With the last source of a selector, its series is appended.
LEMMA ReadTyped ==
  ASSUME JobsTyped, NEW r \in Requests, ReadSource(r)
  PROVE  JobsTyped'
<1> DEFINE j == job[r]
           added(s, read) == [j EXCEPT !.todo = @ \ {s}, !.es = @ \o read]
           next(k) == IF k.todo = {} THEN Begin(Selected(k, k.es), k.sel + 1) ELSE k
           short(k) == [k EXCEPT !.partial = TRUE]
           Still(k) == /\ ReadFields \subseteq DOMAIN k /\ k.at = "select"
                       /\ k.query = j.query /\ k.sel = j.sel /\ k.series = j.series
                       /\ k.status = j.status
<1>1. JobTyped(j) /\ ReadFields \subseteq DOMAIN j /\ j.at = "select" /\ j.todo # {} /\ ~j.failed
  BY DEF JobsTyped, JobTyped, ReadSource
<1>2. \/ \E s, es : job' = [job EXCEPT ![r] = next(added(s, es))]
      \/ \E s, es : job' = [job EXCEPT ![r] = next(short(added(s, es)))]
      \/ job' = [job EXCEPT ![r].failed = TRUE]
  BY DEF ReadSource
<1>3. /\ IsSequence(j.query) /\ IsSequence(j.series) /\ j.status \in {0, 200, 400, 404, 500}
      /\ Len(j.query) \in Nat /\ j.sel \in 1 .. Len(j.query) /\ Len(j.series) = j.sel - 1
  <2>1. Len(j.query) \in Nat
    BY <1>1 DEF JobTyped, IsSequence
  <2> QED BY <1>1, <2>1 DEF JobTyped
<1>4. ASSUME NEW k, Still(k)
      PROVE  JobTyped(Begin(Selected(k, k.es), k.sel + 1))
  <2> DEFINE m == Selected(k, k.es)
             x == BuildSeriesSet(Within(k.es, {e \in ToSet(k.es) : Matches(e, k.query[k.sel])}),
                                 k.query[k.sel])
  <2>1. /\ ReadFields \subseteq DOMAIN m /\ m.at = "select" /\ m.query = k.query
        /\ m.series = Append(k.series, x) /\ m.status = k.status
    BY <1>4 DEF Selected, ReadFields
  <2> HIDE DEF m, x
  <2>2. /\ IsSequence(m.series) /\ Len(m.series) = j.sel - 1 + 1
    BY <1>3, <1>4, <2>1, AppendIsSequence
  <2>3. k.sel + 1 \in 1 .. Len(m.query) + 1 /\ Len(m.series) = k.sel + 1 - 1
    BY <1>3, <1>4, <2>1, <2>2
  <2> DEFINE i == k.sel + 1
  <2>4. /\ m.status \in {0, 200, 400, 404, 500} /\ IsSequence(m.query)
        /\ i \in 1 .. Len(m.query) + 1 /\ Len(m.series) = i - 1
    BY <1>3, <1>4, <2>1, <2>3
  <2> HIDE DEF i
  <2>5. JobTyped(Begin(m, i))
    BY <2>1, <2>2, <2>4, BegunTyped
  <2> QED BY <2>5 DEF m, i
<1>5. ASSUME NEW k, Still(k), k.todo # {}
      PROVE  JobTyped(k)
  BY <1>3, <1>5 DEF JobTyped
<1>6. ASSUME NEW s, NEW es
      PROVE  Still(added(s, es)) /\ Still(short(added(s, es)))
  BY <1>1 DEF ReadFields
<1>7. ASSUME job' = [job EXCEPT ![r].failed = TRUE]
      PROVE  \E k : JobTyped(k) /\ job' = [job EXCEPT ![r] = k]
  <2> DEFINE k == [j EXCEPT !.failed = TRUE]
  <2>1. Still(k) /\ k.todo # {}
    BY <1>1 DEF ReadFields
  <2>2. job' = [job EXCEPT ![r] = k]
    BY <1>7 DEF JobsTyped
  <2> HIDE DEF k, Still
  <2> QED BY <1>5, <2>1, <2>2
<1>8. ASSUME NEW k, Still(k)
      PROVE  JobTyped(next(k))
  BY <1>4, <1>5, <1>8
<1> HIDE DEF added, short, next, Still
<1>9. \E k : JobTyped(k) /\ job' = [job EXCEPT ![r] = k]
  BY <1>2, <1>6, <1>7, <1>8
<1> QED BY <1>9, JobsTypedSet

\* An answer leaves the types.
LEMMA AnsweredTyped ==
  ASSUME JobsTyped, NEW r \in Requests, Respond(r) \/ Return(r)
  PROVE  JobsTyped'
<1> DEFINE j == job[r]
<1>0. JobTyped(j) /\ ReadFields \subseteq DOMAIN j /\ IsSequence(j.query)
  BY DEF JobsTyped, JobTyped
<1>1. CASE Respond(r)
  <2> DEFINE answer == Marshal(IF j.range THEN RangeResult(j) ELSE InstantResult(j))
  <2>1. job' = [job EXCEPT ![r] =
          IF j.failed THEN Responded(j, 500, MarshalError("internal"))
          ELSE Responded(j, 200, answer)]
    BY <1>1 DEF Respond
  <2> HIDE DEF answer
  <2>2. JobTyped(Responded(j, 500, MarshalError("internal"))) /\ JobTyped(Responded(j, 200, answer))
    BY <1>0, RespondedTyped
  <2> QED BY <2>1, <2>2, JobsTypedSet, ZenonT(40)
<1>2. CASE Return(r)
  <2>1. j.at = "responded" /\ \E json : job' = [job EXCEPT ![r] = [j EXCEPT !.at = "done", !.json = json]]
    BY <1>2 DEF Return
  <2>2. PICK json : job' = [job EXCEPT ![r] = [j EXCEPT !.at = "done", !.json = json]]
    BY <2>1
  <2> DEFINE k == [j EXCEPT !.at = "done", !.json = json]
  <2>3. /\ ReadFields \subseteq DOMAIN k /\ k.at = "done" /\ k.status = j.status
        /\ k.query = j.query /\ k.series = j.series
    BY <1>0 DEF ReadFields
  <2> HIDE DEF k
  <2>4. JobTyped(k)
    BY <1>0, <2>1, <2>3 DEF JobTyped
  <2>5. job' = [job EXCEPT ![r] = k]
    BY <2>2 DEF k
  <2> QED BY <2>4, <2>5, JobsTypedSet
<1> QED BY <1>1, <1>2

\* Every step keeps the types of the jobs.
LEMMA JobsTypedNext == JobsTyped /\ [QueryNext]_vars => JobsTyped'
<1> SUFFICES ASSUME JobsTyped, [QueryNext]_vars PROVE JobsTyped'
  OBVIOUS
<1>u. ASSUME UNCHANGED job PROVE JobsTyped'
  BY <1>u DEF JobsTyped, JobTyped
<1>0. ASSUME NEW r \in Requests, job' = [job EXCEPT ![r] = NoJob] PROVE JobsTyped'
  <2>1. JobTyped(NoJob)
    BY EmptyIsSequence DEF NoJob, JobTyped, ReadFields
  <2> QED BY <1>0, <2>1, JobsTypedSet
<1>1. ASSUME NEW r \in Requests,
             Issue(r) \/ Proxy(r) \/ Gateway(r) \/ ReadSource(r) \/ Respond(r) \/ Return(r)
      PROVE  JobsTyped'
  BY <1>1, SentTyped, ReadTyped, AnsweredTyped
<1>2. ASSUME NEW r \in Requests, Authenticate(r) PROVE JobsTyped'
  BY <1>2, <1>u DEF Authenticate
<1>3. ASSUME NEW r \in Requests, GiveUp(r) \/ Finish(r) PROVE JobsTyped'
  BY <1>3, <1>0 DEF GiveUp, Finish
<1>4. CASE Revoke /\ UNCHANGED <<store, job, faults, refused>>
  BY <1>4, <1>u
<1>5. CASE UNCHANGED vars
  BY <1>5, <1>u DEF vars
<1> QED BY <1>1, <1>2, <1>3, <1>4, <1>5 DEF QueryNext

\* Every step keeps to the bound of the faults.
LEMMA CountsTypedNext == CountsTyped /\ [QueryNext]_vars => CountsTyped'
<1> SUFFICES ASSUME CountsTyped, [QueryNext]_vars PROVE CountsTyped'
  OBVIOUS
<1>0. store \in Stores /\ faults \in 0 .. MaxFaults /\ MaxFaults \in Nat
  BY QueryAssumption DEF CountsTyped
<1>1. store' = store
  BY DEF QueryNext, Issue, Authenticate, Proxy, Gateway, ReadSource, Respond, Return, GiveUp,
         Finish, vars
<1> DEFINE Counted == faults' = faults \/ (faults' = faults + 1 /\ faults + 1 <= MaxFaults)
<1>2. Counted
  <2>1. ASSUME NEW r \in Requests, Authenticate(r) PROVE Counted
    <3>1. faults' = faults \/ faults' = faults + 1
      BY <2>1 DEF Authenticate
    <3>2. faults' <= MaxFaults
      BY <2>1 DEF Authenticate
    <3> QED BY <3>1, <3>2
  <2>2. ASSUME NEW r \in Requests, ReadSource(r) \/ GiveUp(r) PROVE Counted
    <3>1. faults' = faults \/ (faults' = faults + 1 /\ faults < MaxFaults)
      BY <2>2 DEF ReadSource, GiveUp
    <3>2. faults < MaxFaults => faults + 1 <= MaxFaults
      BY <1>0
    <3> QED BY <3>1, <3>2
  <2>3. ASSUME NEW r \in Requests,
               Issue(r) \/ Proxy(r) \/ Gateway(r) \/ Respond(r) \/ Return(r) \/ Finish(r)
        PROVE  Counted
    BY <2>3 DEF Issue, Proxy, Gateway, Respond, Return, Finish
  <2>4. CASE UNCHANGED vars
    BY <2>4 DEF vars
  <2> HIDE DEF Counted
  <2>5. UNCHANGED faults => Counted
    BY DEF Counted
  <2> QED BY <2>1, <2>2, <2>3, <2>4, <2>5 DEF QueryNext
<1> QED BY <1>0, <1>1, <1>2 DEF CountsTyped

\* The state of queries keeps its types: whatever fails, what was gathered is dropped
\* with the answer, and a query that has not failed reads on until all of its
\* selectors have their series (promql.go, Select and InstantQuery).
THEOREM QueriesTypeCorrect == QuerySpec => []QueryTypeOK
<1> DEFINE I == FetchInv /\ JobsTyped /\ CountsTyped
<1>1. QueryInit => I
  <2> SUFFICES ASSUME QueryInit PROVE I
    OBVIOUS
  <2>1. JobTyped(NoJob)
    BY EmptyIsSequence DEF NoJob, JobTyped, ReadFields
  <2>2. JobsTyped
    BY <2>1 DEF QueryInit, JobsTyped
  <2>3. CountsTyped
    BY QueryAssumption DEF QueryInit, CountsTyped
  <2> QED BY <2>2, <2>3, FetchInit
<1>2. I /\ [QueryNext]_vars => I'
  BY FetchNext, JobsTypedNext, CountsTypedNext
<1>3. I => QueryTypeOK
  BY DEF FetchInv, JobsTyped, JobTyped, CountsTyped, QueryTypeOK
<1> QED BY <1>1, <1>2, <1>3, PTL DEF QuerySpec
-----------------------------------------------------------------------------
(* What is computed: subsequences *)

\* The indexes of what of s is in S, in their order.
Indexes(s, S, n, g) ==
  /\ n \in Nat /\ g \in [1 .. n -> DOMAIN s]
  /\ \A a, b \in 1 .. n : a < b => g[a] < g[b]
  /\ {g[a] : a \in 1 .. n} = {i \in DOMAIN s : s[i] \in S}
  /\ Within(s, S) = [a \in 1 .. n |-> s[g[a]]]

\* Within keeps the order of a sequence, and loses none of the elements.
LEMMA WithinIs ==
  ASSUME NEW X, NEW s \in Seq(X), NEW S
  PROVE  \E n, g : Indexes(s, S, n, g)
<1> DEFINE kept == {i \in DOMAIN s : s[i] \in S}
           upto(i) == {k \in kept : k <= i}
           n == Cardinality(kept)
           R == [i \in kept |-> Cardinality(upto(i))]
           g == [a \in 1 .. n |-> CHOOSE i \in kept : Cardinality(upto(i)) = a]
<1>1. DOMAIN s = 1 .. Len(s) /\ Len(s) \in Nat /\ kept \subseteq Nat
  OBVIOUS
<1>2. IsFiniteSet(kept) /\ n \in Nat
  <2>1. IsFiniteSet(1 .. Len(s))
    BY <1>1, FS_Interval
  <2>2. kept \in SUBSET (1 .. Len(s))
    BY <1>1
  <2>3. IsFiniteSet(kept)
    BY <2>1, <2>2, FS_Subset
  <2> QED BY <2>3, FS_CardinalityType
<1>3. ASSUME NEW i \in kept
      PROVE  /\ IsFiniteSet(upto(i)) /\ R[i] = Cardinality(upto(i)) /\ R[i] \in 1 .. n
         /\ R[i] \in Nat
  <2>1. upto(i) \in SUBSET kept
    OBVIOUS
  <2>2. IsFiniteSet(upto(i)) /\ Cardinality(upto(i)) <= n
    BY <1>2, <2>1, FS_Subset
  <2>3. i \in upto(i)
    BY <1>1
  <2>4. Cardinality(upto(i)) \in Nat /\ Cardinality(upto(i)) # 0
    BY <2>2, <2>3, FS_CardinalityType, FS_EmptySet
  <2>5. R[i] = Cardinality(upto(i))
    OBVIOUS
  <2> HIDE DEF R, upto, n
  <2> QED BY <1>2, <2>2, <2>4, <2>5
<1>4. ASSUME NEW i \in kept, NEW k \in kept, i < k
      PROVE  R[i] < R[k]
  <2>1. upto(i) \in SUBSET upto(k) /\ k \in upto(k) /\ k \notin upto(i)
    BY <1>1, <1>4
  <2>2. /\ IsFiniteSet(upto(k)) /\ R[k] = Cardinality(upto(k)) /\ R[i] = Cardinality(upto(i))
        /\ R[i] \in Nat /\ R[k] \in Nat
    BY <1>3
  <2> HIDE DEF R, upto
  <2>3. Cardinality(upto(i)) <= Cardinality(upto(k)) /\ upto(i) # upto(k)
    BY <2>1, <2>2, FS_Subset
  <2>4. Cardinality(upto(i)) # Cardinality(upto(k))
    BY <2>1, <2>2, <2>3, FS_Subset
  <2> QED BY <2>2, <2>3, <2>4
<1>5. \A i, k \in kept : R[i] = R[k] => i = k
  <2> SUFFICES ASSUME NEW i \in kept, NEW k \in kept, i # k PROVE R[i] # R[k]
    OBVIOUS
  <2>0. i \in Nat /\ k \in Nat
    BY <1>1
  <2>1. R[i] \in Nat /\ R[k] \in Nat
    BY <1>3
  <2> HIDE DEF R, kept
  <2>2. i < k \/ k < i
    BY <2>0
  <2>3. R[i] < R[k] \/ R[k] < R[i]
    BY <1>4, <2>2
  <2> QED BY <2>1, <2>3
<1>6. R \in Surjection(kept, 1 .. n)
  <2>1. R \in [kept -> 1 .. n]
    BY <1>3
  <2>2. R \in Injection(kept, 1 .. n)
    BY <1>5, <2>1 DEF Injection, IsInjective
  <2>3. IsFiniteSet(1 .. n) /\ Cardinality(1 .. n) = n
    BY <1>2, FS_Interval
  <2> HIDE DEF R
  <2> QED BY <2>2, <2>3, FS_Injection
<1>7. \A a \in 1 .. n : g[a] \in kept /\ R[g[a]] = a
  <2> SUFFICES ASSUME NEW a \in 1 .. n PROVE g[a] \in kept /\ R[g[a]] = a
    OBVIOUS
  <2>1. \E i \in kept : R[i] = a
    BY <1>6 DEF Surjection
  <2>2. \E i \in kept : Cardinality(upto(i)) = a
    BY <1>3, <2>1
  <2>3. g[a] = CHOOSE i \in kept : Cardinality(upto(i)) = a
    OBVIOUS
  <2> HIDE DEF upto, kept, g
  <2>4. g[a] \in kept /\ Cardinality(upto(g[a])) = a
    BY <2>2, <2>3
  <2> QED BY <2>4
<1>8. \A a, b \in 1 .. n : a < b => g[a] < g[b]
  <2> SUFFICES ASSUME NEW a \in 1 .. n, NEW b \in 1 .. n, a < b PROVE g[a] < g[b]
    OBVIOUS
  <2>1. g[a] \in kept /\ g[b] \in kept /\ R[g[a]] = a /\ R[g[b]] = b
    BY <1>7
  <2>2. g[a] \in Nat /\ g[b] \in Nat /\ a \in Nat /\ b \in Nat
    BY <1>1, <1>2, <2>1
  <2> HIDE DEF g, R, kept, n
  <2>3. g[b] < g[a] => b < a
    BY <1>4, <2>1
  <2>4. g[b] # g[a]
    BY <2>1, <2>2
  <2> QED BY <2>2, <2>3, <2>4
<1>9. {g[a] : a \in 1 .. n} = kept
  <2>1. \A i \in kept : R[i] \in 1 .. n /\ g[R[i]] \in kept /\ R[g[R[i]]] = R[i]
    BY <1>3, <1>7
  <2>2. \A i \in kept : R[i] \in 1 .. n /\ g[R[i]] = i
    BY <1>5, <2>1, ZenonT(40)
  <2> HIDE DEF g, R, kept, n
  <2> QED BY <1>7, <2>2
<1>10. Within(s, S) = [a \in 1 .. n |-> s[g[a]]]
  BY DEF Within
<1>11. g \in [1 .. n -> DOMAIN s]
  BY <1>7
<1> HIDE DEF g, R, upto, n
<1>12. Indexes(s, S, n, g)
  <2> HIDE DEF kept
  <2> QED BY <1>2, <1>8, <1>9, <1>10, <1>11 DEF Indexes, kept
<1> QED BY <1>12

\* Envelopes of one source are in the order of their times, and each is there once.
Orderly(es) ==
  \A a, b \in DOMAIN es :
    a < b /\ es[a].source = es[b].source => es[a].ts <= es[b].ts /\ es[a] # es[b]

\* What is within a set stays in order.
LEMMA WithinElements ==
  ASSUME NEW X, NEW s \in Seq(X), NEW S
  PROVE  /\ Within(s, S) \in Seq(X)
         /\ ToSet(Within(s, S)) = {x \in ToSet(s) : x \in S}
         /\ Orderly(s) => Orderly(Within(s, S))
<1>2. PICK n, g : Indexes(s, S, n, g)
  BY WithinIs
<1> USE DEF Indexes
<1> DEFINE w == Within(s, S)
<1>3. w = [a \in 1 .. n |-> s[g[a]]] /\ DOMAIN w = 1 .. n
  BY <1>2
<1>4. \A a \in 1 .. n : g[a] \in DOMAIN s /\ w[a] = s[g[a]] /\ s[g[a]] \in X
  BY <1>2, <1>3
<1> HIDE DEF w
<1>5. w \in Seq(X)
  <2>1. n \in Nat /\ \A a \in 1 .. n : s[g[a]] \in X
    BY <1>2, <1>4
  <2> QED BY <1>3, <2>1
<1>6. ToSet(w) = {x \in ToSet(s) : x \in S}
  <2>1. ASSUME NEW a \in 1 .. n PROVE w[a] \in ToSet(s) /\ w[a] \in S
    BY <1>2, <1>4 DEF ToSet
  <2>2. ASSUME NEW x \in ToSet(s), x \in S PROVE \E a \in 1 .. n : x = w[a]
    <3>1. PICK i \in DOMAIN s : x = s[i]
      BY DEF ToSet
    <3>2. i \in {g[a] : a \in 1 .. n}
      BY <1>2, <2>2, <3>1
    <3> QED BY <1>4, <3>1, <3>2
  <2>3. ToSet(w) = {w[a] : a \in 1 .. n}
    BY <1>3 DEF ToSet
  <2> QED BY <2>1, <2>2, <2>3
<1>7. ASSUME Orderly(s) PROVE Orderly(w)
  <2>1. \A a, b \in 1 .. n : a < b =>
          g[a] \in DOMAIN s /\ g[b] \in DOMAIN s /\ g[a] < g[b] /\ w[a] = s[g[a]] /\ w[b] = s[g[b]]
    BY <1>2, <1>4
  <2> QED BY <1>3, <1>7, <2>1 DEF Orderly
<1> QED BY <1>5, <1>6, <1>7 DEF w

\* A time is truncated to its second, and the order of times is kept.
LEMMA Truncated ==
  ASSUME NEW t \in Nat
  PROVE  /\ Truncate(t) = (t \div interval) * interval
         /\ Truncate(t) \in Nat /\ Truncate(t) <= t
         /\ \A u \in Nat : t <= u => Truncate(t) <= Truncate(u)
<1>0. interval \in Nat \ {0}
  BY PromQLAssumption
<1>1. ASSUME NEW u \in Nat
      PROVE  /\ u = (u \div interval) * interval + (u % interval)
             /\ u \div interval \in Nat /\ u % interval \in 0 .. interval - 1
  BY <1>0
<1>2. ASSUME NEW u \in Nat
      PROVE  Truncate(u) = (u \div interval) * interval /\ Truncate(u) \in Nat
             /\ Truncate(u) <= u
  <2> DEFINE d == (u \div interval) * interval
             m == u % interval
  <2>1. u = d + m /\ m \in Nat /\ Truncate(u) = u - m
    BY <1>0, <1>1 DEF Truncate
  <2>2. d \in Nat
    BY <1>0, <1>1
  <2> HIDE DEF d, m
  <2>3. Truncate(u) = d /\ Truncate(u) <= u
    BY <2>1, <2>2
  <2> QED BY <2>2, <2>3 DEF d
<1>3. ASSUME NEW u \in Nat, t <= u
      PROVE  Truncate(t) <= Truncate(u)
  <2>1. t \div interval <= u \div interval
    <3> DEFINE a == t \div interval
               b == u \div interval
    <3>1. /\ a \in Nat /\ b \in Nat /\ t % interval \in Nat /\ u % interval \in Nat
          /\ u % interval < interval
          /\ t = a * interval + (t % interval) /\ u = b * interval + (u % interval)
      BY <1>0, <1>1
    <3> HIDE DEF a, b
    <3>2. a * interval < b * interval + interval
      BY <1>0, <1>3, <3>1
    <3>3. ASSUME b + 1 <= a PROVE FALSE
      <4>1. b * interval + interval <= a * interval
        BY <1>0, <3>1, <3>3
      <4> QED BY <1>0, <3>1, <3>2, <4>1
    <3> QED BY <3>1, <3>3 DEF a, b
  <2>2. \A a, b \in Nat : a <= b => a * interval <= b * interval
    BY <1>0
  <2> QED BY <1>1, <1>2, <2>1, <2>2
<1> QED BY <1>2, <1>3
-----------------------------------------------------------------------------
(* What is computed: series *)

PointFor(e, metric) == [t |-> Second(e), v |-> ValuesFor(e, metric)]

\* Envelopes, each once, in the order of their times.
InOrder(es) == \A a, b \in DOMAIN es : a < b => es[a].ts <= es[b].ts /\ es[a] # es[b]

\* A series has a point for each envelope with its labels, in their order.
OfSeries(s, due, metric) ==
  \E es \in Seq(due) :
    /\ es # <<>> /\ ToSet(es) = {e \in due : Labels(e) = s.labels}
    /\ InOrder(es)
    /\ s = [labels |-> s.labels, points |-> [i \in DOMAIN es |-> PointFor(es[i], metric)]]

\* There is one series for each of the labels of the envelopes that are due.
Built(series, due, metric) ==
  /\ \A s \in series : OfSeries(s, due, metric)
  /\ \A e \in due : \E s \in series : s.labels = Labels(e)
  /\ \A s, s2 \in series : s.labels = s2.labels => s = s2

\* Ids tell these envelopes' labels apart.
ToldApart(X) ==
  \A e, f \in X : SeriesID(Labels(e)) = SeriesID(Labels(f)) => Labels(e) = Labels(f)

\* Labels tell the source.
LEMMA LabelsTellSource ==
  ASSUME NEW e, NEW f, Labels(e) = Labels(f)
  PROVE  e.source = f.source
<1>1. ASSUME NEW x
      PROVE  Labels(x)["source_id"] = <<x.source>>
  BY DEF Labels
<1>2. <<e.source>> = <<f.source>>
  BY <1>1
<1> QED BY <1>2

\* The builder's series are those of the envelopes that were added.
LEMMA SeriesBuilt ==
  ASSUME NEW X, NEW es \in Seq(X), Orderly(es), ToldApart(X), NEW sel,
         \A e \in X : e.ts \in Nat
  PROVE  Built(BuildSeriesSet(es, sel), ToSet(es), sel.metric)
<1> DEFINE due == ToSet(es)
           with(id) == {e \in due : SeriesID(Labels(e)) = id}
           of(id) == Within(es, with(id))
           ids == {SeriesID(Labels(es[i])) : i \in DOMAIN es}
           points(s) == [i \in DOMAIN s |->
             [t |-> Truncate(s[i].ts), v |-> ValuesFor(s[i], sel.metric)]]
           series(id) == [labels |-> Labels(Head(of(id))), points |-> points(of(id))]
<1>1. BuildSeriesSet(es, sel) = {series(id) : id \in ids}
  BY DEF BuildSeriesSet
<1>2. due \subseteq X /\ ids = {SeriesID(Labels(e)) : e \in due}
  BY DEF ToSet
<1>3. ASSUME NEW id \in ids
      PROVE  /\ of(id) \in Seq(due) /\ of(id) # <<>> /\ Orderly(of(id))
             /\ ToSet(of(id)) = with(id)
             /\ Head(of(id)) \in with(id)
  <2> DEFINE o == of(id)
             w == with(id)
  <2>1. o \in Seq(X) /\ ToSet(o) = {x \in due : x \in w} /\ Orderly(o)
    BY WithinElements
  <2>2. w # {} /\ w \subseteq due /\ {x \in due : x \in w} = w
    BY <1>2
  <2> HIDE DEF o, w, due
  <2>3. ToSet(o) = w /\ DOMAIN o = 1 .. Len(o) /\ Len(o) \in Nat
    BY <2>1, <2>2
  <2>4. o # <<>> /\ \A i \in 1 .. Len(o) : o[i] \in w
    BY <2>2, <2>3 DEF ToSet
  <2>5. o \in Seq(due)
    BY <2>1, <2>2, <2>4
  <2>6. Head(o) \in w
    BY <2>1, <2>4
  <2> QED BY <2>1, <2>3, <2>4, <2>5, <2>6 DEF o, w
<1>4. ASSUME NEW id \in ids
      PROVE  /\ with(id) = {e \in due : Labels(e) = series(id).labels}
             /\ series(id).labels = Labels(Head(of(id)))
  <2>1. Head(of(id)) \in with(id)
    BY <1>3
  <2>2. series(id).labels = Labels(Head(of(id)))
    OBVIOUS
  <2>3. PICK h \in with(id) : series(id).labels = Labels(h)
    BY <2>1, <2>2
  <2>4. h \in due /\ SeriesID(Labels(h)) = id
    OBVIOUS
  <2>5. \A e \in due : SeriesID(Labels(e)) = id <=> Labels(e) = Labels(h)
    BY <1>2, <2>4 DEF ToldApart
  <2> HIDE DEF of, series, due
  <2> QED BY <2>2, <2>3, <2>5
<1>5. ASSUME NEW id \in ids
      PROVE  OfSeries(series(id), due, sel.metric)
  <2> DEFINE o == of(id)
             labels == series(id).labels
  <2>1. /\ o \in Seq(due) /\ o # <<>> /\ Orderly(o)
        /\ ToSet(o) = {e \in due : Labels(e) = labels}
    BY <1>3, <1>4
  <2>2. series(id) = [labels |-> labels, points |-> points(o)]
    OBVIOUS
  <2> HIDE DEF o, labels, series, due, with
  <2>3. \A i \in DOMAIN o : o[i] \in due /\ Labels(o[i]) = labels
    BY <2>1 DEF ToSet
  <2>4. InOrder(o)
    <3>1. \A a, b \in DOMAIN o : o[a].source = o[b].source
      BY <2>3, LabelsTellSource
    <3> QED BY <2>1, <3>1 DEF InOrder, Orderly
  <2>5. points(o) = [i \in DOMAIN o |-> PointFor(o[i], sel.metric)]
    <3>1. \A i \in DOMAIN o : Truncate(o[i].ts) = Second(o[i])
      BY <1>2, <2>3, Truncated DEF Second
    <3> QED BY <3>1 DEF PointFor
  <2> HIDE DEF points
  <2>6. series(id) = [labels |-> series(id).labels,
                      points |-> [i \in DOMAIN o |-> PointFor(o[i], sel.metric)]]
    BY <2>2, <2>5 DEF labels
  <2>7. o \in Seq(due) /\ o # <<>> /\ ToSet(o) = {e \in due : Labels(e) = series(id).labels}
    BY <2>1 DEF labels
  <2> QED BY <2>4, <2>6, <2>7 DEF OfSeries
<1>6. \A e \in due : \E id \in ids : series(id).labels = Labels(e)
  <2> SUFFICES ASSUME NEW e \in due PROVE \E id \in ids : series(id).labels = Labels(e)
    OBVIOUS
  <2>1. PICK id \in ids : id = SeriesID(Labels(e))
    BY <1>2
  <2>2. e \in with(id)
    BY <2>1
  <2> HIDE DEF of, series, due, with
  <2> QED BY <1>4, <2>2
<1>7. ASSUME NEW id \in ids, NEW id2 \in ids, series(id).labels = series(id2).labels
      PROVE  series(id) = series(id2)
  <2>1. with(id) = with(id2) /\ with(id) # {}
    BY <1>3, <1>4, <1>7
  <2>2. PICK e \in with(id) : e \in with(id2)
    BY <2>1
  <2>3. id = id2
    BY <2>2
  <2> QED BY <2>3
<1> HIDE DEF series, ids, due
<1>8. Built({series(id) : id \in ids}, due, sel.metric)
  BY <1>5, <1>6, <1>7 DEF Built
<1> QED BY <1>1, <1>8 DEF due
-----------------------------------------------------------------------------
(* What is computed: reads *)

Held == UNION {ToSet(store[s]) : s \in DOMAIN store}

\* As far back as selector i of what was asked goes.
Before(j, i) == IF j.asked[i].range = 0 THEN LookbackDelta ELSE j.asked[i].range

Since(j, i) == Head(Times(j)) - Before(j, i)

\* What is held of ids of the time that selector i is about.
InTime(H, j, i, ids) ==
  {e \in H : e.source \in ids /\ Since(j, i) - interval <= e.ts /\ e.ts < Last(Times(j))}

\* What is due to selector i.
Due(H, j, i) == {e \in InTime(H, j, i, Wanted(j, i)) : Matches(e, j.asked[i])}

\* Every source is its own, and its envelopes have times.
LEMMA HeldIs ==
  ASSUME store \in Stores, StoresOrderly, NEW s \in DOMAIN store
  PROVE  /\ store[s] \in Seq(Held) /\ Orderly(store[s])
         /\ \A e \in ToSet(store[s]) : e.source = s /\ e.ts \in Nat
         /\ ToSet(store[s]) = {e \in Held : e.source = s}
<1>1. ASSUME NEW t \in DOMAIN store
      PROVE  /\ store[t] \in Seq(ToSet(store[t])) /\ ToSet(store[t]) \subseteq Held
             /\ \A e \in ToSet(store[t]) : e.source = t /\ e.ts \in Nat
             /\ Orderly(store[t])
  <2>1. /\ store[t] \in Seq(ToSet(store[t]))
        /\ \A i \in DOMAIN store[t] : store[t][i].source = t /\ store[t][i].ts \in Nat
        /\ \A i, k \in DOMAIN store[t] :
             i < k => store[t][i].ts <= store[t][k].ts /\ store[t][i] # store[t][k]
    BY DEF StoresOrderly
  <2>2. \A e \in ToSet(store[t]) : \E i \in DOMAIN store[t] : e = store[t][i]
    BY DEF ToSet
  <2>3. ToSet(store[t]) \subseteq Held
    BY DEF Held
  <2>4. Orderly(store[t])
    BY <2>1, Zenon DEF Orderly
  <2> QED BY <2>1, <2>2, <2>3, <2>4
<1>2. \A e \in Held : \E t \in DOMAIN store : e \in ToSet(store[t])
  BY DEF Held
<1>3. ToSet(store[s]) = {e \in Held : e.source = s}
  BY <1>1, <1>2
<1>4. store[s] \in Seq(Held)
  <2>1. \A X, Y : X \subseteq Y => \A q \in Seq(X) : q \in Seq(Y)
    <3> SUFFICES ASSUME NEW X, NEW Y, X \subseteq Y, NEW q \in Seq(X) PROVE q \in Seq(Y)
      OBVIOUS
    <3>1. Len(q) \in Nat /\ q = [i \in 1 .. Len(q) |-> q[i]] /\ \A i \in 1 .. Len(q) : q[i] \in Y
      OBVIOUS
    <3> QED BY <3>1
  <2> QED BY <1>1, <2>1, Zenon
<1> QED BY <1>1, <1>3, <1>4

\* All that is held has a time, and the ids of series tell it apart.
LEMMA HeldTold ==
  ASSUME store \in Stores, StoresOrderly, SeriesToldApart
  PROVE  ToldApart(Held) /\ \A e \in Held : e.ts \in Nat
<1>1. \A e \in Held : \E t \in DOMAIN store : e \in ToSet(store[t])
  BY DEF Held
<1>2. \A e \in Held : e.ts \in Nat
  BY <1>1, HeldIs
<1>3. ToldApart(Held)
  BY DEF ToldApart, SeriesToldApart, Held
<1> QED BY <1>2, <1>3

\* A read returns what is held of the source and of the time.
LEMMA ReadIs ==
  ASSUME store \in Stores, StoresOrderly, NEW s, NEW from, NEW to
  PROVE  /\ ReadRange(Stored(s), from, to) \in Seq(Held)
         /\ Orderly(ReadRange(Stored(s), from, to))
         /\ ToSet(ReadRange(Stored(s), from, to)) =
              {e \in Held : e.source = s /\ from - interval <= e.ts /\ e.ts < to}
<1> DEFINE es == Stored(s)
           kept == {e \in ToSet(es) : from - interval <= e.ts /\ e.ts < to}
<1>1. /\ es \in Seq(Held) /\ Orderly(es)
      /\ ToSet(es) = {e \in Held : e.source = s}
  <2>1. CASE s \in DOMAIN store
    BY <2>1, HeldIs DEF Stored
  <2>2. CASE s \notin DOMAIN store
    <3>1. es = <<>>
      BY <2>2 DEF Stored
    <3>2. ASSUME NEW e \in Held PROVE e.source # s
      <4>1. PICK t \in DOMAIN store : e \in ToSet(store[t])
        BY DEF Held
      <4>2. e.source = t
        BY <4>1, HeldIs
      <4> QED BY <2>2, <4>2
    <3>3. DOMAIN es = {}
      BY <3>1
    <3>4. ToSet(es) = {} /\ Orderly(es)
      BY <3>3 DEF ToSet, Orderly
    <3>5. es \in Seq(Held)
      BY <3>1
    <3> QED BY <3>2, <3>4, <3>5
  <2> QED BY <2>1, <2>2
<1>2. ReadRange(es, from, to) = Within(es, kept)
  BY DEF ReadRange
<1> HIDE DEF es, kept
<1>3. /\ Within(es, kept) \in Seq(Held) /\ Orderly(Within(es, kept))
      /\ ToSet(Within(es, kept)) = {x \in ToSet(es) : x \in kept}
  BY <1>1, WithinElements
<1>4. {x \in ToSet(es) : x \in kept} =
        {e \in Held : e.source = s /\ from - interval <= e.ts /\ e.ts < to}
  BY <1>1 DEF kept
<1> QED BY <1>2, <1>3, <1>4 DEF es

\* What was read of one source is put behind what was read of others.
LEMMA ReadAdded ==
  ASSUME NEW X, NEW es \in Seq(X), NEW read \in Seq(X), Orderly(es), Orderly(read),
         \A e \in ToSet(es), f \in ToSet(read) : e.source # f.source
  PROVE  /\ es \o read \in Seq(X) /\ Orderly(es \o read)
         /\ ToSet(es \o read) = ToSet(es) \cup ToSet(read)
<1>1. \A q : ToSet(q) = Range(q)
  BY DEF ToSet, Range
<1>2. ToSet(es \o read) = ToSet(es) \cup ToSet(read)
  BY <1>1, ConcatRange
<1> DEFINE both == es \o read
           m == Len(es)
           n == Len(read)
<1>3. /\ m \in Nat /\ n \in Nat /\ DOMAIN es = 1 .. m /\ DOMAIN read = 1 .. n
      /\ DOMAIN both = 1 .. m + n
      /\ \A a \in 1 .. m : both[a] = es[a]
      /\ \A a \in 1 .. m + n : a > m => a - m \in 1 .. n /\ both[a] = read[a - m]
  OBVIOUS
<1> HIDE DEF both, m, n
<1>4. ASSUME NEW a \in DOMAIN both, NEW b \in DOMAIN both, a < b,
             both[a].source = both[b].source
      PROVE  both[a].ts <= both[b].ts /\ both[a] # both[b]
  <2>1. CASE b <= m
    <3>1. a \in DOMAIN es /\ b \in DOMAIN es /\ both[a] = es[a] /\ both[b] = es[b]
      BY <1>3, <1>4, <2>1
    <3> QED BY <1>4, <3>1 DEF Orderly
  <2>2. CASE a > m
    <3>1. /\ a - m \in DOMAIN read /\ b - m \in DOMAIN read /\ a - m < b - m
          /\ both[a] = read[a - m] /\ both[b] = read[b - m]
      BY <1>3, <1>4, <2>2
    <3> QED BY <1>4, <3>1 DEF Orderly
  <2>3. CASE a <= m /\ b > m
    <3>1. a \in DOMAIN es /\ b - m \in DOMAIN read /\ both[a] = es[a] /\ both[b] = read[b - m]
      BY <1>3, <1>4, <2>3
    <3>2. both[a] \in ToSet(es) /\ both[b] \in ToSet(read)
      BY <3>1 DEF ToSet
    <3> QED BY <1>4, <3>2
  <2> QED BY <1>3, <2>1, <2>2, <2>3
<1>5. Orderly(both)
  BY <1>4 DEF Orderly
<1> QED BY <1>2, <1>5 DEF both
-----------------------------------------------------------------------------
(* What is computed: samples *)

\* Points in the order of their times.
Ascending(points, n) ==
  /\ n \in Nat /\ DOMAIN points = 1 .. n /\ Len(points) = n
  /\ \A i \in 1 .. n : points[i].t \in Nat
  /\ \A a, b \in 1 .. n : a < b => points[a].t <= points[b].t

\* Seek finds where the points from t on begin.
LEMMA SeekIs ==
  ASSUME NEW points, NEW n, Ascending(points, n), NEW t \in Nat
  PROVE  /\ Seek(points, t) \in 1 .. n + 1
         /\ \A k \in 1 .. n : IF k < Seek(points, t) THEN points[k].t < t ELSE t <= points[k].t
<1> DEFINE found == {i \in DOMAIN points : points[i].t >= t}
           at == Seek(points, t)
<1>0. n \in Nat /\ found = {i \in 1 .. n : points[i].t >= t} /\ found \in SUBSET Nat
  BY DEF Ascending
<1>1. at = IF found = {} THEN n + 1 ELSE CHOOSE i \in found : \A j \in found : i <= j
  BY DEF Seek, Ascending
<1> HIDE DEF at
<1>2. CASE found = {}
  <2>1. at = n + 1 /\ \A k \in 1 .. n : points[k].t < t
    BY <1>0, <1>1, <1>2 DEF Ascending
  <2> QED BY <1>0, <2>1 DEF at
<1>3. CASE found # {}
  <2>1. \E i \in found : \A j \in found : i <= j
    BY <1>0, <1>3, LeastNumber
  <2>2. at \in found /\ \A j \in found : at <= j
    <3> HIDE DEF found
    <3> QED BY <1>1, <1>3, <2>1
  <2>3. at \in 1 .. n /\ points[at].t >= t
    BY <1>0, <2>2
  <2>4. ASSUME NEW k \in 1 .. n, k < at PROVE points[k].t < t
    <3>1. k \notin found
      BY <1>0, <2>2, <2>3, <2>4
    <3> QED BY <1>0, <3>1 DEF Ascending
  <2>5. ASSUME NEW k \in 1 .. n, at <= k PROVE t <= points[k].t
    <3>1. points[at].t <= points[k].t
      BY <2>3, <2>5 DEF Ascending
    <3> QED BY <2>3, <3>1 DEF Ascending
  <2>6. \A k \in 1 .. n : IF k < at THEN points[k].t < t ELSE t <= points[k].t
    <3> HIDE DEF found
    <3> QED BY <1>0, <2>3, <2>4, <2>5
  <2> QED BY <1>0, <2>3, <2>6 DEF at
<1> QED BY <1>2, <1>3

\* The sample of a moment is the last point until then, if it is not too old.
LEMMA AtInstantIs ==
  ASSUME NEW points, NEW n, Ascending(points, n), NEW t \in Nat
  PROVE  \/ /\ AtInstant(points, t) = <<>>
            /\ \A k \in 1 .. n : points[k].t <= t => points[k].t < t - LookbackDelta
         \/ \E i \in 1 .. n :
              /\ AtInstant(points, t) = <<[t |-> t, v |-> points[i].v]>>
              /\ points[i].t <= t /\ t - LookbackDelta <= points[i].t
              /\ \A k \in 1 .. n : points[k].t <= t => points[k].t <= points[i].t
<1> DEFINE i == Seek(points, t)
           at == IF i <= Len(points) /\ points[i].t = t THEN i ELSE i - 1
<1>0. n \in Nat /\ LookbackDelta \in Nat /\ \A k \in 1 .. n : points[k].t \in Nat
  BY PromQLAssumption DEF Ascending
<1>1. /\ i \in 1 .. n + 1
      /\ \A k \in 1 .. n : IF k < i THEN points[k].t < t ELSE t <= points[k].t
  BY SeekIs
<1>2. AtInstant(points, t) =
        IF at = 0 \/ points[at].t < t - LookbackDelta THEN <<>>
        ELSE <<[t |-> t, v |-> points[at].v]>>
  BY DEF AtInstant
<1>3. at = IF i <= n /\ points[i].t = t THEN i ELSE i - 1
  BY DEF Ascending
<1> HIDE DEF i, at
<1>4. /\ at \in 0 .. n
      /\ at # 0 => points[at].t <= t
      /\ \A k \in 1 .. n : points[k].t <= t => at # 0 /\ points[k].t <= points[at].t
  <2>1. CASE i <= n /\ points[i].t = t
    BY <1>0, <1>1, <1>3, <2>1
  <2>2. CASE ~ (i <= n /\ points[i].t = t)
    <3>1. at = i - 1 /\ at \in 0 .. n
      BY <1>0, <1>1, <1>3, <2>2
    <3>2. at # 0 => points[at].t < t
      BY <1>0, <1>1, <3>1
    <3>3. ASSUME NEW k \in 1 .. n, points[k].t <= t
          PROVE  at # 0 /\ points[k].t <= points[at].t
      <4>1. k < i
        <5> SUFFICES ASSUME ~(k < i) PROVE FALSE
          OBVIOUS
        <5>1. points[k].t = t /\ i \in 1 .. n /\ i <= k
          BY <1>0, <1>1, <3>3
        <5>2. points[i].t <= points[k].t
          BY <5>1 DEF Ascending
        <5>3. t <= points[i].t
          BY <1>1, <5>1
        <5> QED BY <1>0, <2>2, <5>1, <5>2, <5>3
      <4>2. k <= at /\ at # 0 /\ at \in 1 .. n
        BY <1>0, <1>1, <3>1, <4>1
      <4>3. k = at \/ k < at
        BY <4>2
      <4> QED BY <1>0, <4>2, <4>3 DEF Ascending
    <3>4. ASSUME at # 0 PROVE points[at].t <= t
      <4>0. at \in 0 .. n /\ n \in Nat
        BY <1>0, <3>1
      <4>1. at \in 1 .. n
        BY <3>4, <4>0
      <4>2. points[at].t \in Nat
        BY <1>0, <4>1
      <4> QED BY <3>2, <3>4, <4>2
    <3> QED BY <3>1, <3>3, <3>4
  <2> QED BY <2>1, <2>2
<1>5. CASE at = 0 \/ points[at].t < t - LookbackDelta
  <2>1. ASSUME NEW k \in 1 .. n, points[k].t <= t PROVE points[k].t < t - LookbackDelta
    <3>1. at \in 1 .. n /\ points[k].t <= points[at].t /\ points[at].t < t - LookbackDelta
      BY <1>0, <1>4, <1>5, <2>1
    <3> QED BY <1>0, <3>1
  <2> QED BY <1>2, <1>5, <2>1
<1>6. CASE ~ (at = 0 \/ points[at].t < t - LookbackDelta)
  <2>1. at \in 1 .. n /\ points[at].t <= t /\ t - LookbackDelta <= points[at].t
    BY <1>0, <1>4, <1>6
  <2> QED BY <1>2, <1>4, <1>6, <2>1
<1> QED BY <1>5, <1>6

\* What of a series is of a moment.
OfMoment(X, s, t) ==
  {e \in X : Labels(e) = s.labels /\ t - LookbackDelta <= Second(e) /\ Second(e) <= t}

\* A second is a number.
LEMMA SecondIs ==
  ASSUME NEW e, e.ts \in Nat
  PROVE  /\ Second(e) \in Nat /\ Second(e) <= e.ts
         /\ \A f : f.ts \in Nat /\ e.ts <= f.ts => Second(e) <= Second(f)
<1>1. \A f : f.ts \in Nat => Second(f) = Truncate(f.ts)
  BY Truncated DEF Second
<1> QED BY <1>1, Truncated

\* The points of a series ascend.
LEMMA PointsAscend ==
  ASSUME NEW X, \A e \in X : e.ts \in Nat, NEW es \in Seq(X), InOrder(es), NEW metric
  PROVE  Ascending([i \in DOMAIN es |-> PointFor(es[i], metric)], Len(es))
<1> DEFINE points == [i \in DOMAIN es |-> PointFor(es[i], metric)]
           n == Len(es)
<1>1. n \in Nat /\ DOMAIN es = 1 .. n /\ \A i \in 1 .. n : es[i] \in X /\ es[i].ts \in Nat
  OBVIOUS
<1>2. points = [i \in 1 .. n |-> PointFor(es[i], metric)]
  OBVIOUS
<1> HIDE DEF points, n
<1>3. DOMAIN points = 1 .. n /\ Len(points) = n
  BY <1>1, <1>2
<1>4. \A i \in 1 .. n : points[i].t = Second(es[i])
  BY <1>2 DEF PointFor
<1>5. \A i \in 1 .. n : points[i].t \in Nat
  BY <1>1, <1>4, SecondIs
<1>6. ASSUME NEW a \in 1 .. n, NEW b \in 1 .. n, a < b PROVE points[a].t <= points[b].t
  BY <1>1, <1>4, <1>6, SecondIs DEF InOrder
<1>7. Ascending(points, n)
  BY <1>1, <1>3, <1>5, <1>6 DEF Ascending
<1> QED BY <1>7 DEF points, n

\* The sample of a series is of an envelope as late as any.
LEMMA SampleIs ==
  ASSUME NEW X, \A e \in X : e.ts \in Nat, NEW s, NEW metric, OfSeries(s, X, metric),
         NEW t \in Nat
  PROVE  /\ AtInstant(s.points, t) = <<>> => OfMoment(X, s, t) = {}
         /\ AtInstant(s.points, t) # <<>> =>
              \E e \in OfMoment(X, s, t) :
                /\ AtInstant(s.points, t) = <<[t |-> t, v |-> ValuesFor(e, metric)]>>
                /\ \A f \in OfMoment(X, s, t) : Second(f) <= Second(e)
<1>1. PICK es \in Seq(X) :
        /\ es # <<>> /\ ToSet(es) = {e \in X : Labels(e) = s.labels}
        /\ InOrder(es)
        /\ s = [labels |-> s.labels, points |-> [i \in DOMAIN es |-> PointFor(es[i], metric)]]
  BY DEF OfSeries
<1> DEFINE points == [i \in DOMAIN es |-> PointFor(es[i], metric)]
           n == Len(es)
<1>2. s.points = points
  BY <1>1
<1>3. Ascending(points, n)
  BY <1>1, PointsAscend
<1>4. n \in Nat /\ DOMAIN es = 1 .. n
  OBVIOUS
<1>5. \A i \in 1 .. n : /\ points[i].t = Second(es[i]) /\ points[i].v = ValuesFor(es[i], metric)
                        /\ es[i] \in X /\ Labels(es[i]) = s.labels
  <2>1. \A i \in 1 .. n : es[i] \in ToSet(es)
    BY <1>4 DEF ToSet
  <2>2. \A i \in 1 .. n : points[i] = PointFor(es[i], metric)
    BY <1>4
  <2> QED BY <1>1, <2>1, <2>2 DEF PointFor
<1>6. \A e \in X : Labels(e) = s.labels => \E i \in 1 .. n : e = es[i]
  BY <1>1, <1>4 DEF ToSet
<1> HIDE DEF points, n
<1>7. CASE /\ AtInstant(points, t) = <<>>
           /\ \A k \in 1 .. n : points[k].t <= t => points[k].t < t - LookbackDelta
  <2>1. ASSUME NEW e \in OfMoment(X, s, t) PROVE FALSE
    <3>1. e \in X /\ Labels(e) = s.labels /\ t - LookbackDelta <= Second(e) /\ Second(e) <= t
      BY DEF OfMoment
    <3>2. PICK i \in 1 .. n : e = es[i]
      BY <1>6, <3>1
    <3>3. Second(e) < t - LookbackDelta
      BY <1>5, <1>7, <3>1, <3>2
    <3>4. Second(e) \in Nat /\ LookbackDelta \in Nat
      BY <3>1, SecondIs, PromQLAssumption
    <3> QED BY <3>1, <3>3, <3>4
  <2> QED BY <1>2, <1>7, <2>1
<1>8. ASSUME NEW i \in 1 .. n,
             AtInstant(points, t) = <<[t |-> t, v |-> points[i].v]>>,
             points[i].t <= t, t - LookbackDelta <= points[i].t,
             \A k \in 1 .. n : points[k].t <= t => points[k].t <= points[i].t
      PROVE  /\ AtInstant(points, t) # <<>>
             /\ \E e \in OfMoment(X, s, t) :
                  /\ AtInstant(points, t) = <<[t |-> t, v |-> ValuesFor(e, metric)]>>
                  /\ \A f \in OfMoment(X, s, t) : Second(f) <= Second(e)
  <2>1. es[i] \in OfMoment(X, s, t)
    BY <1>5, <1>8 DEF OfMoment
  <2>2. AtInstant(points, t) = <<[t |-> t, v |-> ValuesFor(es[i], metric)]>>
    BY <1>5, <1>8
  <2>3. ASSUME NEW f \in OfMoment(X, s, t) PROVE Second(f) <= Second(es[i])
    <3>1. f \in X /\ Labels(f) = s.labels /\ Second(f) <= t
      BY DEF OfMoment
    <3>2. PICK k \in 1 .. n : f = es[k]
      BY <1>6, <3>1
    <3> QED BY <1>5, <1>8, <3>1, <3>2
  <2>4. AtInstant(points, t) # <<>>
    BY <2>2
  <2> QED BY <2>1, <2>2, <2>3, <2>4
<1> QED BY <1>2, <1>3, <1>7, <1>8, AtInstantIs
-----------------------------------------------------------------------------
(* What is computed: results *)

\* Every selector has its series, and no two selectors find the same.
Computed(j) ==
  /\ IsSequence(j.asked) /\ IsSequence(j.series) /\ Len(j.series) = Len(j.asked)
  /\ \A i \in 1 .. Len(j.asked) :
       Built(j.series[i], Due(Held, j, i), j.asked[i].metric)
  /\ \A i, k \in 1 .. Len(j.asked) :
       i # k => Wanted(j, i) \cap Wanted(j, k) = {} /\ j.asked[i].range = 0

\* The series of all selectors are told apart by their labels as those of one are.
LEMMA UnitedIs ==
  ASSUME NEW j, Computed(j)
  PROVE  /\ \A s \in United(j) : \E i \in 1 .. Len(j.asked) :
              OfSeries(s, Due(Held, j, i), j.asked[i].metric)
         /\ \A i \in 1 .. Len(j.asked) : \A e \in Due(Held, j, i) :
              \E s \in United(j) : s.labels = Labels(e)
         /\ \A s, s2 \in United(j) : s.labels = s2.labels => s = s2
         /\ \A s \in United(j) : \A i, k \in 1 .. Len(j.asked) :
              OfSeries(s, Due(Held, j, i), j.asked[i].metric) =>
                \A e \in Due(Held, j, k) : Labels(e) = s.labels => i = k
<1> DEFINE n == Len(j.asked)
           due(i) == Due(Held, j, i)
           metric(i) == j.asked[i].metric
<1>1. /\ n \in Nat /\ DOMAIN j.series = 1 .. n
      /\ \A i \in 1 .. n : Built(j.series[i], due(i), metric(i))
      /\ \A i, k \in 1 .. n : i # k => Wanted(j, i) \cap Wanted(j, k) = {}
  BY DEF Computed, IsSequence
<1>2. \A s : s \in United(j) <=> \E i \in 1 .. n : s \in j.series[i]
  BY <1>1 DEF United, ToSet
<1>3. \A i \in 1 .. n : \A e \in due(i) : e.source \in Wanted(j, i)
  BY DEF Due, InTime
<1> HIDE DEF n, due, metric
<1>4. ASSUME NEW i \in 1 .. n, NEW s, OfSeries(s, due(i), metric(i))
      PROVE  \E e \in due(i) : Labels(e) = s.labels
  <2>1. PICK es \in Seq(due(i)) : es # <<>> /\ ToSet(es) = {e \in due(i) : Labels(e) = s.labels}
    BY <1>4 DEF OfSeries
  <2>2. es[1] \in ToSet(es)
    BY <2>1 DEF ToSet
  <2> QED BY <2>1, <2>2
<1>5. ASSUME NEW i \in 1 .. n, NEW k \in 1 .. n, NEW s, OfSeries(s, due(i), metric(i)),
             NEW e \in due(k), Labels(e) = s.labels
      PROVE  i = k
  <2>1. PICK f \in due(i) : Labels(f) = s.labels
    BY <1>4, <1>5
  <2>2. f.source = e.source
    BY <1>5, <2>1, LabelsTellSource
  <2> QED BY <1>1, <1>3, <2>2
<1>6. \A i \in 1 .. n : \A s \in j.series[i] : OfSeries(s, due(i), metric(i))
  BY <1>1 DEF Built
<1>7. ASSUME NEW s \in United(j), NEW s2 \in United(j), s.labels = s2.labels
      PROVE  s = s2
  <2>1. PICK i \in 1 .. n : s \in j.series[i]
    BY <1>2
  <2>2. PICK k \in 1 .. n : s2 \in j.series[k]
    BY <1>2
  <2>3. PICK e \in due(k) : Labels(e) = s2.labels
    BY <1>4, <1>6, <2>2
  <2>4. i = k
    BY <1>5, <1>6, <1>7, <2>1, <2>3
  <2> QED BY <1>1, <1>7, <2>1, <2>2, <2>4 DEF Built
<1>8. \A i \in 1 .. n : \A e \in due(i) : \E s \in United(j) : s.labels = Labels(e)
  BY <1>1, <1>2 DEF Built
<1>9. \A s \in United(j) : \E i \in 1 .. n : OfSeries(s, due(i), metric(i))
  BY <1>2, <1>6
<1> QED BY <1>5, <1>7, <1>8, <1>9 DEF n, due, metric

\* What is due to any selector, of the time.
DueThen(j, t, before) ==
  {f \in {[e |-> e, i |-> i] : e \in Held, i \in 1 .. Len(j.asked)} :
     /\ f.e \in Due(Held, j, f.i)
     /\ t - before <= Second(f.e) /\ Second(f.e) <= t}

\* That is what is to be found.
LEMMA FoundIs ==
  ASSUME NEW j, Computed(j), \A e \in Held : e.ts \in Nat,
         NEW t \in Nat, NEW before \in Nat, Head(Times(j)) \in Nat, Head(Times(j)) <= t,
         \A i \in 1 .. Len(j.asked) : before = Before(j, i)
  PROVE  ToFind(j, t, before) = DueThen(j, t, before)
<1> DEFINE all == {[e |-> e, i |-> i] : e \in Held, i \in 1 .. Len(j.asked)}
<1>1. DOMAIN j.asked = 1 .. Len(j.asked)
  BY DEF Computed, IsSequence
<1>2. ToFind(j, t, before) =
        {f \in all :
           /\ f.e.source \in Wanted(j, f.i) /\ Matches(f.e, j.asked[f.i])
           /\ f.e.ts < Last(Times(j))
           /\ t - before <= Second(f.e) /\ Second(f.e) <= t}
  BY <1>1 DEF ToFind, Held
<1>3. ASSUME NEW f \in all, t - before <= Second(f.e)
      PROVE  f.e \in Held /\ f.i \in 1 .. Len(j.asked) /\ Since(j, f.i) - interval <= f.e.ts
  <2>1. f.e \in Held /\ f.i \in 1 .. Len(j.asked)
    OBVIOUS
  <2>2. Since(j, f.i) = Head(Times(j)) - before
    BY <2>1 DEF Since
  <2>3. Second(f.e) \in Nat /\ Second(f.e) <= f.e.ts /\ f.e.ts \in Nat
    BY <2>1, SecondIs
  <2>4. interval \in Nat
    BY PromQLAssumption
  <2> QED BY <1>3, <2>1, <2>2, <2>3, <2>4
<1>4. \A f \in all : t - before <= Second(f.e) =>
        (f.e \in Due(Held, j, f.i) <=>
           /\ f.e.source \in Wanted(j, f.i) /\ Matches(f.e, j.asked[f.i])
           /\ f.e.ts < Last(Times(j)))
  BY <1>3 DEF Due, InTime
<1> HIDE DEF all
<1>5. ToFind(j, t, before) =
        {f \in all : /\ f.e \in Due(Held, j, f.i)
                     /\ t - before <= Second(f.e) /\ Second(f.e) <= t}
  BY <1>2, <1>4
<1> QED BY <1>5 DEF all, DueThen

\* The samples of a moment are right.
LEMMA SamplesAreRight ==
  ASSUME NEW j, Computed(j), \A e \in Held : e.ts \in Nat,
         NEW t \in Nat, Head(Times(j)) \in Nat, Head(Times(j)) <= t,
         \A i \in 1 .. Len(j.asked) : j.asked[i].range = 0,
         NEW samples,
         samples = {[labels |-> s.labels, point |-> Head(AtInstant(s.points, t))] :
                      s \in {s \in United(j) : AtInstant(s.points, t) # <<>>}}
  PROVE  SamplesRight(j, samples, t)
<1> DEFINE n == Len(j.asked)
           found == ToFind(j, t, LookbackDelta)
           due(i) == Due(Held, j, i)
           metric(i) == j.asked[i].metric
           at(s) == AtInstant(s.points, t)
<1>0. LookbackDelta \in Nat
  BY PromQLAssumption
<1>1. found = {f \in {[e |-> e, i |-> i] : e \in Held, i \in 1 .. n} :
                 /\ f.e \in due(f.i)
                 /\ t - LookbackDelta <= Second(f.e) /\ Second(f.e) <= t}
  <2>1. \A i \in 1 .. Len(j.asked) : LookbackDelta = Before(j, i)
    BY DEF Before
  <2>2. found = DueThen(j, t, LookbackDelta)
    BY <1>0, <2>1, FoundIs
  <2> QED BY <2>2 DEF DueThen
<1>2. \A i \in 1 .. n : due(i) \subseteq Held
  BY DEF Due, InTime
<1>3. /\ \A s \in United(j) : \E i \in 1 .. n : OfSeries(s, due(i), metric(i))
      /\ \A i \in 1 .. n : \A e \in due(i) : \E s \in United(j) : s.labels = Labels(e)
      /\ \A s, s2 \in United(j) : s.labels = s2.labels => s = s2
      /\ \A s \in United(j) : \A i, k \in 1 .. n :
           OfSeries(s, due(i), metric(i)) => \A e \in due(k) : Labels(e) = s.labels => i = k
  BY UnitedIs
<1>4. \A f : f \in found <=>
        \E i \in 1 .. n : \E e \in due(i) :
          f = [e |-> e, i |-> i] /\ t - LookbackDelta <= Second(e) /\ Second(e) <= t
  BY <1>1, <1>2
<1>5. \A e, f, i, k : [e |-> e, i |-> i].e = e /\ [e |-> e, i |-> i].i = i
  OBVIOUS
<1>6. ASSUME NEW s \in United(j), NEW i \in 1 .. n, OfSeries(s, due(i), metric(i))
      PROVE  /\ at(s) = <<>> => OfMoment(due(i), s, t) = {}
             /\ at(s) # <<>> =>
                  \E e \in OfMoment(due(i), s, t) :
                    /\ at(s) = <<[t |-> t, v |-> ValuesFor(e, metric(i))]>>
                    /\ \A f \in OfMoment(due(i), s, t) : Second(f) <= Second(e)
  BY <1>2, <1>6, SampleIs
<1> HIDE DEF found, due, metric, at, n
<1>7. \A f \in found : \E s \in United(j) : s.labels = Labels(f.e) /\ at(s) # <<>>
  <2> SUFFICES ASSUME NEW f \in found
               PROVE  \E s \in United(j) : s.labels = Labels(f.e) /\ at(s) # <<>>
    OBVIOUS
  <2>1. PICK i \in 1 .. n : \E e \in due(i) :
          f = [e |-> e, i |-> i] /\ t - LookbackDelta <= Second(e) /\ Second(e) <= t
    BY <1>4
  <2>2. PICK e \in due(i) :
          f = [e |-> e, i |-> i] /\ t - LookbackDelta <= Second(e) /\ Second(e) <= t
    BY <2>1
  <2>3. PICK s \in United(j) : s.labels = Labels(e)
    BY <1>3
  <2>4. PICK k \in 1 .. n : OfSeries(s, due(k), metric(k))
    BY <1>3
  <2>5. i = k
    BY <1>3, <2>3, <2>4
  <2>6. e \in OfMoment(due(k), s, t)
    BY <2>2, <2>3, <2>5 DEF OfMoment
  <2>7. at(s) # <<>>
    BY <1>6, <2>4, <2>6
  <2> QED BY <2>2, <2>3, <2>7
<1>8. ASSUME NEW s \in United(j), at(s) # <<>>
      PROVE  \E f \in found :
               /\ Labels(f.e) = s.labels /\ Head(at(s)) = [t |-> t, v |-> ValuesOf(j, f)]
               /\ \A f2 \in found : Labels(f2.e) = s.labels => Second(f2.e) <= Second(f.e)
  <2>1. PICK i \in 1 .. n : OfSeries(s, due(i), metric(i))
    BY <1>3
  <2>2. PICK e \in OfMoment(due(i), s, t) :
          /\ at(s) = <<[t |-> t, v |-> ValuesFor(e, metric(i))]>>
          /\ \A f \in OfMoment(due(i), s, t) : Second(f) <= Second(e)
    BY <1>6, <1>8, <2>1
  <2>3. /\ e \in due(i) /\ Labels(e) = s.labels
        /\ t - LookbackDelta <= Second(e) /\ Second(e) <= t
    BY DEF OfMoment
  <2> DEFINE f == [e |-> e, i |-> i]
  <2>4. f \in found /\ f.e = e /\ f.i = i
    BY <1>4, <2>3
  <2>5. ValuesOf(j, f) = ValuesFor(e, metric(i))
    BY <2>4 DEF ValuesOf, metric
  <2>6. Head(at(s)) = [t |-> t, v |-> ValuesFor(e, metric(i))]
    BY <2>2
  <2>7. ASSUME NEW f2 \in found, Labels(f2.e) = s.labels
        PROVE  Second(f2.e) <= Second(e)
    <3>1. PICK k \in 1 .. n : \E e2 \in due(k) :
            f2 = [e |-> e2, i |-> k] /\ t - LookbackDelta <= Second(e2) /\ Second(e2) <= t
      BY <1>4
    <3>2. PICK e2 \in due(k) :
            f2 = [e |-> e2, i |-> k] /\ t - LookbackDelta <= Second(e2) /\ Second(e2) <= t
      BY <3>1
    <3>3. f2.e = e2 /\ Labels(e2) = s.labels
      BY <2>7, <3>2
    <3>4. i = k
      BY <1>3, <2>1, <3>3
    <3>5. e2 \in OfMoment(due(i), s, t)
      BY <3>2, <3>3, <3>4 DEF OfMoment
    <3> QED BY <2>2, <3>3, <3>5
  <2> HIDE DEF f
  <2> QED BY <2>3, <2>4, <2>5, <2>6, <2>7
<1>9. samples = {[labels |-> s.labels, point |-> Head(at(s))] :
                   s \in {s \in United(j) : at(s) # <<>>}}
  BY DEF at
<1>10. \A x : x \in samples <=> \E s \in United(j) :
         at(s) # <<>> /\ x = [labels |-> s.labels, point |-> Head(at(s))]
  BY <1>9
<1>11. {x.labels : x \in samples} = {Labels(f.e) : f \in found}
  <2>1. ASSUME NEW x \in samples PROVE \E f \in found : x.labels = Labels(f.e)
    <3>1. PICK s \in United(j) : at(s) # <<>> /\ x = [labels |-> s.labels, point |-> Head(at(s))]
      BY <1>10
    <3>2. x.labels = s.labels
      BY <3>1
    <3> QED BY <1>8, <3>1, <3>2
  <2>2. ASSUME NEW f \in found PROVE \E x \in samples : x.labels = Labels(f.e)
    <3>1. PICK s \in United(j) : s.labels = Labels(f.e) /\ at(s) # <<>>
      BY <1>7
    <3> DEFINE x == [labels |-> s.labels, point |-> Head(at(s))]
    <3>2. x \in samples /\ x.labels = s.labels
      BY <1>10, <3>1
    <3> QED BY <3>1, <3>2
  <2> QED BY <2>1, <2>2
<1>12. ASSUME NEW x \in samples, NEW y \in samples, x.labels = y.labels
       PROVE  x = y
  <2>1. PICK s \in United(j) : at(s) # <<>> /\ x = [labels |-> s.labels, point |-> Head(at(s))]
    BY <1>10
  <2>2. PICK u \in United(j) : at(u) # <<>> /\ y = [labels |-> u.labels, point |-> Head(at(u))]
    BY <1>10
  <2>3. s.labels = u.labels
    BY <1>12, <2>1, <2>2
  <2>4. s = u
    BY <1>3, <2>3
  <2> QED BY <2>1, <2>2, <2>4
<1>13. ASSUME NEW x \in samples
       PROVE  \E f \in found :
                /\ Labels(f.e) = x.labels /\ x.point = [t |-> t, v |-> ValuesOf(j, f)]
                /\ \A f2 \in found : Labels(f2.e) = x.labels => Second(f2.e) <= Second(f.e)
  <2>1. PICK s \in United(j) : at(s) # <<>> /\ x = [labels |-> s.labels, point |-> Head(at(s))]
    BY <1>10
  <2>2. x.labels = s.labels /\ x.point = Head(at(s))
    BY <2>1
  <2> QED BY <1>8, <2>1, <2>2
<1> QED BY <1>11, <1>12, <1>13 DEF SamplesRight, found

\* Points of the n envelopes h, which are those of X with these labels and of the time.
Ranged(points, X, labels, metric, t, range, n, h) ==
  /\ n \in Nat /\ Len(points) = n
  /\ points = [a \in 1 .. n |-> PointFor(h[a], metric)]
  /\ \A a, b \in 1 .. n : a < b => h[a] # h[b] /\ Second(h[a]) <= Second(h[b])
  /\ {h[a] : a \in 1 .. n} =
       {e \in X : Labels(e) = labels /\ t - range <= Second(e) /\ Second(e) <= t}

\* What of a series is in a range of time.
LEMMA RangeIs ==
  ASSUME NEW X, \A e \in X : e.ts \in Nat, NEW s, NEW metric, OfSeries(s, X, metric),
         NEW t \in Nat, NEW range \in Nat
  PROVE  \E n, h : Ranged(InRange(s.points, t, range), X, s.labels, metric, t, range, n, h)
<1>1. PICK es \in Seq(X) :
        /\ es # <<>> /\ ToSet(es) = {e \in X : Labels(e) = s.labels}
        /\ InOrder(es)
        /\ s = [labels |-> s.labels, points |-> [i \in DOMAIN es |-> PointFor(es[i], metric)]]
  BY DEF OfSeries
<1> DEFINE points == [i \in DOMAIN es |-> PointFor(es[i], metric)]
           m == Len(es)
           kept == {p \in ToSet(points) : t - range <= p.t /\ p.t <= t}
<1>2. s.points = points
  BY <1>1
<1>3. m \in Nat /\ DOMAIN es = 1 .. m /\ \A i \in 1 .. m : es[i] \in X
  OBVIOUS
<1>4. points = [i \in 1 .. m |-> PointFor(es[i], metric)] /\ DOMAIN points = 1 .. m
  BY <1>3
<1>5. InRange(points, t, range) = Within(points, kept)
  BY DEF InRange
<1> HIDE DEF points, m
<1>6. points \in Seq(ToSet(points))
  <2>1. \A i \in 1 .. m : points[i] \in ToSet(points)
    BY <1>4 DEF ToSet
  <2>2. points = [i \in 1 .. m |-> points[i]]
    BY <1>4
  <2> QED BY <1>3, <2>1, <2>2
<1>7. PICK n, g : Indexes(points, kept, n, g)
  <2> HIDE DEF kept
  <2> QED BY <1>6, WithinIs
<1>8. /\ n \in Nat /\ g \in [1 .. n -> 1 .. m]
      /\ \A a, b \in 1 .. n : a < b => g[a] < g[b]
      /\ {g[a] : a \in 1 .. n} = {i \in 1 .. m : points[i] \in kept}
      /\ Within(points, kept) = [a \in 1 .. n |-> points[g[a]]]
  <2> HIDE DEF kept
  <2> QED BY <1>4, <1>7 DEF Indexes
<1> DEFINE h == [a \in 1 .. n |-> es[g[a]]]
<1>9. \A a \in 1 .. n : g[a] \in 1 .. m /\ h[a] = es[g[a]] /\ h[a] \in X
  BY <1>3, <1>8
<1>10. \A i \in 1 .. m : points[i] \in kept <=>
         t - range <= Second(es[i]) /\ Second(es[i]) <= t
  <2> SUFFICES ASSUME NEW i \in 1 .. m
               PROVE  points[i] \in kept <=> t - range <= Second(es[i]) /\ Second(es[i]) <= t
    OBVIOUS
  <2>1. points[i] \in ToSet(points) /\ points[i].t = Second(es[i])
    BY <1>4 DEF ToSet, PointFor
  <2> QED BY <2>1
<1> HIDE DEF h, kept
<1>11. \A a \in 1 .. n : points[g[a]] = PointFor(h[a], metric)
  BY <1>4, <1>9
<1>12. Within(points, kept) = [a \in 1 .. n |-> PointFor(h[a], metric)]
  BY <1>8, <1>11
<1>13. Len(Within(points, kept)) = n
  BY <1>8
<1>14. ASSUME NEW a \in 1 .. n, NEW b \in 1 .. n, a < b
       PROVE  h[a] # h[b] /\ Second(h[a]) <= Second(h[b])
  <2>1. g[a] < g[b] /\ g[a] \in DOMAIN es /\ g[b] \in DOMAIN es
    BY <1>3, <1>8, <1>9, <1>14
  <2>2. h[a].ts <= h[b].ts /\ h[a] # h[b] /\ h[a].ts \in Nat /\ h[b].ts \in Nat
    BY <1>1, <1>9, <2>1 DEF InOrder
  <2> QED BY <2>2, SecondIs
<1>15. {h[a] : a \in 1 .. n} =
         {e \in X : Labels(e) = s.labels /\ t - range <= Second(e) /\ Second(e) <= t}
  <2>1. ASSUME NEW a \in 1 .. n
        PROVE  /\ h[a] \in X /\ Labels(h[a]) = s.labels
               /\ t - range <= Second(h[a]) /\ Second(h[a]) <= t
    <3>1. g[a] \in 1 .. m /\ points[g[a]] \in kept
      BY <1>8
    <3>2. h[a] \in ToSet(es)
      BY <1>3, <1>9 DEF ToSet
    <3> QED BY <1>1, <1>9, <1>10, <3>1, <3>2
  <2>2. ASSUME NEW e \in X, Labels(e) = s.labels, t - range <= Second(e), Second(e) <= t
        PROVE  \E a \in 1 .. n : e = h[a]
    <3>1. PICK i \in 1 .. m : e = es[i]
      BY <1>1, <1>3, <2>2 DEF ToSet
    <3>2. points[i] \in kept
      BY <1>10, <2>2, <3>1
    <3>3. PICK a \in 1 .. n : i = g[a]
      BY <1>8, <3>2
    <3> QED BY <1>9, <3>1, <3>3
  <2> QED BY <2>1, <2>2
<1>16. InRange(s.points, t, range) = [a \in 1 .. n |-> PointFor(h[a], metric)]
  BY <1>2, <1>5, <1>12
<1>17. Len(InRange(s.points, t, range)) = n
  BY <1>2, <1>5, <1>13
<1>18. Ranged(InRange(s.points, t, range), X, s.labels, metric, t, range, n, h)
  BY <1>8, <1>14, <1>15, <1>16, <1>17 DEF Ranged
<1> QED BY <1>18

\* The series of a selector's range are right.
LEMMA SeriesAreRight ==
  ASSUME NEW j, Computed(j), \A e \in Held : e.ts \in Nat,
         Instant \in Nat, Times(j) = <<Instant>>,
         Len(j.asked) = 1, NEW range \in Nat \ {0}, j.asked[1].range = range,
         NEW result,
         result = {[labels |-> s.labels, points |-> InRange(s.points, Instant, range)] :
                     s \in {s \in United(j) : InRange(s.points, Instant, range) # <<>>}}
  PROVE  SeriesRight(j, result)
<1> DEFINE found == ToFind(j, Instant, range)
           due == Due(Held, j, 1)
           metric == j.asked[1].metric
           in(s) == InRange(s.points, Instant, range)
           own(s) == {e \in due : /\ Labels(e) = s.labels
                                  /\ Instant - range <= Second(e) /\ Second(e) <= Instant}
           pair(e) == [e |-> e, i |-> 1]
<1>1. found = {f \in {[e |-> e, i |-> i] : e \in Held, i \in 1 .. 1} :
                 /\ f.e \in Due(Held, j, f.i)
                 /\ Instant - range <= Second(f.e) /\ Second(f.e) <= Instant}
  <2>1. Head(Times(j)) = Instant /\ Head(Times(j)) <= Instant
    OBVIOUS
  <2>2. \A i \in 1 .. Len(j.asked) :
          range = Before(j, i)
    <3> SUFFICES ASSUME NEW i \in 1 .. Len(j.asked)
                 PROVE  range = Before(j, i)
      OBVIOUS
    <3>1. i = 1
      OBVIOUS
    <3> QED BY <3>1 DEF Before
  <2>3. range \in Nat /\ Head(Times(j)) \in Nat
    BY <2>1
  <2>4. found = DueThen(j, Instant, range)
    BY <2>1, <2>2, <2>3, FoundIs
  <2> QED BY <2>4 DEF DueThen
<1>2. due \subseteq Held /\ \A i : i \in 1 .. 1 <=> i = 1
  BY DEF Due, InTime
<1>3. \A f : f \in found <=>
        \E e \in due : f = pair(e) /\ Instant - range <= Second(e) /\ Second(e) <= Instant
  BY <1>1, <1>2
<1>4. /\ \A s \in United(j) : OfSeries(s, due, metric)
      /\ \A e \in due : \E s \in United(j) : s.labels = Labels(e)
      /\ \A s, s2 \in United(j) : s.labels = s2.labels => s = s2
  <2>1. 1 \in 1 .. Len(j.asked) /\ \A i \in 1 .. Len(j.asked) : i = 1
    OBVIOUS
  <2> QED BY <2>1, UnitedIs
<1>5. \A e : pair(e).e = e /\ pair(e).i = 1
  OBVIOUS
<1>6. ASSUME NEW s \in United(j)
      PROVE  \E n, h : Ranged(in(s), due, s.labels, metric, Instant, range, n, h)
  <2>1. OfSeries(s, due, metric) /\ \A e \in due : e.ts \in Nat
    BY <1>2, <1>4
  <2> HIDE DEF due, metric
  <2> QED BY <2>1, RangeIs
<1> HIDE DEF found, due, metric, in, pair
<1>7. ASSUME NEW s \in United(j)
      PROVE  /\ in(s) # <<>> <=> own(s) # {}
             /\ Len(in(s)) = Cardinality({f \in found : Labels(f.e) = s.labels})
             /\ ToSet(in(s)) = {[t |-> Second(f.e), v |-> ValuesOf(j, f)] :
                                  f \in {f \in found : Labels(f.e) = s.labels}}
             /\ \A a, b \in DOMAIN in(s) : a < b => in(s)[a].t <= in(s)[b].t
  <2>1. PICK n, h : Ranged(in(s), due, s.labels, metric, Instant, range, n, h)
    BY <1>6
  <2>2. /\ n \in Nat /\ Len(in(s)) = n
        /\ in(s) = [a \in 1 .. n |-> PointFor(h[a], metric)]
        /\ \A a, b \in 1 .. n : a < b => h[a] # h[b] /\ Second(h[a]) <= Second(h[b])
        /\ {h[a] : a \in 1 .. n} = own(s)
    BY <2>1 DEF Ranged
  <2> DEFINE ownFound == {f \in found : Labels(f.e) = s.labels}
             w == in(s)
             B == [a \in 1 .. n |-> pair(h[a])]
  <2>3. \A f : f \in ownFound <=> \E e \in own(s) : f = pair(e)
    BY <1>3, <1>5
  <2>4. DOMAIN w = 1 .. n /\ \A a \in 1 .. n : w[a] = PointFor(h[a], metric)
    BY <2>2
  <2>5. in(s) # <<>> <=> own(s) # {}
    <3>1. in(s) # <<>> <=> n # 0
      <4>1. n = 0 => in(s) = <<>>
        BY <2>2
      <4>2. in(s) = <<>> => Len(in(s)) = 0
        OBVIOUS
      <4> QED BY <2>2, <4>1, <4>2
    <3>2. n # 0 <=> 1 .. n # {}
      BY <2>2
    <3>3. 1 .. n # {} <=> {h[a] : a \in 1 .. n} # {}
      OBVIOUS
    <3> QED BY <2>2, <3>1, <3>2, <3>3
  <2> HIDE DEF own, ownFound
  <2>6. ownFound = {pair(h[a]) : a \in 1 .. n}
    BY <2>2, <2>3
  <2>7. \A a, b \in 1 .. n : h[a] = h[b] => a = b
    <3> SUFFICES ASSUME NEW a \in 1 .. n, NEW b \in 1 .. n, h[a] = h[b] PROVE a = b
      OBVIOUS
    <3>1. ~(a < b) /\ ~(b < a)
      BY <2>2
    <3> QED BY <3>1
  <2>8. n = Cardinality(ownFound)
    <3>1. B \in [1 .. n -> ownFound] /\ \A a \in 1 .. n : B[a] = pair(h[a])
      BY <2>6
    <3>2. \A a, b \in 1 .. n : B[a] = B[b] => a = b
      BY <1>5, <2>7, <3>1
    <3>3. \A f \in ownFound : \E a \in 1 .. n : B[a] = f
      BY <2>6, <3>1
    <3> HIDE DEF B
    <3>4. B \in Bijection(1 .. n, ownFound)
      BY <3>1, <3>2, <3>3 DEF Bijection, Injection, IsInjective, Surjection
    <3>5. ExistsBijection(1 .. n, ownFound)
      BY <3>4 DEF ExistsBijection
    <3>6. IsFiniteSet(1 .. n) /\ Cardinality(1 .. n) = n
      BY <2>2, FS_Interval
    <3> QED BY <3>5, <3>6, FS_Bijection
  <2>9. ToSet(w) = {[t |-> Second(f.e), v |-> ValuesOf(j, f)] : f \in ownFound}
    <3>1. ToSet(w) = {PointFor(h[a], metric) : a \in 1 .. n}
      BY <2>4 DEF ToSet
    <3>2. \A e : [t |-> Second(pair(e).e), v |-> ValuesOf(j, pair(e))] = PointFor(e, metric)
      BY <1>5 DEF PointFor, ValuesOf, metric
    <3> QED BY <2>6, <3>1, <3>2
  <2>10. ASSUME NEW a \in DOMAIN w, NEW b \in DOMAIN w, a < b PROVE w[a].t <= w[b].t
    <3>1. w[a].t = Second(h[a]) /\ w[b].t = Second(h[b])
      BY <2>4 DEF PointFor
    <3> QED BY <2>2, <2>4, <2>10, <3>1
  <2> HIDE DEF w
  <2>11. Len(w) = Cardinality(ownFound)
    BY <2>2, <2>8 DEF w
  <2>12. \A a, b \in DOMAIN w : a < b => w[a].t <= w[b].t
    BY <2>10
  <2> QED BY <2>5, <2>9, <2>11, <2>12 DEF w, ownFound
<1> DEFINE with(x) == {f \in found : Labels(f.e) = x.labels}
<1>8. \A x : x \in result <=> \E s \in United(j) :
         in(s) # <<>> /\ x = [labels |-> s.labels, points |-> in(s)]
  BY DEF in
<1>9. ASSUME NEW x \in result
      PROVE  \E s \in United(j) : in(s) # <<>> /\ x.labels = s.labels /\ x.points = in(s)
  <2>1. PICK s \in United(j) : in(s) # <<>> /\ x = [labels |-> s.labels, points |-> in(s)]
    BY <1>8
  <2> QED BY <2>1
<1>10. ASSUME NEW x \in result
       PROVE  /\ Len(x.points) = Cardinality(with(x))
              /\ ToSet(x.points) = {[t |-> Second(f.e), v |-> ValuesOf(j, f)] : f \in with(x)}
              /\ \A a, b \in DOMAIN x.points : a < b => x.points[a].t <= x.points[b].t
  <2>1. PICK s \in United(j) : in(s) # <<>> /\ x.labels = s.labels /\ x.points = in(s)
    BY <1>9
  <2>2. with(x) = {f \in found : Labels(f.e) = s.labels}
    BY <2>1
  <2> HIDE DEF with
  <2> QED BY <1>7, <2>1, <2>2
<1>11. {x.labels : x \in result} = {Labels(f.e) : f \in found}
  <2>1. ASSUME NEW x \in result PROVE \E f \in found : x.labels = Labels(f.e)
    <3>1. PICK s \in United(j) : in(s) # <<>> /\ x.labels = s.labels
      BY <1>9
    <3>2. PICK e \in own(s) : TRUE
      BY <1>7, <3>1
    <3>3. pair(e) \in found
      BY <1>3
    <3> QED BY <1>5, <3>1, <3>3
  <2>2. ASSUME NEW f \in found PROVE \E x \in result : x.labels = Labels(f.e)
    <3>1. PICK e \in due : f = pair(e) /\ Instant - range <= Second(e) /\ Second(e) <= Instant
      BY <1>3
    <3>2. PICK s \in United(j) : s.labels = Labels(e)
      BY <1>4
    <3>3. e \in own(s)
      BY <3>1, <3>2
    <3>4. in(s) # <<>>
      BY <1>7, <3>3
    <3> DEFINE x == [labels |-> s.labels, points |-> in(s)]
    <3>5. x \in result /\ x.labels = s.labels
      BY <1>8, <3>4
    <3> QED BY <1>5, <3>1, <3>2, <3>5
  <2> QED BY <2>1, <2>2
<1> HIDE DEF own
<1>12. found = ToFind(j, Instant, j.asked[1].range)
  BY DEF found
<1> QED BY <1>10, <1>11, <1>12 DEF SeriesRight

\* The values that there are, and those of a scalar.
Values(j) == {ValuesFor(e, j.asked[i].metric) : e \in Held, i \in 1 .. Len(j.asked)} \cup {{1}}

Points(j) == [t : Nat, v : Values(j)]

\* What samples and ranges of series are made of.
LEMMA SeriesTyped ==
  ASSUME NEW j, Computed(j), \A e \in Held : e.ts \in Nat, NEW s \in United(j), NEW t \in Nat
  PROVE  /\ AtInstant(s.points, t) = <<>> \/
              \E p \in Points(j) : p.t = t /\ AtInstant(s.points, t) = <<p>>
         /\ \A range \in Nat : InRange(s.points, t, range) \in Seq(Points(j))
<1> DEFINE due(i) == Due(Held, j, i)
           metric(i) == j.asked[i].metric
<1>1. PICK i \in 1 .. Len(j.asked) : OfSeries(s, due(i), metric(i))
  BY UnitedIs
<1>2. due(i) \subseteq Held /\ \A e \in due(i) : e.ts \in Nat
  BY DEF Due, InTime
<1>3. \A e \in due(i) : PointFor(e, metric(i)) \in Points(j) /\ ValuesFor(e, metric(i)) \in Values(j)
  <2> SUFFICES ASSUME NEW e \in due(i)
               PROVE  PointFor(e, metric(i)) \in Points(j) /\ ValuesFor(e, metric(i)) \in Values(j)
    OBVIOUS
  <2>1. Second(e) \in Nat
    BY <1>2, SecondIs
  <2>2. ValuesFor(e, metric(i)) \in Values(j)
    BY <1>2 DEF Values
  <2> QED BY <2>1, <2>2 DEF PointFor, Points
<1> HIDE DEF due, metric
<1>4. AtInstant(s.points, t) = <<>> \/
        \E e \in due(i) : AtInstant(s.points, t) = <<[t |-> t, v |-> ValuesFor(e, metric(i))]>>
  <2>1. AtInstant(s.points, t) # <<>> =>
          \E e \in OfMoment(due(i), s, t) :
            /\ AtInstant(s.points, t) = <<[t |-> t, v |-> ValuesFor(e, metric(i))]>>
            /\ \A f \in OfMoment(due(i), s, t) : Second(f) <= Second(e)
    BY <1>1, <1>2, SampleIs
  <2>2. OfMoment(due(i), s, t) \subseteq due(i)
    BY DEF OfMoment
  <2> QED BY <2>1, <2>2
<1>5. AtInstant(s.points, t) = <<>> \/
        \E p \in Points(j) : p.t = t /\ AtInstant(s.points, t) = <<p>>
  <2> SUFFICES ASSUME NEW e \in due(i),
                      AtInstant(s.points, t) = <<[t |-> t, v |-> ValuesFor(e, metric(i))]>>
               PROVE  \E p \in Points(j) : p.t = t /\ AtInstant(s.points, t) = <<p>>
    BY <1>4
  <2> DEFINE p == [t |-> t, v |-> ValuesFor(e, metric(i))]
  <2>1. p \in Points(j) /\ p.t = t
    BY <1>3 DEF Points
  <2> QED BY <2>1
<1>6. ASSUME NEW range \in Nat PROVE InRange(s.points, t, range) \in Seq(Points(j))
  <2> DEFINE w == InRange(s.points, t, range)
  <2>1. PICK n, h : Ranged(w, due(i), s.labels, metric(i), t, range, n, h)
    BY <1>1, <1>2, RangeIs
  <2> HIDE DEF w
  <2>2. /\ n \in Nat /\ w = [a \in 1 .. n |-> PointFor(h[a], metric(i))]
        /\ \A a \in 1 .. n : h[a] \in due(i)
    BY <2>1 DEF Ranged
  <2>3. \A a \in 1 .. n : PointFor(h[a], metric(i)) \in Points(j)
    BY <1>3, <2>2
  <2>4. w \in Seq(Points(j))
    BY <2>2, <2>3
  <2> QED BY <2>4 DEF w
<1> QED BY <1>5, <1>6

\* Every series has a sample of the moment t, or none.
SampledOf(j, t) ==
  \A s \in United(j) :
    AtInstant(s.points, t) = <<>> \/
      \E p \in Points(j) : p.t = t /\ AtInstant(s.points, t) = <<p>>

\* The engine's instants are such samples.
LEMMA SamplesTyped ==
  ASSUME NEW j, Computed(j), \A e \in Held : e.ts \in Nat, NEW t \in Nat
  PROVE  SampledOf(j, t)
<1>1. ASSUME NEW s \in United(j)
      PROVE  AtInstant(s.points, t) = <<>> \/
               \E p \in Points(j) : p.t = t /\ AtInstant(s.points, t) = <<p>>
  BY SeriesTyped
<1> QED BY <1>1, Zenon DEF SampledOf

\* A series has, of each of the times, the sample of that moment.
LEMMA AtTimesIs ==
  ASSUME NEW j, Computed(j), \A e \in Held : e.ts \in Nat, NEW s \in United(j),
         NEW times \in Seq(Nat) \ {<<>>}
  PROVE  /\ AtTimes(s.points, times) \in Seq(Points(j))
         /\ \A t \in ToSet(times) : \A p :
              p \in ToSet(AtTimes(s.points, times)) /\ p.t = t <=>
                AtInstant(s.points, t) # <<>> /\ p = Head(AtInstant(s.points, t))
<1> DEFINE at(t) == AtInstant(s.points, t)
           ss == [i \in DOMAIN times |-> at(times[i])]
           n == Len(times)
<1>1. n \in Nat /\ n # 0 /\ DOMAIN times = 1 .. n /\ \A i \in 1 .. n : times[i] \in Nat
  OBVIOUS
<1>2. \A t \in Nat : at(t) = <<>> \/ \E p \in Points(j) : p.t = t /\ at(t) = <<p>>
  BY SeriesTyped
<1>3. AtTimes(s.points, times) = FlattenSeq(ss)
  BY DEF AtTimes
<1> HIDE DEF at, n
<1>4. \A t \in Nat : at(t) \in Seq(Points(j))
  <2> SUFFICES ASSUME NEW t \in Nat PROVE at(t) \in Seq(Points(j))
    OBVIOUS
  <2>1. <<>> \in Seq(Points(j)) /\ \A p \in Points(j) : <<p>> \in Seq(Points(j))
    OBVIOUS
  <2> QED BY <1>2, <2>1
<1>5. ss \in Seq(Seq(Points(j))) /\ ss # <<>> /\ DOMAIN ss = 1 .. n
  <2>1. ss = [i \in 1 .. n |-> at(times[i])]
    BY <1>1
  <2>2. \A i \in 1 .. n : at(times[i]) \in Seq(Points(j))
    BY <1>1, <1>4
  <2> HIDE DEF ss
  <2>3. ss \in Seq(Seq(Points(j))) /\ DOMAIN ss = 1 .. n
    BY <1>1, <2>1, <2>2
  <2>4. ss # <<>>
    <3>1. 1 \in DOMAIN ss
      BY <1>1, <2>3
    <3> QED BY <3>1
  <2> QED BY <2>3, <2>4
<1>6. /\ FlattenSeq(ss) \in Seq(Points(j))
      /\ Range(FlattenSeq(ss)) = UNION {Range(ss[i]) : i \in DOMAIN ss}
  <2> HIDE DEF ss
  <2> QED BY <1>5, FlattenRange
<1>7. \A i \in 1 .. n : ss[i] = at(times[i])
  BY <1>1
<1> HIDE DEF ss
<1>8. \A p : p \in ToSet(AtTimes(s.points, times)) <=>
        \E i \in 1 .. n : p \in Range(at(times[i]))
  <2>1. \A q : ToSet(q) = Range(q)
    BY DEF ToSet, Range
  <2> QED BY <1>3, <1>5, <1>6, <1>7, <2>1
<1>9. \A t \in Nat : \A p : p \in Range(at(t)) <=> at(t) # <<>> /\ p = Head(at(t)) 
  <2> SUFFICES ASSUME NEW t \in Nat, NEW p
               PROVE  p \in Range(at(t)) <=> at(t) # <<>> /\ p = Head(at(t))
    OBVIOUS
  <2>1. CASE at(t) = <<>>
    BY <2>1 DEF Range
  <2>2. ASSUME NEW q, at(t) = <<q>> PROVE p \in Range(at(t)) <=> at(t) # <<>> /\ p = Head(at(t))
    <3>1. Range(<<q>>) = {q}
      BY DEF Range
    <3>2. <<q>> # <<>> /\ Head(<<q>>) = q
      OBVIOUS
    <3> QED BY <2>2, <3>1, <3>2
  <2> QED BY <1>2, <2>1, <2>2
<1>10. \A t \in Nat : at(t) # <<>> => Head(at(t)).t = t
  <2> SUFFICES ASSUME NEW t \in Nat, at(t) # <<>> PROVE Head(at(t)).t = t
    OBVIOUS
  <2>1. PICK q \in Points(j) : q.t = t /\ at(t) = <<q>>
    BY <1>2
  <2> QED BY <2>1
<1>11. ASSUME NEW t \in ToSet(times), NEW p
       PROVE  p \in ToSet(AtTimes(s.points, times)) /\ p.t = t <=>
                at(t) # <<>> /\ p = Head(at(t))
  <2>1. PICK k \in 1 .. n : t = times[k] /\ t \in Nat
    BY <1>1 DEF ToSet
  <2>2. ASSUME p \in ToSet(AtTimes(s.points, times)), p.t = t
        PROVE  at(t) # <<>> /\ p = Head(at(t))
    <3>1. PICK i \in 1 .. n : p \in Range(at(times[i]))
      BY <1>8, <2>2
    <3>2. times[i] = t
      BY <1>1, <1>9, <1>10, <2>2, <3>1
    <3> QED BY <1>9, <2>1, <3>1, <3>2
  <2>3. ASSUME at(t) # <<>>, p = Head(at(t))
        PROVE  p \in ToSet(AtTimes(s.points, times)) /\ p.t = t
    BY <1>8, <1>9, <1>10, <2>1, <2>3
  <2> QED BY <2>2, <2>3
<1> QED BY <1>3, <1>6, <1>11 DEF at

\* Results of the engine are decoded as they were, whatever their labels.
LEMMA EngineDecoded ==
  ASSUME NEW j, NEW L
  PROVE  /\ \A p \in Points(j) : Decode(Marshal(Scalar(p)), FALSE) = Scalar(p)
         /\ \A samples \in SUBSET [labels : L, point : Points(j)] :
              Decode(Marshal(Vector(samples)), FALSE) = Vector(samples)
         /\ \A series \in SUBSET [labels : L, points : Seq(Points(j))] :
              /\ Decode(Marshal(Matrix(series)), TRUE) = Matrix(series)
              /\ Decode(Marshal(Matrix(series)), FALSE) = Matrix(series)
<1>1. Points(j) = [t : Nat, v : Values(j)]
  BY DEF Points
<1>2. \A p \in [t : Nat, v : Values(j)] : Decode(Marshal(Scalar(p)), FALSE) = Scalar(p)
  BY ScalarBack
<1>3. \A s \in [labels : L, point : [t : Nat, v : Values(j)]] : SampleOf(SampleJson(s)) = s
  BY SampleBack
<1>4. \A s \in [labels : L, points : Seq([t : Nat, v : Values(j)])] :
        SeriesOf(SeriesJson(s)) = s
  BY SeriesBack
<1>5. ASSUME NEW samples \in SUBSET [labels : L, point : Points(j)]
      PROVE  Decode(Marshal(Vector(samples)), FALSE) = Vector(samples)
  <2>1. \A s \in samples : SampleOf(SampleJson(s)) = s
    BY <1>1, <1>3
  <2> QED BY <2>1, VectorBack
<1>6. ASSUME NEW series \in SUBSET [labels : L, points : Seq(Points(j))]
      PROVE  /\ Decode(Marshal(Matrix(series)), TRUE) = Matrix(series)
             /\ Decode(Marshal(Matrix(series)), FALSE) = Matrix(series)
  <2>1. \A s \in series : SeriesOf(SeriesJson(s)) = s
    BY <1>1, <1>4
  <2> QED BY <2>1, MatrixBack
<1> QED BY <1>1, <1>2, <1>5, <1>6

\* A range query's result is right at each of its times.
LEMMA RangeResultIsRight ==
  ASSUME NEW j, Computed(j), \A e \in Held : e.ts \in Nat, j.range = TRUE,
         \A i \in 1 .. Len(j.asked) : j.asked[i].range = 0,
         j.query = <<>> <=> j.asked = <<>>
  PROVE  ResultRight(j, Decode(Marshal(RangeResult(j)), TRUE))
<1>0. /\ Instants \in Seq(Nat) \ {<<>>} /\ Times(j) = Instants
      /\ \A i, k \in DOMAIN Instants : i < k => Instants[i] <= Instants[k]
  BY QueryAssumption DEF Times
<1>1. CASE j.asked = <<>>
  <2> DEFINE ps == Map(ScalarAt, Instants)
             series == {[labels |-> <<>>, points |-> ps]}
             L == {<<>>}
  <2>1. RangeResult(j) = Matrix(series)
    BY <1>1 DEF RangeResult
  <2>2. ps \in Seq(Points(j))
    <3>1. ps = [i \in 1 .. Len(Instants) |-> [t |-> Instants[i], v |-> {1}]]
      BY <1>0 DEF Map, ScalarAt
    <3>2. Len(Instants) \in Nat /\ \A i \in 1 .. Len(Instants) : Instants[i] \in Nat
      BY <1>0
    <3>3. \A i \in 1 .. Len(Instants) : [t |-> Instants[i], v |-> {1}] \in Points(j)
      BY <3>2 DEF Points, Values
    <3> DEFINE m == Len(Instants)
               point(i) == [t |-> Instants[i], v |-> {1}]
    <3>4. m \in Nat /\ ps = [i \in 1 .. m |-> point(i)] /\ \A i \in 1 .. m : point(i) \in Points(j)
      BY <3>1, <3>2, <3>3
    <3> HIDE DEF ps, m, point
    <3> QED BY <3>4
  <2> HIDE DEF ps
  <2>3. series \in SUBSET [labels : L, points : Seq(Points(j))]
    BY <2>2
  <2> HIDE DEF series, L
  <2>4. Decode(Marshal(Matrix(series)), TRUE) = Matrix(series)
    BY <2>3, EngineDecoded
  <2>5. Matrix(series).type = "matrix"
    BY DEF Matrix
  <2> QED BY <1>1, <2>1, <2>4, <2>5 DEF ResultRight
<1>2. CASE j.asked # <<>>
  <2> DEFINE points(s) == AtTimes(s.points, Instants)
             series == {[labels |-> s.labels, points |-> points(s)] :
                          s \in {s \in United(j) : points(s) # <<>>}}
             L == {s.labels : s \in United(j)}
             at(s, t) == AtInstant(s.points, t)
  <2>1. RangeResult(j) = Matrix(series)
    BY <1>2 DEF RangeResult
  <2>2. ASSUME NEW s \in United(j)
        PROVE  /\ points(s) \in Seq(Points(j))
               /\ \A t \in ToSet(Instants) : \A p :
                    p \in ToSet(points(s)) /\ p.t = t <=> at(s, t) # <<>> /\ p = Head(at(s, t))
    BY <1>0, AtTimesIs
  <2> HIDE DEF points, at
  <2>3. series \in SUBSET [labels : L, points : Seq(Points(j))]
    BY <2>2
  <2>4. Decode(Marshal(Matrix(series)), TRUE) = Matrix(series)
    <3> HIDE DEF series, L
    <3> QED BY <2>3, EngineDecoded
  <2>5. \A x : x \in series <=> \E s \in United(j) :
           points(s) # <<>> /\ x = [labels |-> s.labels, points |-> points(s)]
    OBVIOUS
  <2> HIDE DEF series
  <2>6. ASSUME NEW t \in ToSet(Instants)
        PROVE  SamplesRight(j, UNION {{[labels |-> x.labels, point |-> p] :
                                   p \in {p \in ToSet(x.points) : p.t = t}} :
                                x \in series}, t)
    <3> DEFINE of(x) == {[labels |-> x.labels, point |-> p] : p \in {p \in ToSet(x.points) : p.t = t}}
               samples == UNION {of(x) : x \in series}
               right == {[labels |-> s.labels, point |-> Head(at(s, t))] :
                           s \in {s \in United(j) : at(s, t) # <<>>}}
    <3>1. t \in Nat /\ Head(Times(j)) \in Nat /\ Head(Times(j)) <= t
      <4>1. PICK i \in DOMAIN Instants : t = Instants[i]
        BY DEF ToSet
      <4>2. /\ 1 \in DOMAIN Instants /\ Instants[1] \in Nat /\ Instants[i] \in Nat
            /\ Head(Instants) = Instants[1] /\ i \in Nat /\ 1 <= i
        BY <1>0
      <4>3. Instants[1] <= Instants[i]
        BY <1>0, <4>2
      <4> QED BY <1>0, <4>1, <4>2, <4>3
    <3>2. \A y : y \in samples <=> \E x \in series : \E p \in ToSet(x.points) :
             p.t = t /\ y = [labels |-> x.labels, point |-> p]
      OBVIOUS
    <3>3. \A y : y \in right <=> \E s \in United(j) :
             at(s, t) # <<>> /\ y = [labels |-> s.labels, point |-> Head(at(s, t))]
      OBVIOUS
    <3> HIDE DEF samples, right
    <3>4. ASSUME NEW y \in samples PROVE y \in right
      <4>1. PICK x \in series : \E p \in ToSet(x.points) :
               p.t = t /\ y = [labels |-> x.labels, point |-> p]
        BY <3>2
      <4>2. PICK p \in ToSet(x.points) : p.t = t /\ y = [labels |-> x.labels, point |-> p]
        BY <4>1
      <4>3. PICK s \in United(j) : points(s) # <<>> /\ x = [labels |-> s.labels, points |-> points(s)]
        BY <2>5
      <4>4. x.labels = s.labels /\ x.points = points(s)
        BY <4>3
      <4>5. at(s, t) # <<>> /\ p = Head(at(s, t))
        BY <2>2, <4>2, <4>4
      <4> QED BY <3>3, <4>2, <4>4, <4>5
    <3>5. ASSUME NEW y \in right PROVE y \in samples
      <4>1. PICK s \in United(j) :
              at(s, t) # <<>> /\ y = [labels |-> s.labels, point |-> Head(at(s, t))]
        BY <3>3
      <4> DEFINE p == Head(at(s, t))
                 x == [labels |-> s.labels, points |-> points(s)]
      <4>2. p \in ToSet(points(s)) /\ p.t = t
        BY <2>2, <4>1
      <4>3. points(s) # <<>>
        BY <4>2 DEF ToSet
      <4>4. x \in series /\ x.labels = s.labels /\ x.points = points(s)
        BY <2>5, <4>3
      <4> HIDE DEF x, p
      <4>5. y = [labels |-> x.labels, point |-> p]
        BY <4>1, <4>4 DEF p
      <4> QED BY <3>2, <4>2, <4>4, <4>5
    <3>6. samples = right
      BY <3>4, <3>5
    <3>7. right = {[labels |-> s.labels, point |-> Head(AtInstant(s.points, t))] :
                     s \in {s \in United(j) : AtInstant(s.points, t) # <<>>}}
      BY DEF right, at
    <3>8. SamplesRight(j, right, t)
      BY <3>1, <3>7, SamplesAreRight
    <3> QED BY <3>6, <3>8 DEF samples
  <2>7. Matrix(series).type = "matrix" /\ Matrix(series).data = series
    BY DEF Matrix
  <2> QED BY <1>2, <2>1, <2>4, <2>6, <2>7 DEF ResultRight
<1> QED BY <1>1, <1>2

\* So is an instant query's.
LEMMA InstantResultIsRight ==
  ASSUME NEW j, Computed(j), \A e \in Held : e.ts \in Nat, j.range = FALSE,
         \A i \in 1 .. Len(j.asked) : j.asked[i].range \in Nat,
         j.query = <<>> <=> j.asked = <<>>,
         j.asked # <<>> => j.query[1].range = j.asked[1].range
  PROVE  ResultRight(j, Decode(Marshal(InstantResult(j)), FALSE))
<1>0. Instant \in Nat /\ Times(j) = <<Instant>>
  BY QueryAssumption DEF Times
<1> DEFINE L == {s.labels : s \in United(j)}
           n == Len(j.asked)
<1>n. n \in Nat /\ (j.asked # <<>> <=> n # 0)
  BY DEF Computed, IsSequence
<1>1. CASE j.asked = <<>>
  <2>1. InstantResult(j) = Scalar(ScalarAt(Instant))
    BY <1>1 DEF InstantResult
  <2>2. ScalarAt(Instant) \in Points(j)
    BY <1>0 DEF ScalarAt, Points, Values
  <2>3. Decode(Marshal(InstantResult(j)), FALSE) = Scalar(ScalarAt(Instant))
    BY <2>1, <2>2, EngineDecoded
  <2>4. Scalar(ScalarAt(Instant)).type = "scalar"
    BY DEF Scalar
  <2> QED BY <1>1, <2>3, <2>4 DEF ResultRight
<1>2. CASE j.asked # <<>> /\ j.asked[1].range = 0
  <2> DEFINE at(s) == AtInstant(s.points, Instant)
             samples == {[labels |-> s.labels, point |-> Head(at(s))] :
                           s \in {s \in United(j) : at(s) # <<>>}}
  <2>1. InstantResult(j) = Vector(samples)
    BY <1>2 DEF InstantResult
  <2>2. \A s \in United(j) : at(s) = <<>> \/ \E p \in Points(j) : p.t = Instant /\ at(s) = <<p>>
    <3> HIDE DEF samples, L, n
    <3>1. SampledOf(j, Instant)
      BY <1>0, SamplesTyped
    <3> QED BY <3>1, Zenon DEF SampledOf, at
  <2>3. \A i \in 1 .. n : j.asked[i].range = 0
    BY <1>n, <1>2 DEF Computed
  <2>4. SamplesRight(j, samples, Instant)
    <3>1. Head(Times(j)) = Instant /\ Head(Times(j)) <= Instant
      BY <1>0
    <3> HIDE DEF n
    <3>2. \A i \in 1 .. Len(j.asked) : j.asked[i].range = 0
      BY <2>3 DEF n
    <3>3. samples = {[labels |-> s.labels, point |-> Head(AtInstant(s.points, Instant))] :
                       s \in {s \in United(j) : AtInstant(s.points, Instant) # <<>>}}
      OBVIOUS
    <3> HIDE DEF samples
    <3> QED BY <1>0, <3>1, <3>2, <3>3, SamplesAreRight
  <2> HIDE DEF at
  <2>5. \A s \in United(j) : at(s) # <<>> => Head(at(s)) \in Points(j)
    BY <2>2
  <2>6. samples \in SUBSET [labels : L, point : Points(j)]
    BY <2>5
  <2> HIDE DEF samples, L
  <2>7. Decode(Marshal(Vector(samples)), FALSE) = Vector(samples)
    BY <2>6, EngineDecoded
  <2>8. Vector(samples).type = "vector" /\ Vector(samples).data = samples
    BY DEF Vector
  <2> QED BY <1>2, <2>1, <2>4, <2>7, <2>8 DEF ResultRight
<1>3. CASE j.asked # <<>> /\ j.asked[1].range # 0
  <2> DEFINE range == j.asked[1].range
             in(s) == InRange(s.points, Instant, range)
             series == {[labels |-> s.labels, points |-> in(s)] :
                          s \in {s \in United(j) : in(s) # <<>>}}
  <2>1. InstantResult(j) = Matrix(series)
    BY <1>3 DEF InstantResult
  <2>2. n = 1
    <3> SUFFICES ASSUME n # 1 PROVE FALSE
      OBVIOUS
    <3>1. 1 \in 1 .. n /\ 2 \in 1 .. n /\ 1 # 2
      <4> HIDE DEF n
      <4> QED BY <1>n, <1>3
    <3>2. \A i, k \in 1 .. Len(j.asked) : i # k => j.asked[i].range = 0
      BY DEF Computed
    <3> HIDE DEF n
    <3>3. j.asked[1].range = 0
      BY <3>1, <3>2 DEF n
    <3> QED BY <1>3, <3>3
  <2>3. range \in Nat \ {0}
    BY <1>3, <2>2
  <2>4. SeriesRight(j, series)
    <3>1. Len(j.asked) = 1
      BY <2>2
    <3>2. series = {[labels |-> s.labels, points |-> InRange(s.points, Instant, range)] :
                      s \in {s \in United(j) : InRange(s.points, Instant, range) # <<>>}}
      OBVIOUS
    <3>3. j.asked[1].range = range
      OBVIOUS
    <3> HIDE DEF series, range
    <3> QED BY <1>0, <2>3, <3>1, <3>2, <3>3, SeriesAreRight
  <2>5. \A s \in United(j) : in(s) \in Seq(Points(j))
    BY <1>0, <2>3, SeriesTyped
  <2> HIDE DEF in
  <2>6. series \in SUBSET [labels : L, points : Seq(Points(j))]
    BY <2>5
  <2> HIDE DEF series, L
  <2>7. Decode(Marshal(Matrix(series)), FALSE) = Matrix(series)
    BY <2>6, EngineDecoded
  <2>8. Matrix(series).type = "matrix" /\ Matrix(series).data = series
    BY DEF Matrix
  <2> QED BY <1>3, <2>1, <2>4, <2>7, <2>8 DEF ResultRight
<1> QED BY <1>1, <1>2, <1>3
-----------------------------------------------------------------------------
(* What is computed: the same question *)

\* Of two jobs the same is asked, of the same sources.
SameAsk(j, k) ==
  k.asked = j.asked /\ k.range = j.range /\ k.proxied = j.proxied /\ k.sets = j.sets

\* What is wanted, due and to be found is up to what is asked.
LEMMA SameWanted ==
  ASSUME NEW j, NEW k, SameAsk(j, k)
  PROVE  /\ Times(k) = Times(j)
         /\ \A i : Wanted(k, i) = Wanted(j, i) /\ Since(k, i) = Since(j, i)
         /\ \A H, i, ids : InTime(H, k, i, ids) = InTime(H, j, i, ids)
         /\ \A H, i : Due(H, k, i) = Due(H, j, i)
<1>1. Times(k) = Times(j)
  BY DEF SameAsk, Times
<1>2. ASSUME NEW i PROVE Wanted(k, i) = Wanted(j, i) /\ Since(k, i) = Since(j, i)
  <2>1. Wanted(k, i) = Wanted(j, i)
    BY DEF SameAsk, Wanted
  <2>2. Before(k, i) = Before(j, i)
    BY DEF SameAsk, Before
  <2> QED BY <1>1, <2>1, <2>2 DEF Since
<1>3. ASSUME NEW H, NEW i, NEW ids PROVE InTime(H, k, i, ids) = InTime(H, j, i, ids)
  BY <1>1, <1>2 DEF InTime
<1>4. ASSUME NEW H, NEW i PROVE Due(H, k, i) = Due(H, j, i)
  BY <1>2, <1>3 DEF Due, SameAsk
<1> QED BY <1>1, <1>2, <1>3, <1>4

\* So is which result is right.
LEMMA SameResult ==
  ASSUME NEW j, NEW k, SameAsk(j, k), NEW result, ResultRight(j, result)
  PROVE  ResultRight(k, result)
<1>1. k.asked = j.asked /\ k.range = j.range
  BY DEF SameAsk
<1>2. ASSUME NEW t, NEW before PROVE ToFind(k, t, before) = ToFind(j, t, before)
  BY <1>1, SameWanted DEF ToFind
<1>3. \A f : ValuesOf(k, f) = ValuesOf(j, f)
  BY <1>1 DEF ValuesOf
<1>4. ASSUME NEW t, NEW samples, SamplesRight(j, samples, t) PROVE SamplesRight(k, samples, t)
  <2> DEFINE found == ToFind(j, t, LookbackDelta)
             of(h, s, f) ==
               /\ Labels(f.e) = s.labels /\ s.point = [t |-> t, v |-> ValuesOf(h, f)]
               /\ \A f2 \in found : Labels(f2.e) = s.labels => Second(f2.e) <= Second(f.e)
  <2>1. ToFind(k, t, LookbackDelta) = found
    BY <1>2
  <2>2. \A s, f : of(j, s, f) => of(k, s, f)
    BY <1>3
  <2>3. /\ {s.labels : s \in samples} = {Labels(f.e) : f \in found}
        /\ \A s, s2 \in samples : s.labels = s2.labels => s = s2
        /\ \A s \in samples : \E f \in found : of(j, s, f)
    BY <1>4 DEF SamplesRight
  <2>4. \A s \in samples : \E f \in found : of(k, s, f)
    BY <2>2, <2>3, Zenon
  <2> HIDE DEF found
  <2> QED BY <2>1, <2>3, <2>4, Zenon DEF SamplesRight
<1>5. ASSUME NEW series, SeriesRight(j, series) PROVE SeriesRight(k, series)
  <2> DEFINE found == ToFind(j, Instant, j.asked[1].range)
             own(s) == {f \in found : Labels(f.e) = s.labels}
             all(h, s) == {[t |-> Second(f.e), v |-> ValuesOf(h, f)] : f \in own(s)}
  <2>1. ToFind(k, Instant, k.asked[1].range) = found
    BY <1>1, <1>2
  <2>2. \A s : all(k, s) = all(j, s)
    BY <1>3
  <2>3. /\ {s.labels : s \in series} = {Labels(f.e) : f \in found}
        /\ \A s \in series :
             /\ Len(s.points) = Cardinality(own(s))
             /\ ToSet(s.points) = all(j, s)
             /\ \A a, b \in DOMAIN s.points : a < b => s.points[a].t <= s.points[b].t
    BY <1>5 DEF SeriesRight
  <2>4. ASSUME NEW s \in series
        PROVE  /\ Len(s.points) = Cardinality(own(s))
               /\ ToSet(s.points) = all(k, s)
               /\ \A a, b \in DOMAIN s.points : a < b => s.points[a].t <= s.points[b].t
    BY <2>2, <2>3, Zenon
  <2> HIDE DEF found
  <2>5. SeriesRight(k, series)
    BY <2>1, <2>3, <2>4, Zenon DEF SeriesRight
  <2> QED BY <2>5
<1> QED BY <1>1, <1>4, <1>5, Zenon DEF ResultRight

\* SamplesRight, of what was found.
RightOf(j, found, samples, t) ==
  /\ {s.labels : s \in samples} = {Labels(f.e) : f \in found}
  /\ \A s, s2 \in samples : s.labels = s2.labels => s = s2
  /\ \A s \in samples : \E f \in found :
       /\ Labels(f.e) = s.labels /\ s.point = [t |-> t, v |-> ValuesOf(j, f)]
       /\ \A f2 \in found : Labels(f2.e) = s.labels => Second(f2.e) <= Second(f.e)

\* The store does not change.
LEMMA SameStore ==
  ASSUME store' = store, NEW j
  PROVE  /\ Held' = Held
         /\ \A result : ResultRight(j, result) => ResultRight(j, result)'
<1>1. Held' = Held
  BY DEF Held
<1>2. ASSUME NEW t, NEW before PROVE ToFind(j, t, before)' = ToFind(j, t, before)
  <2>1. /\ \A i : Wanted(j, i)' = Wanted(j, i)
        /\ Times(j)' = Times(j)
    BY DEF Wanted, Times
  <2> QED BY <2>1 DEF ToFind
<1>3. ASSUME NEW t, NEW samples, SamplesRight(j, samples, t) PROVE SamplesRight(j, samples, t)'
  <2> DEFINE F == ToFind(j, t, LookbackDelta)
  <2>1. F' = F
    BY <1>2
  <2> HIDE DEF F
  <2>2. SamplesRight(j, samples, t) <=> RightOf(j, F, samples, t)
    BY Zenon DEF SamplesRight, RightOf, F
  <2>3. SamplesRight(j, samples, t)' <=> RightOf(j, F, samples, t)'
    BY Zenon DEF SamplesRight, RightOf, F
  <2>4. RightOf(j, F, samples, t)' <=> RightOf(j, F, samples, t)
    BY <2>1, Zenon DEF RightOf
  <2> QED BY <1>3, <2>2, <2>3, <2>4
<1>4. ASSUME NEW series, SeriesRight(j, series) PROVE SeriesRight(j, series)'
  BY <1>2, <1>4, Zenon DEF SeriesRight
<1>5. ASSUME NEW result, ResultRight(j, result) PROVE ResultRight(j, result)'
  BY <1>3, <1>4, <1>5, Zenon DEF ResultRight
<1> QED BY <1>1, <1>5
-----------------------------------------------------------------------------
(* A query is answered right *)

\* What is asked: its selectors have sources of their own.
Questioned(j) ==
  /\ j.asked \in Seq(Selectors) /\ {j.range, j.raw, j.proxied} \subseteq BOOLEAN
  /\ j.proxied => ExtractSourceIds(j.asked) \subseteq DOMAIN Authorized
  /\ \A i, k \in DOMAIN j.asked : i # k =>
       /\ j.asked[i].range = 0
       /\ SelectorSourceIDs(j.asked[i]) \cap SelectorSourceIDs(j.asked[k]) = {}

\* What the engine computes is what was asked, of the sources that are wanted.
Meant(j) ==
  /\ Questioned(j) /\ IsSequence(j.query) /\ Len(j.query) = Len(j.asked)
  /\ \A i \in 1 .. Len(j.asked) :
       /\ SelectorSourceIDs(j.query[i]) = Wanted(j, i)
       /\ j.query[i].metric = j.asked[i].metric /\ j.query[i].range = j.asked[i].range
       /\ \A e : Matches(e, j.query[i]) <=> Matches(e, j.asked[i])
  /\ \A i, k \in 1 .. Len(j.asked) : i # k => Wanted(j, i) \cap Wanted(j, k) = {}

\* The selectors before the one that is read have the series of what is due to them,
\* and of that one there is what the sources hold that are not left to read.
Gathered(j) ==
  /\ \A i \in 1 .. Len(j.asked) :
       i < j.sel => Built(j.series[i], Due(Held, j, i), j.asked[i].metric)
  /\ j.sel <= Len(j.asked) =>
       /\ j.todo \subseteq Wanted(j, j.sel)
       /\ j.es \in Seq(Held) /\ Orderly(j.es)
       /\ ToSet(j.es) = InTime(Held, j, j.sel, Wanted(j, j.sel) \ j.todo)

JobRight(j) ==
  /\ ReadFields \subseteq DOMAIN j
  /\ j.at = "http" => Questioned(j)
  /\ j.at = "select" =>
       /\ Meant(j)
       /\ j.range => \A i \in 1 .. Len(j.asked) : j.asked[i].range = 0
       /\ j.failed \/ j.partial \/ Gathered(j)
  /\ j.at = "responded" /\ j.status = 200 =>
       j.range \in BOOLEAN /\ (j.partial \/ ResultRight(j, Decode(j.json, j.range)))
  /\ j.at = "done" /\ j.status = 200 => j.partial \/ ResultRight(j, Answer(j))

RightInv == DOMAIN job = Requests /\ \A r \in Requests : JobRight(job[r])

\* The engine's result is right, and is decoded as it was.
LEMMA ResultsAreRight ==
  ASSUME NEW j, Meant(j), IsSequence(j.series), Len(j.series) = Len(j.asked),
         j.range => \A i \in 1 .. Len(j.asked) : j.asked[i].range = 0,
         \A i \in 1 .. Len(j.asked) :
           Built(j.series[i], Due(Held, j, i), j.asked[i].metric),
         \A e \in Held : e.ts \in Nat
  PROVE  ResultRight(j, Decode(Marshal(IF j.range THEN RangeResult(j) ELSE InstantResult(j)),
                               j.range))
<1>1. /\ j.asked \in Seq(Selectors) /\ DOMAIN j.asked = 1 .. Len(j.asked) /\ Len(j.asked) \in Nat
      /\ j.range \in BOOLEAN
  BY DEF Meant, Questioned
<1>2. IsSequence(j.asked)
  BY <1>1 DEF IsSequence
<1>3. Computed(j)
  <2>1. \A i, k \in 1 .. Len(j.asked) :
          i # k => Wanted(j, i) \cap Wanted(j, k) = {} /\ j.asked[i].range = 0
    BY <1>1, Zenon DEF Meant, Questioned
  <2> QED BY <1>2, <2>1 DEF Computed
<1>4. j.query = <<>> <=> j.asked = <<>>
  <2>1. Len(j.query) = Len(j.asked) /\ IsSequence(j.query)
    BY DEF Meant
  <2>2. ASSUME NEW s, IsSequence(s) PROVE s = <<>> <=> Len(s) = 0
    <3>1. PICK S : s \in Seq(S)
      BY <2>2 DEF IsSequence
    <3> QED BY <3>1
  <2> QED BY <1>2, <2>1, <2>2
<1>5. CASE j.range = TRUE
  <2>1. ResultRight(j, Decode(Marshal(RangeResult(j)), TRUE))
    BY <1>3, <1>4, <1>5, RangeResultIsRight
  <2> QED BY <1>5, <2>1
<1>6. CASE j.range = FALSE
  <2>1. \A i \in 1 .. Len(j.asked) : j.asked[i].range \in Nat
    <3>1. ASSUME NEW S, NEW q \in Seq(S)
          PROVE  \A i \in 1 .. Len(q) : q[i] \in S
      OBVIOUS
    <3>2. \A i \in 1 .. Len(j.asked) : j.asked[i] \in Selectors
      BY <1>1, <3>1, Zenon
    <3> QED BY <3>2 DEF Selectors
  <2>2. j.asked # <<>> => j.query[1].range = j.asked[1].range
    <3>1. j.asked # <<>> => 1 \in 1 .. Len(j.asked)
      BY <1>1
    <3> QED BY <3>1 DEF Meant
  <2>3. ResultRight(j, Decode(Marshal(InstantResult(j)), FALSE))
    BY <1>3, <1>4, <1>6, <2>1, <2>2, InstantResultIsRight
  <2> QED BY <1>6, <2>3
<1> QED BY <1>1, <1>5, <1>6

\* Jobs that read the same and have gathered the same.
LEMMA SameMeant ==
  ASSUME NEW j, NEW k, SameAsk(j, k), k.raw = j.raw, k.query = j.query, Meant(j)
  PROVE  Meant(k)
<1>1. k.asked = j.asked /\ k.range = j.range /\ k.proxied = j.proxied
  BY DEF SameAsk
<1>2. Questioned(k)
  BY <1>1 DEF Questioned, Meant
<1>3. \A i : Wanted(k, i) = Wanted(j, i)
  BY SameWanted
<1> QED BY <1>1, <1>2, <1>3, Zenon DEF Meant

\* A selector is begun with nothing read, and all of its sources left.
LEMMA BegunRight ==
  ASSUME NEW j, ReadFields \subseteq DOMAIN j, j.at = "select", Meant(j),
         j.range => \A i \in 1 .. Len(j.asked) : j.asked[i].range = 0,
         NEW n \in Nat \ {0},
         j.failed \/ j.partial \/ \A i \in 1 .. Len(j.asked) :
           i < n => Built(j.series[i], Due(Held, j, i), j.asked[i].metric)
  PROVE  JobRight(Begin(j, n))
<1> DEFINE k == Begin(j, n)
<1>1. /\ ReadFields \subseteq DOMAIN k /\ k.at = "select" /\ k.sel = n
      /\ SameAsk(j, k) /\ k.raw = j.raw /\ k.query = j.query
      /\ k.series = j.series /\ k.partial = j.partial /\ (j.failed => k.failed)
      /\ n <= Len(j.query) => k.todo = SelectorSourceIDs(j.query[n]) /\ k.es = <<>>
  <2>1. Len(j.query) \in Nat
    BY DEF Meant, IsSequence
  <2>2. n <= Len(j.query) <=> ~(n > Len(j.query))
    BY <2>1
  <2> QED BY <2>2 DEF Begin, ReadFields, SameAsk
<1> HIDE DEF k
<1>2. Meant(k)
  BY <1>1, SameMeant
<1>3. k.asked = j.asked /\ k.range = j.range
  BY <1>1 DEF SameAsk
<1>4. Len(j.asked) \in Nat /\ Len(j.query) = Len(j.asked)
  BY DEF Meant, Questioned
<1>5. ASSUME \A i \in 1 .. Len(j.asked) :
               i < n => Built(j.series[i], Due(Held, j, i), j.asked[i].metric)
      PROVE  Gathered(k)
  <2>1. \A i : Due(Held, k, i) = Due(Held, j, i)
    BY <1>1, SameWanted
  <2>2. \A i \in 1 .. Len(k.asked) :
          i < k.sel => Built(k.series[i], Due(Held, k, i), k.asked[i].metric)
    BY <1>1, <1>3, <1>5, <2>1
  <2>3. ASSUME n <= Len(j.asked)
        PROVE  /\ k.todo \subseteq Wanted(k, n)
               /\ k.es \in Seq(Held) /\ Orderly(k.es)
               /\ ToSet(k.es) = InTime(Held, k, n, Wanted(k, n) \ k.todo)
    <3>1. n \in 1 .. Len(k.asked)
      BY <1>3, <1>4, <2>3
    <3>2. k.todo = Wanted(k, n) /\ k.es = <<>>
      BY <1>1, <1>2, <1>4, <2>3, <3>1 DEF Meant
    <3>3. <<>> \in Seq(Held) /\ Orderly(<<>>) /\ ToSet(<<>>) = {}
      BY DEF Orderly, ToSet
    <3>4. InTime(Held, k, n, {}) = {}
      BY DEF InTime
    <3> QED BY <3>2, <3>3, <3>4
  <2> QED BY <1>1, <1>3, <2>2, <2>3 DEF Gathered
<1>6. k.failed \/ k.partial \/ Gathered(k)
  BY <1>1, <1>5
<1>7. JobRight(k)
  BY <1>1, <1>2, <1>3, <1>6 DEF JobRight
<1> QED BY <1>7 DEF k

\* A refusal is no answer.
LEMMA RefusalRight ==
  ASSUME NEW j, ReadFields \subseteq DOMAIN j, NEW status \in {400, 404, 500}, NEW json
  PROVE  JobRight(Responded(j, status, json))
  BY DEF JobRight, Responded, ReadFields

\* The engine begins what it was meant to compute.
LEMMA ExecutedRight ==
  ASSUME NEW j, ReadFields \subseteq DOMAIN j, Meant(j)
  PROVE  JobRight(Execute(j))
<1> DEFINE k == [j EXCEPT !.at = "select"]
<1>1. /\ ReadFields \subseteq DOMAIN k /\ k.at = "select"
      /\ SameAsk(j, k) /\ k.raw = j.raw /\ k.query = j.query
  BY DEF ReadFields, SameAsk
<1> HIDE DEF k
<1>2. Meant(k)
  BY <1>1, SameMeant
<1>3. k.asked = j.asked /\ k.range = j.range
  BY <1>1 DEF SameAsk
<1>4. JobRight(Responded(j, 500, MarshalError("internal")))
  BY RefusalRight
<1>5. ASSUME Executable(j) PROVE JobRight(Begin(k, 1))
  <2>1. j.range => \A i \in 1 .. Len(j.asked) : j.asked[i].range = 0
    <3>1. DOMAIN j.query = 1 .. Len(j.asked)
      BY DEF Meant, IsSequence
    <3> QED BY <1>5, <3>1 DEF Executable, Meant
  <2>2. \A i \in 1 .. Len(k.asked) :
          i < 1 => Built(k.series[i], Due(Held, k, i), k.asked[i].metric)
    <3>1. \A i \in 1 .. Len(k.asked) : ~(i < 1)
      BY <1>2 DEF Meant, Questioned
    <3> QED BY <3>1
  <2> QED BY <1>1, <1>2, <1>3, <2>1, <2>2, BegunRight
<1> QED BY <1>4, <1>5 DEF Execute, k

\* When all sources of a selector are read, its series is that of what is due to it.
LEMMA SelectedRight ==
  ASSUME store \in Stores, StoresOrderly, SeriesToldApart,
         NEW j, ReadFields \subseteq DOMAIN j, j.at = "select", Meant(j),
         j.range => \A i \in 1 .. Len(j.asked) : j.asked[i].range = 0,
         IsSequence(j.series), j.sel \in 1 .. Len(j.asked), Len(j.series) = j.sel - 1,
         j.todo = {}, j.failed \/ j.partial \/ Gathered(j)
  PROVE  JobRight(Begin(Selected(j, j.es), j.sel + 1))
<1> DEFINE k == Selected(j, j.es)
           n == j.sel
           match == {e \in ToSet(j.es) : Matches(e, j.query[n])}
           x == BuildSeriesSet(Within(j.es, match), j.query[n])
<1>1. /\ ReadFields \subseteq DOMAIN k /\ k.at = "select" /\ k.failed = j.failed
      /\ k.partial = j.partial /\ SameAsk(j, k) /\ k.raw = j.raw /\ k.query = j.query
      /\ k.series = Append(j.series, x)
  BY DEF Selected, ReadFields, SameAsk
<1>2. /\ Len(j.asked) \in Nat /\ n \in 1 .. Len(j.asked) /\ n \in Nat
      /\ j.query[n].metric = j.asked[n].metric
      /\ \A e : Matches(e, j.query[n]) <=> Matches(e, j.asked[n])
  <2>1. Len(j.asked) \in Nat
    BY DEF Meant, Questioned
  <2>2. n \in 1 .. Len(j.asked) /\ n \in Nat
    BY <2>1
  <2> HIDE DEF n
  <2> QED BY <2>1, <2>2, Zenon DEF Meant
<1> HIDE DEF k, x
<1>3. /\ k.series[n] = x /\ \A i \in 1 .. Len(j.asked) : i < n => k.series[i] = j.series[i]
  <2>1. PICK S : j.series \in Seq(S)
    BY DEF IsSequence
  <2> DEFINE T == S \cup {x}
  <2>2. j.series \in Seq(T) /\ x \in T
    BY <2>1
  <2> HIDE DEF T, n
  <2>3. Len(j.series) = n - 1
    BY DEF n
  <2> QED BY <1>1, <1>2, <2>2, <2>3
<1>4. ASSUME Gathered(j) PROVE Built(x, Due(Held, j, n), j.asked[n].metric)
  <2>1. /\ j.es \in Seq(Held) /\ Orderly(j.es)
        /\ ToSet(j.es) = InTime(Held, j, n, Wanted(j, n))
    <3>1. n <= Len(j.asked) /\ Wanted(j, n) \ {} = Wanted(j, n)
      BY <1>2
    <3> QED BY <1>4, <3>1 DEF Gathered
  <2> DEFINE w == Within(j.es, match)
  <2>2. w \in Seq(Held) /\ ToSet(w) = {e \in ToSet(j.es) : e \in match} /\ Orderly(w)
    BY <2>1, WithinElements
  <2>3. ToSet(w) = Due(Held, j, n)
    BY <1>2, <2>1, <2>2 DEF Due
  <2>4. ToldApart(Held) /\ \A e \in Held : e.ts \in Nat
    BY HeldTold
  <2> HIDE DEF w
  <2>5. Built(BuildSeriesSet(w, j.query[n]), ToSet(w), j.query[n].metric)
    BY <2>2, <2>4, SeriesBuilt
  <2> QED BY <1>2, <2>3, <2>5 DEF w, x
<1>5. k.asked = j.asked /\ k.range = j.range /\ Meant(k)
  BY <1>1, SameMeant DEF SameAsk
<1>6. ASSUME Gathered(j), NEW i \in 1 .. Len(k.asked), i < n + 1
      PROVE  Built(k.series[i], Due(Held, k, i), k.asked[i].metric)
  <2>1. Due(Held, k, i) = Due(Held, j, i)
    BY <1>1, SameWanted
  <2>2. CASE i = n
    BY <1>3, <1>4, <1>5, <1>6, <2>1, <2>2
  <2>3. CASE i # n
    <3>1. i < n /\ i \in 1 .. Len(j.asked)
      BY <1>2, <1>5, <1>6, <2>3
    <3>2. Built(j.series[i], Due(Held, j, i), j.asked[i].metric)
      BY <1>6, <3>1 DEF Gathered
    <3> QED BY <1>3, <1>5, <2>1, <3>1, <3>2
  <2> QED BY <2>2, <2>3
<1> DEFINE m == n + 1
<1>7. m \in Nat \ {0}
  BY <1>2
<1>8. k.failed \/ k.partial \/ \A i \in 1 .. Len(k.asked) :
        i < m => Built(k.series[i], Due(Held, k, i), k.asked[i].metric)
  BY <1>1, <1>6
<1> HIDE DEF n, m
<1>9. JobRight(Begin(k, m))
  BY <1>1, <1>5, <1>7, <1>8, BegunRight
<1> QED BY <1>9 DEF k, n, m

\* What is read of a source is added to what was read of others.
LEMMA AddedRight ==
  ASSUME store \in Stores, StoresOrderly,
         NEW j, Meant(j), j.sel \in 1 .. Len(j.asked), Gathered(j), NEW s \in j.todo,
         NEW read, read = ReadRange(Stored(s), From(j), Last(Times(j))),
         NEW k, SameAsk(j, k), k.query = j.query, k.series = j.series, k.sel = j.sel,
         k.todo = j.todo \ {s}, k.es = j.es \o read
  PROVE  Gathered(k)
<1> DEFINE n == j.sel
           W == Wanted(j, n)
<1>1. /\ Len(j.asked) \in Nat /\ n \in 1 .. Len(j.asked) /\ n <= Len(j.asked)
      /\ j.query[n].range = j.asked[n].range
  BY DEF Meant, Questioned
<1>2. From(j) = Since(j, n)
  BY <1>1 DEF From, Since, Before
<1>3. /\ read \in Seq(Held) /\ Orderly(read)
      /\ ToSet(read) = {e \in Held : e.source = s /\ Since(j, n) - interval <= e.ts
                                     /\ e.ts < Last(Times(j))}
  BY <1>2, ReadIs
<1>4. /\ j.todo \subseteq W /\ j.es \in Seq(Held) /\ Orderly(j.es)
      /\ ToSet(j.es) = InTime(Held, j, n, W \ j.todo)
  BY <1>1 DEF Gathered
<1> HIDE DEF W, n
<1>5. \A e \in ToSet(j.es), f \in ToSet(read) : e.source # f.source
  BY <1>3, <1>4 DEF InTime
<1>6. /\ k.es \in Seq(Held) /\ Orderly(k.es)
      /\ ToSet(k.es) = ToSet(j.es) \cup ToSet(read)
  <2> DEFINE es == j.es
  <2>1. es \in Seq(Held) /\ Orderly(es) /\ \A e \in ToSet(es), f \in ToSet(read) : e.source # f.source
    BY <1>4, <1>5
  <2>2. k.es = es \o read
    OBVIOUS
  <2> HIDE DEF es
  <2>3. /\ es \o read \in Seq(Held) /\ Orderly(es \o read)
        /\ ToSet(es \o read) = ToSet(es) \cup ToSet(read)
    BY <1>3, <2>1, ReadAdded
  <2> QED BY <2>2, <2>3 DEF es
<1>7. ToSet(k.es) = InTime(Held, j, n, W \ k.todo)
  <2>1. W \ k.todo = (W \ j.todo) \cup {s}
    BY <1>4
  <2> QED BY <1>3, <1>4, <1>6, <2>1 DEF InTime
<1>8. /\ k.asked = j.asked /\ \A i : Wanted(k, i) = Wanted(j, i)
      /\ \A H, i, ids : InTime(H, k, i, ids) = InTime(H, j, i, ids)
      /\ \A H, i : Due(H, k, i) = Due(H, j, i)
  BY SameWanted DEF SameAsk
<1>9. \A i \in 1 .. Len(k.asked) :
        i < k.sel => Built(k.series[i], Due(Held, k, i), k.asked[i].metric)
  BY <1>8 DEF Gathered
<1>10. k.todo \subseteq Wanted(k, k.sel)
  BY <1>4, <1>8 DEF W, n
<1>11. ToSet(k.es) = InTime(Held, k, k.sel, Wanted(k, k.sel) \ k.todo)
  BY <1>7, <1>8 DEF W, n
<1> QED BY <1>6, <1>9, <1>10, <1>11 DEF Gathered

\* What is right stays so, as the store does not change.
LEMMA RightKept ==
  ASSUME store' = store, NEW k, JobRight(k)
  PROVE  JobRight(k)'
<1>1. /\ Held' = Held
      /\ \A result : ResultRight(k, result) => ResultRight(k, result)'
  BY SameStore
<1>2. Meant(k) => Meant(k)'
  BY DEF Meant, Questioned, Wanted
<1>3. Questioned(k) => Questioned(k)'
  BY DEF Questioned
<1>4. Gathered(k) => Gathered(k)'
  <2>1. \A i : Due(Held, k, i)' = Due(Held, k, i)
    BY <1>1 DEF Due, InTime, Since, Before, Times, Wanted
  <2>2. \A i, ids : InTime(Held, k, i, ids)' = InTime(Held, k, i, ids)
    BY <1>1 DEF InTime, Since, Before, Times
  <2>3. \A i : Wanted(k, i)' = Wanted(k, i)
    BY DEF Wanted
  <2> QED BY <1>1, <2>1, <2>2, <2>3 DEF Gathered
<1> QED BY <1>1, <1>2, <1>3, <1>4 DEF JobRight

\* One request changes at a time.
LEMMA RightSet ==
  ASSUME RightInv, store' = store, NEW r \in Requests, NEW k, JobRight(k),
         job' = [job EXCEPT ![r] = k]
  PROVE  RightInv'
<1>1. DOMAIN job' = Requests /\ \A s \in Requests : job'[s] = IF s = r THEN k ELSE job[s]
  BY DEF RightInv
<1>2. \A s \in Requests : JobRight(job'[s])
  BY <1>1 DEF RightInv
<1>3. ASSUME NEW h, JobRight(h) PROVE JobRight(h)'
  BY <1>3, RightKept
<1>4. \A s \in Requests : JobRight(job[s])'
  BY <1>2, <1>3
<1> QED BY <1>1, <1>4 DEF RightInv

\* Nothing was computed of what is not asked yet.
LEMMA IssueRight ==
  ASSUME SelectorsApart, RightInv, NEW r \in Requests, Issue(r)
  PROVE  RightInv'
<1>1. PICK ask \in Asks[r] :
        job' = [job EXCEPT ![r] =
          [NoJob EXCEPT !.at = "http", !.range = ask.range, !.raw = ask.raw,
                        !.proxied = ask.proxied, !.asked = ask.query,
                        !.query = ask.query]]
  BY DEF Issue
<1> DEFINE k == [NoJob EXCEPT !.at = "http", !.range = ask.range, !.raw = ask.raw,
                              !.proxied = ask.proxied, !.asked = ask.query,
                              !.query = ask.query]
<1>2. /\ ReadFields \subseteq DOMAIN k /\ k.at = "http" /\ k.asked = ask.query
      /\ k.range = ask.range /\ k.raw = ask.raw /\ k.proxied = ask.proxied
  BY DEF NoJob, ReadFields
<1> HIDE DEF k
<1>3. /\ ask.query \in Seq(Selectors) /\ {ask.range, ask.raw, ask.proxied} \subseteq BOOLEAN
      /\ ask.proxied => ExtractSourceIds(ask.query) \subseteq DOMAIN Authorized
  BY QueryAssumption
<1>4. \A i, n \in DOMAIN ask.query : i # n =>
        /\ ask.query[i].range = 0
        /\ SelectorSourceIDs(ask.query[i]) \cap SelectorSourceIDs(ask.query[n]) = {}
  BY DEF SelectorsApart
<1>5. Questioned(k)
  BY <1>2, <1>3, <1>4 DEF Questioned
<1>6. JobRight(k)
  BY <1>2, <1>5 DEF JobRight
<1>7. job' = [job EXCEPT ![r] = k] /\ store' = store
  BY <1>1 DEF k, Issue
<1> QED BY <1>6, <1>7, RightSet

\* What replaces the sources of a query leaves the rest of its selectors.
LEMMA ReplacedMatches ==
  ASSUME NEW query, NEW sets, NEW i \in DOMAIN query, query[i] \in Selectors
  PROVE  LET q == ReplaceSourceIdSets(query, sets)[i] IN
         /\ q.metric = query[i].metric /\ q.range = query[i].range
         /\ \A e : Matches(e, q) <=> Matches(e, query[i])
<1> DEFINE sel == query[i]
           q == ReplaceSourceIdSets(query, sets)[i]
<1>1. q = [sel EXCEPT !.matchers = {ReplaceIn(m, sets) : m \in @}]
  BY DEF ReplaceSourceIdSets
<1>2. /\ DOMAIN sel = {"metric", "range", "matchers"} /\ sel.matchers \subseteq Matchers
  BY DEF Selectors
<1>3. /\ q.metric = sel.metric /\ q.range = sel.range
      /\ q.matchers = {ReplaceIn(m, sets) : m \in sel.matchers}
  BY <1>1, <1>2
<1>4. ASSUME NEW m \in sel.matchers
      PROVE  /\ m.name # "source_id" => ReplaceIn(m, sets) = m
             /\ m.name = "source_id" => ReplaceIn(m, sets).name = "source_id"
  <2>1. m \in Matchers
    BY <1>2
  <2>2. DOMAIN m = {"name", "type", "value"}
    BY <2>1, MatcherFields
  <2>3. Replace(m, sets).name = m.name
    BY <2>2 DEF Replace
  <2> QED BY <2>3 DEF ReplaceIn
<1> HIDE DEF q, sel
<1>5. ASSUME NEW e PROVE HasLabels(e, q) <=> HasLabels(e, sel)
  BY <1>3, <1>4 DEF HasLabels
<1>6. ASSUME NEW e PROVE Matches(e, q) <=> Matches(e, sel)
  BY <1>3, <1>5 DEF Matches
<1> QED BY <1>3, <1>6 DEF q, sel

\* The proxy's lists do not mix up what selectors that are apart ask for.
LEMMA ListedApart ==
  ASSUME SelectorsApart, NEW j, Questioned(j), j.proxied, Rewritten(j),
         NEW i \in DOMAIN j.asked, NEW k \in DOMAIN j.asked, i # k
  PROVE  Wanted(j, i) \cap Wanted(j, k) = {}
<1>1. SelectorSourceIDs(j.asked[i]) \cap SelectorSourceIDs(j.asked[k]) = {}
  BY DEF Questioned
<1>2. \A n \in DOMAIN j.asked : SelectorSourceIDs(j.asked[n]) \subseteq ExtractSourceIds(j.asked)
  BY DEF ExtractSourceIds
<1>3. ASSUME NEW id \in SelectorSourceIDs(j.asked[i]), NEW id2 \in SelectorSourceIDs(j.asked[k])
      PROVE  Range(j.sets[id]) \cap Range(j.sets[id2]) = {}
  <2>1. id # id2 /\ id \in ExtractSourceIds(j.asked) /\ id2 \in ExtractSourceIds(j.asked)
    BY <1>1, <1>2
  <2>2. /\ id \in DOMAIN Authorized /\ id2 \in DOMAIN Authorized
        /\ j.sets[id] \in Authorized[id] /\ j.sets[id2] \in Authorized[id2]
    BY <2>1 DEF Questioned, Rewritten
  <2> QED BY <2>1, <2>2 DEF SelectorsApart
<1>4. \A s : ToSet(s) = Range(s)
  BY DEF ToSet, Range
<1>5. \A n : Wanted(j, n) = UNION {Range(j.sets[id]) : id \in SelectorSourceIDs(j.asked[n])}
  BY <1>4 DEF Wanted
<1> QED BY <1>3, <1>5

\* The query with its sources replaced means what was asked.
LEMMA RewrittenMeant ==
  ASSUME SelectorsApart, NEW j, Questioned(j), j.proxied, Rewritten(j)
  PROVE  Meant(j)
<1> DEFINE n == Len(j.asked)
<1>1. n \in Nat /\ DOMAIN j.asked = 1 .. n /\ j.asked \in Seq(Selectors)
  BY DEF Rewritten
<1>2. \A i \in 1 .. n : j.asked[i] \in Selectors
  <2>1. ASSUME NEW S, NEW q \in Seq(S)
        PROVE  \A i \in 1 .. Len(q) : q[i] \in S
    OBVIOUS
  <2> QED BY <1>1, <2>1, Zenon
<1>3. IsSequence(j.query) /\ Len(j.query) = n
  <2>1. j.query = [i \in 1 .. n |-> j.query[i]]
    BY <1>1 DEF Rewritten, ReplaceSourceIdSets
  <2> DEFINE S == {j.query[i] : i \in 1 .. n}
             q == j.query
  <2>2. q = [i \in 1 .. n |-> q[i]] /\ \A i \in 1 .. n : q[i] \in S
    BY <2>1
  <2> HIDE DEF S, n, q
  <2>3. q \in Seq(S) /\ Len(q) = n
    BY <1>1, <2>2
  <2> QED BY <2>3 DEF IsSequence, q
<1>4. ASSUME NEW i \in 1 .. n
      PROVE  /\ SelectorSourceIDs(j.query[i]) = Wanted(j, i)
             /\ j.query[i].metric = j.asked[i].metric /\ j.query[i].range = j.asked[i].range
             /\ \A e : Matches(e, j.query[i]) <=> Matches(e, j.asked[i])
  <2>1. /\ j.query = ReplaceSourceIdSets(j.asked, j.sets) /\ Lists(j.sets)
        /\ DOMAIN j.sets = ExtractSourceIds(j.asked)
    BY DEF Rewritten
  <2>2. SelectorSourceIDs(j.query[i]) =
          UNION {Range(j.sets[id]) : id \in SelectorSourceIDs(j.asked[i])}
    <3> DEFINE query == j.asked
               sets == j.sets
    <3>1. /\ query \in Seq(Selectors) /\ Lists(sets) /\ i \in 1 .. Len(query)
          /\ DOMAIN sets = ExtractSourceIds(query)
      BY <1>1, <2>1
    <3> HIDE DEF query, sets
    <3>2. SelectorSourceIDs(ReplaceSourceIdSets(query, sets)[i]) =
            UNION {Range(sets[id]) : id \in SelectorSourceIDs(query[i])}
      BY <3>1, SelectorIDs
    <3> QED BY <2>1, <3>2 DEF query, sets
  <2>3. \A s : ToSet(s) = Range(s)
    BY DEF ToSet, Range
  <2>4. Wanted(j, i) = UNION {Range(j.sets[id]) : id \in SelectorSourceIDs(j.asked[i])}
    BY <2>3 DEF Wanted
  <2> QED BY <1>1, <1>2, <2>1, <2>2, <2>4, ReplacedMatches
<1>5. \A i, k \in 1 .. n : i # k => Wanted(j, i) \cap Wanted(j, k) = {}
  BY <1>1, ListedApart
<1> HIDE DEF n
<1> QED BY <1>3, <1>4, <1>5, Zenon DEF Meant, n

\* So does the query that is not proxied.
LEMMA UnchangedMeant ==
  ASSUME NEW j, Questioned(j), ~j.proxied, j.query = j.asked
  PROVE  Meant(j)
<1>1. /\ j.asked \in Seq(Selectors) /\ DOMAIN j.asked = 1 .. Len(j.asked)
      /\ IsSequence(j.query) /\ Len(j.query) = Len(j.asked)
  BY DEF Questioned, IsSequence
<1>2. \A i : Wanted(j, i) = SelectorSourceIDs(j.asked[i])
  BY DEF Wanted
<1>3. \A i, k \in 1 .. Len(j.asked) : i # k => Wanted(j, i) \cap Wanted(j, k) = {}
  <2>1. \A i, k \in DOMAIN j.asked : i # k =>
          SelectorSourceIDs(j.asked[i]) \cap SelectorSourceIDs(j.asked[k]) = {}
    BY Zenon DEF Questioned
  <2> QED BY <1>1, <1>2, <2>1, Zenon
<1>4. \A i \in 1 .. Len(j.asked) :
        /\ SelectorSourceIDs(j.query[i]) = Wanted(j, i)
        /\ j.query[i].metric = j.asked[i].metric /\ j.query[i].range = j.asked[i].range
        /\ \A e : Matches(e, j.query[i]) <=> Matches(e, j.asked[i])
  BY <1>2
<1> QED BY <1>1, <1>3, <1>4, Zenon DEF Meant

\* The proxy refuses, or passes on what means the same.
LEMMA ProxyRight ==
  ASSUME SelectorsApart, RightInv, ReadsInv, NEW r \in Requests, Proxy(r)
  PROVE  RightInv'
<1> DEFINE j == job[r]
           refusal(status) == Responded(j, status, MarshalError("bad_data"))
<1>1. /\ ReadFields \subseteq DOMAIN j /\ j.asked \in Seq(Selectors) /\ j.query = j.asked
      /\ Questioned(j) /\ j.proxied /\ store' = store
  BY DEF ReadsInv, Reads, RightInv, JobRight, Proxy
<1>2. \/ \E status \in {400, 404} : job' = [job EXCEPT ![r] = refusal(status)]
      \/ \E sets \in [ExtractSourceIds(j.query) ->
                        UNION {Authorized[i] : i \in DOMAIN Authorized}] :
           /\ \A i \in DOMAIN sets : sets[i] \in Authorized[i]
           /\ ~ \E i \in DOMAIN sets : sets[i] = <<>>
           /\ job' = [job EXCEPT ![r] =
                Execute([j EXCEPT !.sets = sets, !.query = ReplaceSourceIdSets(@, sets)])]
  BY ZenonT(40) DEF Proxy
<1>3. ASSUME NEW sets \in [ExtractSourceIds(j.query) ->
                             UNION {Authorized[i] : i \in DOMAIN Authorized}],
             \A i \in DOMAIN sets : sets[i] \in Authorized[i],
             ~ \E i \in DOMAIN sets : sets[i] = <<>>
      PROVE  JobRight(Execute([j EXCEPT !.sets = sets, !.query = ReplaceSourceIdSets(@, sets)]))
  <2> DEFINE k == [j EXCEPT !.sets = sets, !.query = ReplaceSourceIdSets(@, sets)]
  <2>1. /\ ReadFields \subseteq DOMAIN k /\ k.asked = j.asked /\ k.sets = sets
        /\ k.query = ReplaceSourceIdSets(j.asked, sets)
        /\ k.range = j.range /\ k.raw = j.raw /\ k.proxied = j.proxied
    BY <1>1 DEF ReadFields
  <2>2. Lists(sets) /\ DOMAIN sets = ExtractSourceIds(j.asked)
    <3>1. \A id \in DOMAIN sets : sets[id] \in Seq(STRING) \ {<<>>}
      BY <1>1, <1>3, QueryAssumption
    <3>2. \A id \in DOMAIN sets : sets[id] \in Seq(SourceNames) \ {<<>>}
      BY <3>1, SeqOfStrings, Zenon
    <3>3. Lists(sets)
      BY <3>2, Zenon DEF Lists
    <3>4. DOMAIN sets = ExtractSourceIds(j.query)
      BY <1>3
    <3> QED BY <1>1, <3>3, <3>4, Zenon
  <2> HIDE DEF k
  <2>3. Rewritten(k)
    BY <1>1, <1>3, <2>1, <2>2 DEF Rewritten
  <2>4. Questioned(k)
    BY <1>1, <2>1 DEF Questioned
  <2>5. Meant(k)
    BY <1>1, <2>1, <2>3, <2>4, RewrittenMeant
  <2>6. JobRight(Execute(k))
    BY <2>1, <2>5, ExecutedRight
  <2> QED BY <2>6 DEF k
<1>4. \A status \in {400, 404} : JobRight(refusal(status))
  BY <1>1, RefusalRight
<1> HIDE DEF refusal
<1>5. \E k : JobRight(k) /\ job' = [job EXCEPT ![r] = k]
  BY <1>2, <1>3, <1>4, ZenonT(40)
<1> QED BY <1>1, <1>5, RightSet

\* The gateway passes on what was asked.
LEMMA GatewayRight ==
  ASSUME RightInv, ReadsInv, NEW r \in Requests, Gateway(r)
  PROVE  RightInv'
<1> DEFINE j == job[r]
<1>1. /\ ReadFields \subseteq DOMAIN j /\ j.query = j.asked
      /\ Questioned(j) /\ ~j.proxied /\ store' = store
      /\ job' = [job EXCEPT ![r] = Execute(j)]
  BY DEF ReadsInv, Reads, RightInv, JobRight, Gateway
<1>2. JobRight(Execute(j))
  BY <1>1, UnchangedMeant, ExecutedRight
<1> QED BY <1>1, <1>2, RightSet

\* A read gathers what it reads, or less; with the last one of a selector its series
\* is built.
LEMMA ReadRight ==
  ASSUME store \in Stores, StoresOrderly, SeriesToldApart,
         RightInv, JobsTyped, NEW r \in Requests, ReadSource(r)
  PROVE  RightInv'
<1> DEFINE j == job[r]
           added(s, read) == [j EXCEPT !.todo = @ \ {s}, !.es = @ \o read]
           next(k) == IF k.todo = {} THEN Begin(Selected(k, k.es), k.sel + 1) ELSE k
           short(k) == [k EXCEPT !.partial = TRUE]
           Still(k) == /\ ReadFields \subseteq DOMAIN k /\ k.at = "select"
                       /\ SameAsk(j, k) /\ k.raw = j.raw
                       /\ k.query = j.query /\ k.sel = j.sel /\ k.series = j.series
                       /\ k.failed \/ k.partial \/ Gathered(k)
<1>1. /\ JobRight(j) /\ ReadFields \subseteq DOMAIN j /\ j.at = "select" /\ j.todo # {} /\ ~j.failed
      /\ Meant(j) /\ (j.range => \A i \in 1 .. Len(j.asked) : j.asked[i].range = 0)
      /\ j.partial \/ Gathered(j)
      /\ store' = store /\ DOMAIN job = Requests
  BY DEF RightInv, JobRight, ReadSource
<1>2. \/ \E s \in j.todo : job' = [job EXCEPT ![r] =
           next(added(s, ReadRange(Stored(s), From(j), Last(Times(j)))))]
      \/ \E s, es : job' = [job EXCEPT ![r] = next(short(added(s, es)))]
      \/ job' = [job EXCEPT ![r].failed = TRUE]
  BY DEF ReadSource
<1>3. /\ IsSequence(j.series) /\ Len(j.asked) \in Nat /\ Len(j.query) = Len(j.asked)
      /\ j.sel \in 1 .. Len(j.asked) /\ Len(j.series) = j.sel - 1
  <2>1. Len(j.asked) \in Nat /\ Len(j.query) = Len(j.asked)
    BY <1>1 DEF Meant, Questioned
  <2>2. JobTyped(j)
    BY DEF JobsTyped
  <2> QED BY <1>1, <2>1, <2>2 DEF JobTyped
<1>4. ASSUME NEW k, Still(k)
      PROVE  /\ Meant(k) /\ k.asked = j.asked
             /\ k.range => \A i \in 1 .. Len(k.asked) : k.asked[i].range = 0
  <2>1. Meant(k)
    BY <1>1, <1>4, SameMeant
  <2> QED BY <1>1, <1>4, <2>1 DEF SameAsk
<1>5. ASSUME NEW k, Still(k)
      PROVE  JobRight(next(k))
  <2>1. ASSUME k.todo = {} PROVE JobRight(Begin(Selected(k, k.es), k.sel + 1))
    BY <1>3, <1>4, <1>5, <2>1, SelectedRight
  <2>2. JobRight(k)
    BY <1>4, <1>5 DEF JobRight
  <2> QED BY <2>1, <2>2
<1>6. ASSUME NEW s \in j.todo
      PROVE  Still(added(s, ReadRange(Stored(s), From(j), Last(Times(j)))))
  <2> DEFINE read == ReadRange(Stored(s), From(j), Last(Times(j)))
             k == added(s, read)
  <2>1. /\ ReadFields \subseteq DOMAIN k /\ k.at = "select" /\ SameAsk(j, k) /\ k.raw = j.raw
        /\ k.query = j.query /\ k.sel = j.sel /\ k.series = j.series
        /\ k.partial = j.partial
        /\ k.todo = j.todo \ {s} /\ k.es = j.es \o read
    BY <1>1 DEF ReadFields, SameAsk
  <2> HIDE DEF k
  <2>2. Gathered(j) => Gathered(k)
    BY <1>1, <1>3, <2>1, AddedRight
  <2>3. Still(k)
    BY <1>1, <2>1, <2>2
  <2> QED BY <2>3 DEF k
<1>7. ASSUME NEW s, NEW es
      PROVE  Still(short(added(s, es)))
  BY <1>1 DEF ReadFields, SameAsk
<1>8. ASSUME job' = [job EXCEPT ![r].failed = TRUE]
      PROVE  \E k : JobRight(k) /\ job' = [job EXCEPT ![r] = k]
  <2> DEFINE k == [j EXCEPT !.failed = TRUE]
  <2>1. ReadFields \subseteq DOMAIN k /\ k.at = "select" /\ SameAsk(j, k) /\ k.raw = j.raw
        /\ k.query = j.query /\ k.sel = j.sel /\ k.series = j.series /\ k.failed
    BY <1>1 DEF ReadFields, SameAsk
  <2>2. job' = [job EXCEPT ![r] = k]
    BY <1>1, <1>8
  <2> HIDE DEF k
  <2>3. Still(k)
    BY <2>1
  <2>4. JobRight(k)
    BY <1>4, <2>1, <2>3 DEF JobRight
  <2> QED BY <2>2, <2>4
<1> HIDE DEF added, short, next, Still
<1>9. \E k : JobRight(k) /\ job' = [job EXCEPT ![r] = k]
  BY <1>2, <1>5, <1>6, <1>7, <1>8
<1> QED BY <1>1, <1>9, RightSet

\* The engine's answer is right, if every read was.
LEMMA RespondRight ==
  ASSUME store \in Stores, StoresOrderly, SeriesToldApart,
         RightInv, JobsTyped, NEW r \in Requests, Respond(r)
  PROVE  RightInv'
<1> DEFINE j == job[r]
           json == Marshal(IF j.range THEN RangeResult(j) ELSE InstantResult(j))
           k == Responded(j, 200, json)
<1>1. /\ ReadFields \subseteq DOMAIN j /\ j.at = "select" /\ Meant(j)
      /\ j.range => \A i \in 1 .. Len(j.asked) : j.asked[i].range = 0
      /\ j.failed \/ j.partial \/ Gathered(j)
      /\ j.failed \/ j.sel > Len(j.query)
      /\ store' = store
      /\ job' = [job EXCEPT ![r] =
           IF j.failed THEN Responded(j, 500, MarshalError("internal")) ELSE k]
  BY DEF RightInv, JobRight, Respond
<1>2. /\ ReadFields \subseteq DOMAIN k /\ k.at = "responded" /\ SameAsk(j, k)
      /\ k.json = json /\ k.partial = j.partial
  BY <1>1 DEF Responded, ReadFields, SameAsk
<1> HIDE DEF k, json
<1>3. k.range = j.range /\ j.range \in BOOLEAN
  BY <1>1, <1>2 DEF SameAsk, Meant, Questioned
<1>4. ASSUME ~j.failed, Gathered(j) PROVE ResultRight(k, Decode(k.json, k.range))
  <2>1. /\ Len(j.query) = Len(j.asked) /\ Len(j.asked) \in Nat
    BY <1>1 DEF Meant, Questioned
  <2>2. IsSequence(j.series) /\ Len(j.series) = j.sel - 1 /\ j.sel \in 1 .. Len(j.asked) + 1
    BY <1>1, <2>1 DEF JobsTyped, JobTyped
  <2>3. j.sel = Len(j.asked) + 1 /\ Len(j.series) = Len(j.asked)
    BY <1>1, <1>4, <2>1, <2>2
  <2>4. \A i \in 1 .. Len(j.asked) : Built(j.series[i], Due(Held, j, i), j.asked[i].metric)
    BY <1>4, <2>1, <2>3 DEF Gathered
  <2>5. ResultRight(j, Decode(json, j.range))
    BY <1>1, <2>2, <2>3, <2>4, HeldTold, ResultsAreRight DEF json
  <2> QED BY <1>2, <1>3, <2>5, SameResult
<1>5. ASSUME ~j.failed PROVE JobRight(k)
  BY <1>1, <1>2, <1>3, <1>4, <1>5 DEF JobRight
<1>6. JobRight(Responded(j, 500, MarshalError("internal")))
  BY <1>1, RefusalRight
<1>7. CASE j.failed
  <2> DEFINE h == Responded(j, 500, MarshalError("internal"))
  <2>1. job' = [job EXCEPT ![r] = h]
    BY <1>1, <1>7
  <2>2. JobRight(h)
    BY <1>6
  <2> HIDE DEF h
  <2> QED BY <1>1, <2>1, <2>2, RightSet
<1>8. CASE ~j.failed
  <2>1. job' = [job EXCEPT ![r] = k]
    BY <1>1, <1>8
  <2> QED BY <1>1, <1>5, <1>8, <2>1, RightSet
<1> QED BY <1>7, <1>8

\* The client hands on the answer that it got, or decodes it.
LEMMA ReturnRight ==
  ASSUME RightInv, NEW r \in Requests, Return(r)
  PROVE  RightInv'
<1> DEFINE j == job[r]
           json == IF j.raw THEN Raw(j.status, j.json) ELSE Decoded(j.status, j.json, j.range)
           k == [j EXCEPT !.at = "done", !.json = json]
<1>1. /\ JobRight(j) /\ ReadFields \subseteq DOMAIN j /\ j.at = "responded"
      /\ store' = store /\ DOMAIN job = Requests
      /\ job' = [job EXCEPT ![r] = k]
  BY DEF RightInv, JobRight, Return
<1>2. /\ ReadFields \subseteq DOMAIN k /\ k.at = "done" /\ SameAsk(j, k) /\ k.raw = j.raw
      /\ k.json = json /\ k.partial = j.partial /\ k.status = j.status
  BY <1>1 DEF ReadFields, SameAsk
<1> HIDE DEF k, json
<1>3. ASSUME j.status = 200 PROVE Answer(k) = Decode(j.json, j.range)
  <2>1. k.range = j.range
    BY <1>2 DEF SameAsk
  <2>2. json = IF j.raw THEN j.json ELSE Decode(j.json, j.range)
    BY <1>3 DEF json, Raw, Decoded
  <2> QED BY <1>2, <2>1, <2>2 DEF Answer
<1>4. ASSUME j.status = 200 PROVE k.partial \/ ResultRight(k, Answer(k))
  <2>1. j.partial \/ ResultRight(j, Decode(j.json, j.range))
    BY <1>1, <1>4 DEF JobRight
  <2> QED BY <1>2, <1>3, <1>4, <2>1, SameResult
<1>5. JobRight(k)
  BY <1>2, <1>4 DEF JobRight
<1> QED BY <1>1, <1>5, RightSet

\* Every step keeps what is computed right.
LEMMA RightNext ==
  ASSUME StoresOrderly, SeriesToldApart, SelectorsApart,
         RightInv, ReadsInv, JobsTyped, CountsTyped, [QueryNext]_vars
  PROVE  RightInv'
<1>0. store \in Stores
  BY DEF CountsTyped
<1>u. ASSUME UNCHANGED <<job, store>> PROVE RightInv'
  <2>1. \A s \in Requests : JobRight(job'[s]) /\ DOMAIN job' = Requests
    BY <1>u DEF RightInv
  <2>2. ASSUME NEW h, JobRight(h) PROVE JobRight(h)'
    BY <1>u, <2>2, RightKept
  <2>3. \A s \in Requests : JobRight(job[s])'
    BY <2>1, <2>2
  <2> QED BY <1>u, <2>3 DEF RightInv
<1>n. ASSUME NEW r \in Requests, store' = store, job' = [job EXCEPT ![r] = NoJob] PROVE RightInv'
  <2>1. JobRight(NoJob)
    BY DEF NoJob, JobRight, ReadFields
  <2> QED BY <1>n, <2>1, RightSet
<1>1. ASSUME NEW r \in Requests, Issue(r) \/ Proxy(r) \/ Gateway(r) PROVE RightInv'
  BY <1>1, IssueRight, ProxyRight, GatewayRight
<1>2. ASSUME NEW r \in Requests, ReadSource(r) \/ Respond(r) \/ Return(r) PROVE RightInv'
  BY <1>0, <1>2, ReadRight, RespondRight, ReturnRight
<1>3. ASSUME NEW r \in Requests, Authenticate(r) PROVE RightInv'
  BY <1>3, <1>u DEF Authenticate
<1>4. ASSUME NEW r \in Requests, GiveUp(r) \/ Finish(r) PROVE RightInv'
  BY <1>4, <1>n DEF GiveUp, Finish
<1>5. CASE Revoke /\ UNCHANGED <<store, job, faults, refused>>
  BY <1>5, <1>u
<1>6. CASE UNCHANGED vars
  BY <1>6, <1>u DEF vars
<1> QED BY <1>1, <1>2, <1>3, <1>4, <1>5, <1>6 DEF QueryNext

\* A query that is answered is answered right, whatever is stored and asked: of the
\* sources that the proxy allowed, or that were asked for, the samples and series are
\* those of exactly the matching envelopes of the time, unless a read returned less
\* than there was (promql.go, Select, InstantQuery and RangeQuery;
\* cf_auth_middleware.go, Handler; marshaler.go).
THEOREM AnswersAreRight ==
  ASSUME StoresOrderly, SeriesToldApart, SelectorsApart
  PROVE  QuerySpec => []AnswersRight
<1> DEFINE I == RightInv /\ ReadsInv /\ JobsTyped /\ CountsTyped
<1>1. QueryInit => I
  <2> SUFFICES ASSUME QueryInit PROVE I
    OBVIOUS
  <2>1. JobTyped(NoJob) /\ JobRight(NoJob) /\ Reads(NoJob)
    BY EmptyIsSequence DEF NoJob, JobTyped, JobRight, Reads, ReadFields
  <2>2. JobsTyped /\ RightInv /\ ReadsInv
    BY <2>1 DEF QueryInit, JobsTyped, RightInv, ReadsInv
  <2>3. CountsTyped
    BY QueryAssumption DEF QueryInit, CountsTyped
  <2> QED BY <2>2, <2>3
<1>2. I /\ [QueryNext]_vars => I'
  BY RightNext, ReadsNext, JobsTypedNext, CountsTypedNext
<1>3. I /\ FailuresTold /\ OnlyAllowedRead => AnswersRight
  BY DEF AnswersRight, RightInv, JobRight
<1> QED BY <1>1, <1>2, <1>3, FailuresAreTold, OnlyAllowedIsRead, PTL DEF QuerySpec
=============================================================================
