------------------------------- MODULE Client -------------------------------
(***************************************************************************)
(* The Oauth2HTTPClient (src/pkg/client/oauth2_http_client.go) under the   *)
(* requests of one Client: they share a token, which is fetched under a    *)
(* mutex and thrown away without it.                                       *)
(***************************************************************************)
EXTENDS Integers, FiniteSets

CONSTANTS
  Requests,   \* requests that are made at the same time
  MaxFetches  \* bound: tokens the Oauth2 server hands out

Nobody == "nobody"

ASSUME ClientAssumption == MaxFetches \in Nat \ {0} /\ Nobody \notin Requests

NoToken == 0

VARIABLES
  token,    \* c.token: the number of the token, or NoToken
  mu,       \* who holds c.mu
  fetched,  \* tokens handed out so far
  revoked,  \* the tokens up to this one are not good any more
  http      \* request -> where Do is, and with which token

clientVars == <<token, mu, fetched, revoked, http>>

NoRequest == [at |-> "idle", with |-> NoToken]

ClientTypeOK ==
  /\ token \in 0 .. MaxFetches /\ fetched \in 0 .. MaxFetches
  /\ mu \in Requests \cup {Nobody}
  /\ revoked \in 0 .. fetched
  /\ http \in [Requests -> [at : {"idle", "token", "fetch", "sent", "failed"},
                            with : 0 .. MaxFetches]]

ClientInit ==
  /\ token = NoToken /\ mu = Nobody /\ fetched = 0 /\ revoked = 0
  /\ http = [r \in Requests |-> NoRequest]

\* Do begins with getToken.
StartDo(r) ==
  /\ http[r].at = "idle"
  /\ http' = [http EXCEPT ![r].at = "token"]

\* Mutant: whoever waited for the mutex fetches a token, though there is one.
MustFetch_Always == TRUE

\* Whether a token is fetched is decided under the mutex.
MustFetch == token = NoToken

\* getClientToken and getUserToken.
UseToken(r) ==
  /\ http[r].at = "token" /\ mu = Nobody /\ ~MustFetch
  /\ http' = [http EXCEPT ![r] = [at |-> "sent", with |-> token]]
  /\ UNCHANGED <<token, mu, fetched, revoked>>

LockToFetch(r) ==
  /\ http[r].at = "token" /\ mu = Nobody /\ MustFetch
  /\ mu' = r
  /\ http' = [http EXCEPT ![r].at = "fetch"]
  /\ UNCHANGED <<token, fetched, revoked>>

\* doTokenRequest, with the mutex held all the time.
Fetched(r) ==
  /\ http[r].at = "fetch" /\ fetched < MaxFetches
  /\ fetched' = fetched + 1 /\ token' = fetched + 1
  /\ mu' = Nobody
  /\ http' = [http EXCEPT ![r] = [at |-> "sent", with |-> fetched + 1]]
  /\ UNCHANGED revoked

FetchFails(r) ==
  /\ http[r].at = "fetch"
  /\ mu' = Nobody
  /\ http' = [http EXCEPT ![r].at = "failed"]
  /\ UNCHANGED <<token, fetched, revoked>>

GetToken(r) == UseToken(r) \/ LockToFetch(r) \/ Fetched(r) \/ FetchFails(r)

Refused(status) == status \notin 200 .. 299

\* The answer. The mutex is not taken to throw the token away, so that another
\* request's newer token may go. No answer within the timeout leaves it.
Answered(r, status) ==
  /\ http[r].at = "sent"
  /\ token' = IF Refused(status) THEN NoToken ELSE token
  /\ http' = [http EXCEPT ![r] = NoRequest]
  /\ UNCHANGED <<mu, fetched, revoked>>

NotAnswered(r) ==
  /\ http[r].at \in {"sent", "failed"}
  /\ http' = [http EXCEPT ![r] = NoRequest]
  /\ UNCHANGED <<token, mu, fetched, revoked>>

\* The Oauth2 server's tokens expire.
Revoke ==
  /\ revoked < fetched /\ revoked' = fetched
  /\ UNCHANGED <<token, mu, fetched, http>>
=============================================================================
