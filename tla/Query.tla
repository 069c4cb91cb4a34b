------------------------------- MODULE Query --------------------------------
(***************************************************************************)
(* PromQL queries from the Go client to the store and back: Do with its    *)
(* token, the CF auth proxy that replaces source ids or else the gateway   *)
(* itself, the reads of Select, the engine, and the marshaled answer.      *)
(***************************************************************************)
EXTENDS Client, PromQL, Marshaler

CONSTANTS
  Stores,      \* the contents of the store: source -> envelopes, ascending
  Asks,        \* request -> what it may ask, and whom
  Unparsable,  \* a query that does not parse
  Authorized,  \* id -> the lists of sources the proxy may replace it by
  Instant,     \* the time of an instant query
  Instants,    \* the times of a range query, a sequence
  MaxFaults    \* bound: reads, token requests and calls that fail

Matchers ==
  {m \in [name : STRING, type : {"=", "!=", "=~", "!~"}, value : Seq(STRING)] :
     m.type = "=~" => m.value # <<>>}

Selectors == [metric : Seq(STRING), range : Nat, matchers : SUBSET Matchers]

ASSUME QueryAssumption ==
  /\ \A r \in Requests : \A ask \in Asks[r] :
       /\ ask.query \in Seq(Selectors) /\ {ask.range, ask.raw, ask.proxied} \subseteq BOOLEAN
       /\ ask.proxied => ExtractSourceIds(ask.query) \subseteq DOMAIN Authorized
  /\ \A id \in DOMAIN Authorized : Authorized[id] \subseteq Seq(STRING)
  /\ Instant \in Nat /\ Instants \in Seq(Nat) \ {<<>>}
  /\ \A i, k \in DOMAIN Instants : i < k => Instants[i] <= Instants[k]
  /\ MaxFaults \in Nat

VARIABLES
  store,   \* it does not change here: Store and Walk have what happens if it does
  job,     \* request -> what is asked and what has become of it
  faults,
  refused  \* answers so far that were not a 2xx, or MaxFetches if there are more

vars == <<clientVars, store, job, faults, refused>>

NoJob ==
  [at |-> "idle", range |-> FALSE, raw |-> FALSE, proxied |-> FALSE, asked |-> <<>>,
   query |-> <<>>, sets |-> <<>>, sel |-> 0, todo |-> {}, es |-> <<>>,
   series |-> <<>>, failed |-> FALSE, partial |-> FALSE, status |-> 0, json |-> <<>>]

QueryTypeOK ==
  /\ ClientTypeOK
  /\ store \in Stores
  /\ faults \in 0 .. MaxFaults /\ refused \in 0 .. MaxFetches
  /\ \A r \in Requests :
       LET j == job[r] IN
       /\ j.at \in {"idle", "http", "select", "responded", "done"}
       /\ j.status \in {0, 200, 400, 404, 500}
       /\ j.at = "select" => j.sel \in 1 .. Len(j.query) + 1 /\ Len(j.series) = j.sel - 1
       /\ j.at = "select" /\ ~j.failed => (j.todo = {} <=> j.sel > Len(j.query))
       /\ j.at # "select" => j.series = <<>>

QueryInit ==
  /\ ClientInit
  /\ store \in Stores
  /\ job = [r \in Requests |-> NoJob]
  /\ faults = 0 /\ refused = 0

Times(j) == IF j.range THEN Instants ELSE <<Instant>>
-----------------------------------------------------------------------------
\* PromQL and PromQLRange and their Raw forms.
Issue(r) ==
  /\ job[r].at = "idle" /\ StartDo(r)
  /\ \E ask \in Asks[r] :
       job' = [job EXCEPT ![r] =
         [NoJob EXCEPT !.at = "http", !.range = ask.range, !.raw = ask.raw,
                       !.proxied = ask.proxied, !.asked = ask.query,
                       !.query = ask.query]]
  /\ UNCHANGED <<token, mu, fetched, revoked, store, faults, refused>>

Authenticate(r) ==
  /\ job[r].at = "http" /\ GetToken(r)
  /\ faults' = IF http'[r].at = "failed" /\ fetched < MaxFetches
               THEN faults + 1 ELSE faults
  /\ faults' <= MaxFaults
  /\ UNCHANGED <<store, job, refused>>

\* Mutant: what was gathered is kept.
Responded_Keeps(j, status, json) ==
  [j EXCEPT !.at = "responded", !.status = status, !.json = json]

Responded(j, status, json) ==
  [j EXCEPT !.at = "responded", !.status = status, !.json = json,
            !.todo = {}, !.es = <<>>, !.series = <<>>]

\* The next selector is begun. One without sources fails the query, as errf says.
Begin(j, i) ==
  IF i > Len(j.query) THEN [j EXCEPT !.sel = i, !.todo = {}]
  ELSE LET ids == SelectorSourceIDs(j.query[i])
       IN [j EXCEPT !.sel = i, !.todo = ids, !.es = <<>>, !.failed = @ \/ ids = {}]

\* A query of a selector's range is no range query.
Executable(j) ==
  j.query # Unparsable /\ (j.range => \A i \in DOMAIN j.query : j.query[i].range = 0)

\* InstantQuery and RangeQuery up to the first Select.
Execute(j) ==
  IF ~Executable(j) THEN Responded(j, 500, MarshalError("internal"))
  ELSE Begin([j EXCEPT !.at = "select"], 1)

\* The handler of the proxy: parsing, the token, the authorized sources.
Proxy(r) ==
  LET j == job[r]
      refuse(status) == job' = [job EXCEPT ![r] = Responded(j, status, MarshalError("bad_data"))]
  IN
  /\ j.at = "http" /\ http[r].at = "sent" /\ j.proxied
  /\ IF j.query = Unparsable THEN refuse(400)
     ELSE IF ExtractSourceIds(j.query) = {} THEN refuse(400)
     ELSE IF http[r].with <= revoked THEN refuse(404)
     ELSE \E sets \in [ExtractSourceIds(j.query) -> UNION {Authorized[i] : i \in DOMAIN Authorized}] :
            /\ \A i \in DOMAIN sets : sets[i] \in Authorized[i]
            /\ IF \E i \in DOMAIN sets : sets[i] = <<>> THEN refuse(404)
               ELSE job' = [job EXCEPT ![r] =
                 Execute([j EXCEPT !.sets = sets, !.query = ReplaceSourceIdSets(@, sets)])]
  /\ UNCHANGED <<clientVars, store, faults, refused>>

\* The gateway asks no token.
Gateway(r) ==
  /\ job[r].at = "http" /\ http[r].at = "sent" /\ ~job[r].proxied
  /\ job' = [job EXCEPT ![r] = Execute(@)]
  /\ UNCHANGED <<clientVars, store, faults, refused>>
-----------------------------------------------------------------------------
\* The selector's time: as far back as its range or the lookback goes.
From(j) ==
  Head(Times(j)) - (IF j.query[j.sel].range = 0 THEN LookbackDelta ELSE j.query[j.sel].range)

Selected(j, es) ==
  [j EXCEPT !.series = Append(@, BuildSeriesSet(
     Within(es, {e \in ToSet(es) : Matches(e, j.query[j.sel])}), j.query[j.sel]))]

Stored(s) == IF s \in DOMAIN store THEN store[s] ELSE <<>>

\* Select reads one source after another. A read may return less than there is,
\* as the walk's errors are swallowed; and if it fails the selector fails.
ReadSource(r) ==
  LET j == job[r] IN
  /\ j.at = "select" /\ j.todo # {} /\ ~j.failed
  /\ \E s \in j.todo :
       LET es == ReadRange(Stored(s), From(j), Last(Times(j)))
           added(read) == [j EXCEPT !.todo = @ \ {s}, !.es = @ \o read]
           next(k) == IF k.todo = {} THEN Begin(Selected(k, k.es), k.sel + 1) ELSE k
       IN \/ job' = [job EXCEPT ![r] = next(added(es))] /\ UNCHANGED faults
          \/ /\ faults < MaxFaults /\ faults' = faults + 1
             /\ \/ /\ es # <<>>
                   /\ job' = [job EXCEPT ![r] =
                        next([added(Front(es)) EXCEPT !.partial = TRUE])]
                \/ job' = [job EXCEPT ![r].failed = TRUE]
  /\ UNCHANGED <<clientVars, store, refused>>

\* The engine: what the selectors found together, when their sources differ.
United(j) == UNION ToSet(j.series)

\* The points of a series at the times of a query.
AtTimes(points, times) ==
  FlattenSeq([i \in DOMAIN times |-> AtInstant(points, times[i])])

ScalarAt(t) == [t |-> t, v |-> {1}]

RangeResult(j) ==
  LET points(s) == AtTimes(s.points, Instants)
  IN Matrix(IF j.query = <<>>
            THEN {[labels |-> <<>>, points |-> Map(ScalarAt, Instants)]}
            ELSE {[labels |-> s.labels, points |-> points(s)] :
                    s \in {s \in United(j) : points(s) # <<>>}})

\* A selector's range, or the sample of a moment.
InstantResult(j) ==
  LET range == j.query[1].range
      of(s) == IF range = 0 THEN AtInstant(s.points, Instant)
               ELSE InRange(s.points, Instant, range)
      found == {s \in United(j) : of(s) # <<>>}
  IN IF j.query = <<>> THEN Scalar(ScalarAt(Instant))
     ELSE IF range = 0
     THEN Vector({[labels |-> s.labels, point |-> Head(of(s))] : s \in found})
     ELSE Matrix({[labels |-> s.labels, points |-> of(s)] : s \in found})

\* What a failed Select said is not forgotten when the engine has a result.
Respond(r) ==
  LET j == job[r] IN
  /\ j.at = "select" /\ (j.failed \/ j.sel > Len(j.query))
  /\ job' = [job EXCEPT ![r] =
       IF j.failed THEN Responded(j, 500, MarshalError("internal"))
       ELSE Responded(j, 200, Marshal(IF j.range THEN RangeResult(j) ELSE InstantResult(j)))]
  /\ UNCHANGED <<clientVars, store, faults, refused>>

\* The client's Do returns, and the answer is decoded, or handed on as it is.
Return(r) ==
  LET j == job[r] IN
  /\ j.at = "responded" /\ Answered(r, j.status)
  /\ job' = [job EXCEPT ![r] = [j EXCEPT !.at = "done", !.json =
       IF j.raw THEN Raw(j.status, @) ELSE Decoded(j.status, @, j.range)]]
  /\ refused' = IF Refused(j.status) THEN Min({refused + 1, MaxFetches}) ELSE refused
  /\ UNCHANGED <<store, faults>>

\* A token was not to be had, or there is no answer in time.
GiveUp(r) ==
  /\ job[r].at # "done" /\ NotAnswered(r)
  /\ http[r].at = "sent" => faults < MaxFaults
  /\ faults' = IF http[r].at = "sent" THEN faults + 1 ELSE faults
  /\ job' = [job EXCEPT ![r] = NoJob]
  /\ UNCHANGED <<store, refused>>

Finish(r) ==
  /\ job[r].at = "done"
  /\ job' = [job EXCEPT ![r] = NoJob]
  /\ UNCHANGED <<clientVars, store, faults, refused>>

QueryNext ==
  \/ \E r \in Requests :
       \/ Issue(r) \/ Authenticate(r) \/ Proxy(r) \/ Gateway(r) \/ ReadSource(r)
       \/ Respond(r) \/ Return(r) \/ GiveUp(r) \/ Finish(r)
  \/ Revoke /\ UNCHANGED <<store, job, faults, refused>>

QuerySpec == QueryInit /\ [][QueryNext]_vars
-----------------------------------------------------------------------------
\* The sources that a selector of a query was allowed, or asks for.
Wanted(j, i) ==
  LET ids == SelectorSourceIDs(j.asked[i])
  IN IF j.proxied THEN UNION {ToSet(j.sets[id]) : id \in ids} ELSE ids

Second(e) == (e.ts \div interval) * interval

\* What the selectors are to find in the store, of a time and as long before.
ToFind(j, t, before) ==
  {f \in {[e |-> e, i |-> i] : e \in UNION {ToSet(store[s]) : s \in DOMAIN store},
                               i \in DOMAIN j.asked} :
     /\ f.e.source \in Wanted(j, f.i) /\ Matches(f.e, j.asked[f.i])
     /\ f.e.ts < Last(Times(j))
     /\ t - before <= Second(f.e) /\ Second(f.e) <= t}

ValuesOf(j, f) == ValuesFor(f.e, j.asked[f.i].metric)

\* There is one sample for each of the labels found, and it has the value of an
\* envelope as late as any with its labels.
SamplesRight(j, samples, t) ==
  LET found == ToFind(j, t, LookbackDelta) IN
  /\ {s.labels : s \in samples} = {Labels(f.e) : f \in found}
  /\ \A s, s2 \in samples : s.labels = s2.labels => s = s2
  /\ \A s \in samples : \E f \in found :
       /\ Labels(f.e) = s.labels /\ s.point = [t |-> t, v |-> ValuesOf(j, f)]
       /\ \A f2 \in found : Labels(f2.e) = s.labels => Second(f2.e) <= Second(f.e)

\* There is a point for each envelope found, in their order.
SeriesRight(j, series) ==
  LET found == ToFind(j, Instant, j.asked[1].range) IN
  /\ {s.labels : s \in series} = {Labels(f.e) : f \in found}
  /\ \A s \in series :
       LET own == {f \in found : Labels(f.e) = s.labels} IN
       /\ Len(s.points) = Cardinality(own)
       /\ ToSet(s.points) = {[t |-> Second(f.e), v |-> ValuesOf(j, f)] : f \in own}
       /\ \A a, b \in DOMAIN s.points : a < b => s.points[a].t <= s.points[b].t

ResultRight(j, result) ==
  IF j.asked = <<>> THEN result.type = IF j.range THEN "matrix" ELSE "scalar"
  ELSE IF j.range THEN
    /\ result.type = "matrix"
    /\ \A t \in ToSet(Instants) :
         SamplesRight(j, UNION {{[labels |-> s.labels, point |-> p] :
                                   p \in {p \in ToSet(s.points) : p.t = t}} :
                                s \in result.data}, t)
  ELSE IF j.asked[1].range = 0
  THEN result.type = "vector" /\ SamplesRight(j, result.data, Instant)
  ELSE result.type = "matrix" /\ SeriesRight(j, result.data)

Answer(j) ==
  IF j.raw THEN Decode(j.json, j.range) ELSE j.json

\* A query with a read that failed is not answered, and what is no answer is never
\* taken for a result (promql.go, InstantQuery and RangeQuery; client.go, PromQL).
FailuresTold ==
  \A r \in Requests :
    job[r].at = "done" =>
      IF job[r].status = 200 THEN ~job[r].failed ELSE Answer(job[r]) = NoResult

\* What a proxied query reads are sources that the proxy authorized for the sources it
\* asks for: replacing them in the query neither loses a matcher nor mixes up lists
\* (cf_auth_middleware.go, Handler; promql.go, ReplaceSourceIdSets and Select).
OnlyAllowedRead ==
  \A r \in Requests :
    LET j == job[r] IN
    j.at = "select" /\ j.proxied =>
      /\ \A id \in DOMAIN j.sets : j.sets[id] \in Authorized[id]
      /\ j.todo # {} => j.todo \subseteq Wanted(j, j.sel)

\* A query that is answered is answered right: of exactly the sources that the
\* proxy allowed, or that were asked for, every matching envelope of the time shows
\* under its own labels, unless a read returned less than there was; failures are told,
\* and nothing else is read (promql.go, Select and InstantQuery;
\* cf_auth_middleware.go, Handler; marshaler.go).
AnswersRight ==
  /\ FailuresTold
  /\ OnlyAllowedRead
  /\ \A r \in Requests :
       LET j == job[r] IN
       j.at = "done" /\ j.status = 200 => j.partial \/ ResultRight(j, Answer(j))

\* What AnswersRight supposes. A source has envelopes of its own, each once and in
\* the order of their times: no fudged key overtook one.
StoresOrderly ==
  \A st \in Stores : \A s \in DOMAIN st :
    /\ st[s] \in Seq(ToSet(st[s]))
    /\ \A i \in DOMAIN st[s] : st[s][i].source = s /\ st[s][i].ts \in Nat
    /\ \A i, k \in DOMAIN st[s] :
         i < k => st[s][i].ts <= st[s][k].ts /\ st[s][i] # st[s][k]

\* No dashes in labels make one id of two series.
SeriesToldApart ==
  \A st \in Stores : \A e, f \in UNION {ToSet(st[s]) : s \in DOMAIN st} :
    SeriesID(Labels(e)) = SeriesID(Labels(f)) => Labels(e) = Labels(f)

\* Selectors find no series twice: no source is asked for, or allowed, by two. The
\* engine unites no ranges.
SelectorsApart ==
  /\ \A r \in Requests : \A ask \in Asks[r] : \A i, k \in DOMAIN ask.query :
       i # k => /\ ask.query[i].range = 0
                /\ SelectorSourceIDs(ask.query[i]) \cap SelectorSourceIDs(ask.query[k]) = {}
  /\ \A id, id2 \in DOMAIN Authorized : id # id2 =>
       \A ids \in Authorized[id], ids2 \in Authorized[id2] : Range(ids) \cap Range(ids2) = {}

\* Tokens are fetched no oftener than answers throw them away, whoever waited for
\* the mutex meanwhile (oauth2_http_client.go, getClientToken and Do).
FetchesBounded == fetched <= 1 + refused
=============================================================================
