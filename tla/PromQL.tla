------------------------------- MODULE PromQL -------------------------------
(***************************************************************************)
(* What the PromQL engine of Log Cache computes (src/internal/promql/      *)
(* promql.go), from a query and envelopes to series and results. A query   *)
(* is a sequence of selectors, of which the engine takes the union; a      *)
(* string that the code splits or replaces characters of is a sequence.    *)
(***************************************************************************)
EXTENDS Integers, SequencesExt, TLC

CONSTANTS
  KeyOrder,       \* the names of tags, sorted
  interval,       \* the units of time in a second
  LookbackDelta,  \* how old a point an instant may take, 5 minutes
  Digits, Others  \* characters that may not begin, or not be in, a name

ASSUME PromQLAssumption == interval \in Nat \ {0} /\ LookbackDelta \in Nat
-----------------------------------------------------------------------------
\* A matcher's value is a sequence: the alternatives of a regular expression, or
\* the one source of an equality, or nothing for the empty string, which an equality
\* takes for a source.
IdsOf(matcher) ==
  IF matcher.type = "=" /\ matcher.value = <<>> THEN <<"">> ELSE matcher.value

AddSourceIDs(matcher) ==
  IF matcher.type \in {"=", "=~"} THEN Range(IdsOf(matcher)) ELSE {}

SelectorSourceIDs(sel) ==
  UNION {AddSourceIDs(m) : m \in {m \in sel.matchers : m.name = "source_id"}}

ExtractSourceIds(query) ==
  UNION {SelectorSourceIDs(query[i]) : i \in DOMAIN query}

TypeFor(ids) == IF Len(ids) > 1 THEN "=~" ELSE "="

\* An equality keeps its source if nothing is said of it; a regular expression
\* loses it.
Replace(matcher, sets) ==
  LET asked == IdsOf(matcher)
      ids == FlattenSeq([i \in DOMAIN asked |->
               IF asked[i] \in DOMAIN sets THEN sets[asked[i]] ELSE <<>>])
  IN IF matcher.type = "=" /\ Range(asked) \cap DOMAIN sets = {} THEN matcher
     ELSE [matcher EXCEPT !.type = TypeFor(ids), !.value = ids]

\* Mutant: regular expressions stay as they are.
ReplaceIn_Equal(matcher, sets) ==
  IF matcher.name = "source_id" /\ matcher.type = "="
  THEN Replace(matcher, sets) ELSE matcher

ReplaceIn(matcher, sets) ==
  IF matcher.name = "source_id" /\ matcher.type \in {"=", "=~"}
  THEN Replace(matcher, sets) ELSE matcher

ReplaceSourceIdSets(query, sets) ==
  [i \in DOMAIN query |->
     [query[i] EXCEPT !.matchers = {ReplaceIn(m, sets) : m \in @}]]
-----------------------------------------------------------------------------
SanitizeMetricName(name) ==
  [i \in DOMAIN name |->
     IF name[i] \in Others \/ (i = 1 /\ name[i] \in Digits) THEN "_" ELSE name[i]]

\* The values that an envelope has for a metric: the total of a counter, the
\* duration of a timer, or those of the gauges, of which any is taken.
ValuesFor(e, metric) ==
  {e.metrics[k] : k \in {k \in DOMAIN e.metrics : SanitizeMetricName(k) = metric}}

\* Every other matcher is taken for an equality, and looked for in the tags that
\* the envelope came with.
HasLabels(e, sel) ==
  \A m \in sel.matchers :
    m.name # "source_id" => m.name \in DOMAIN e.tags /\ e.tags[m.name] = m.value

Matches(e, sel) ==
  /\ e.type \in {"gauge", "counter", "timer"}
  /\ HasLabels(e, sel) /\ ValuesFor(e, sel.metric) # {}

\* The tags of an envelope, with those that Select sets.
Labels(e) ==
  LET set == {"source_id"} \cup IF e.instance = <<>> THEN {} ELSE {"instance_id"}
  IN [k \in DOMAIN e.tags \cup set |->
        IF k \notin set THEN e.tags[k]
        ELSE IF k = "source_id" THEN <<e.source>> ELSE e.instance]

\* What of a sequence is in a set, in its order.
Within(s, S) ==
  LET kept == {i \in DOMAIN s : s[i] \in S}
      rank(i) == Cardinality({k \in kept : k <= i})
  IN [n \in 1 .. Cardinality(kept) |-> s[CHOOSE i \in kept : rank(i) = n]]

\* "-k-v" of all tags: values are sequences of what dashes separate.
SeriesID(tags) ==
  LET keys == SelectSeq(KeyOrder, LAMBDA k : k \in DOMAIN tags)
  IN FlattenSeq([i \in DOMAIN keys |-> <<keys[i]>> \o tags[keys[i]]])

\* Mutant: to the next second.
Truncate_Up(t) == t - (t % interval) + interval

Truncate(t) == t - (t % interval)

\* The builder's series of the envelopes read, in the order they were added: the
\* labels are those of the first, points are appended.
BuildSeriesSet(es, sel) ==
  LET of(id) == Within(es, {e \in ToSet(es) : SeriesID(Labels(e)) = id})
      points(s) == [i \in DOMAIN s |->
        [t |-> Truncate(s[i].ts), v |-> ValuesFor(s[i], sel.metric)]]
  IN {[labels |-> Labels(Head(of(id))), points |-> points(of(id))] :
        id \in {SeriesID(Labels(es[i])) : i \in DOMAIN es}}

\* What Select reads of a source for an instant: a second more than asked for,
\* in ascending order, without the end.
ReadRange(es, from, to) ==
  Within(es, {e \in ToSet(es) : from - interval <= e.ts /\ e.ts < to})
-----------------------------------------------------------------------------
\* Seek: the first point not before t.
Seek(points, t) ==
  LET found == {i \in DOMAIN points : points[i].t >= t}
  IN IF found = {} THEN Len(points) + 1 ELSE CHOOSE i \in found : \A j \in found : i <= j

\* The engine's instant: the point at t, or the last before within LookbackDelta.
AtInstant(points, t) ==
  LET i == Seek(points, t)
      at == IF i <= Len(points) /\ points[i].t = t THEN i ELSE i - 1
  IN IF at = 0 \/ points[at].t < t - LookbackDelta THEN <<>>
     ELSE <<[t |-> t, v |-> points[at].v]>>

\* The engine's range: the points of the time before t.
InRange(points, t, range) ==
  Within(points, {p \in ToSet(points) : t - range <= p.t /\ p.t <= t})
=============================================================================
