------------------------------ MODULE MCQuery -------------------------------
(***************************************************************************)
(* A store, queries and two requests for TLC.                              *)
(***************************************************************************)
EXTENDS Query

MCKeyOrder == <<"env", "instance_id", "source_id">>

\* Names: a.b and a_b are one metric, 1b is _b.
Metric == <<"a", "_", "b">>
Dotted == <<"a", ".", "b">>

Envelope(source, instance, type, metrics, tags, ts) ==
  [source |-> source, instance |-> instance, type |-> type, metrics |-> metrics,
   tags |-> tags, ts |-> ts]

NoTags == [k \in {} |-> <<>>]
Live == "env" :> <<"live">>

\* Of source a: two instances, two names of one gauge, two envelopes in a second,
\* one at the very end of the time, one of another type.
A == <<Envelope("a", <<"0">>, "gauge", Metric :> 1 @@ Dotted :> 2, NoTags, 3),
       Envelope("a", <<"0">>, "counter", Dotted :> 3, NoTags, 6),
       Envelope("a", <<"1">>, "timer", Metric :> 4, Live, 6),
       Envelope("a", <<"0">>, "counter", Metric :> 5, NoTags, 7),
       Envelope("a", <<"0">>, "log", Metric :> 6, NoTags, 7),
       Envelope("a", <<"0">>, "counter", Metric :> 7, NoTags, 8)>>

B == <<Envelope("b", <<>>, "gauge", <<"1", "b">> :> 8, Live, 4),
       Envelope("b", <<>>, "gauge", Dotted :> 9, Live, 5)>>

A2 == <<Envelope("a2", <<"0">>, "counter", Dotted :> 10, NoTags, 5)>>

Without(s, i) == SelectSeq(s, LAMBDA e : e # s[i])

MCStores ==
  {[a |-> A, b |-> B, a2 |-> A2], [a |-> <<>>, b |-> B, a2 |-> <<>>]} \cup
  {[a |-> Without(A, i), b |-> B, a2 |-> <<>>] : i \in {2, 4}}

Source(type, ids) == [name |-> "source_id", type |-> type, value |-> ids]
Of(metric, range, matchers) == [metric |-> metric, range |-> range, matchers |-> matchers]

MCUnparsable == <<Of(<<"(">>, 0, {})>>

MCQueries ==
  { <<>>,
    <<Of(Metric, 0, {})>>,
    <<Of(Metric, 0, {Source("=", <<>>)})>>,
    <<Of(Metric, 0, {Source("=", <<"a">>)})>>,
    <<Of(Metric, 4, {Source("=", <<"a">>)})>>,
    <<Of(Metric, 0, {Source("=~", <<"a", "b">>)})>>,
    <<Of(<<"_", "b">>, 0, {Source("=", <<"b">>)}),
      Of(Metric, 0, {Source("=", <<"a">>), [name |-> "env", type |-> "=", value |-> <<"live">>]})>> }

Ask(range, raw, proxied, query) ==
  [range |-> range, raw |-> raw, proxied |-> proxied, query |-> query]

MCAsks ==
  [r \in Requests |->
     IF r = CHOOSE r1 \in Requests : TRUE
     THEN {Ask(range, raw, proxied, q) : range, raw, proxied \in BOOLEAN,
                                         q \in MCQueries \cup {MCUnparsable}}
     ELSE {Ask(FALSE, FALSE, TRUE, <<Of(Metric, 0, {Source("=", <<"b">>)})>>)}]

MCAuthorized ==
  "" :> {<<"">>, <<>>} @@ "a" :> {<<"a2">>, <<"a2", "a">>, <<>>} @@ "b" :> {<<"b">>}

MCInstants == <<6, 8>>

\* The instance is one of which all answers are to be right.
ASSUME InstanceAssumption == StoresOrderly /\ SeriesToldApart /\ SelectorsApart
=============================================================================
