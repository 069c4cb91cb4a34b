----------------------------- MODULE Marshaler ------------------------------
(***************************************************************************)
(* What the gateway makes of PromQL results and the clients of the         *)
(* gateway's answers (src/pkg/marshaler/marshaler.go, src/internal/gateway *)
(* and src/pkg/client/client.go). A result is a record of its type and its *)
(* data; JSON is a record of names and arrays. Times and values are        *)
(* numbers, which both sides format without loss.                          *)
(***************************************************************************)
EXTENDS Sequences

\* assemblePoint and disassemblePoint.
Point(p) == <<p.t, p.v>>
PointOf(json) == [t |-> json[1], v |-> json[2]]

Map(f(_), s) == [i \in DOMAIN s |-> f(s[i])]

SampleJson(s) == [metric |-> s.labels, value |-> Point(s.point)]
SampleOf(json) == [labels |-> json.metric, point |-> PointOf(json.value)]

SeriesJson(s) == [metric |-> s.labels, values |-> Map(Point, s.points)]
SeriesOf(json) == [labels |-> json.metric, points |-> Map(PointOf, json.values)]

Scalar(p) == [type |-> "scalar", data |-> p]
Vector(samples) == [type |-> "vector", data |-> samples]
Matrix(series) == [type |-> "matrix", data |-> series]

Json(result) ==
  CASE result.type = "scalar" -> Point(result.data)
    [] result.type = "vector" -> {SampleJson(s) : s \in result.data}
    [] result.type = "matrix" -> {SeriesJson(s) : s \in result.data}

Marshal(result) ==
  [status |-> "success", resultType |-> result.type, result |-> Json(result)]

\* httpErrorHandler.
MarshalError(error) == [status |-> "error", error |-> error]

NoResult == [type |-> "error"]

\* A range query takes a matrix only, an instant query any result.
Disassemble(json, isRange) ==
  CASE json.resultType = "matrix" -> Matrix({SeriesOf(s) : s \in json.result})
    [] json.resultType = "vector" /\ ~isRange -> Vector({SampleOf(s) : s \in json.result})
    [] json.resultType = "scalar" /\ ~isRange -> Scalar(PointOf(json.result))
    [] OTHER -> NoResult

Decode(json, isRange) ==
  IF json.status = "success" THEN Disassemble(json, isRange) ELSE NoResult

\* PromQL and PromQLRange take nothing but a 200.
Decoded(status, json, isRange) ==
  IF status = 200 THEN Decode(json, isRange) ELSE NoResult

\* PromQLRaw and PromQLRangeRaw hand on what came with a 200, 400 or 500.
Raw(status, json) ==
  IF status \in {200, 400, 500} THEN json ELSE MarshalError("unexpected status code")
=============================================================================
