---------------------------- MODULE SyslogServer ----------------------------
(***************************************************************************)
(* The syslog server (src/internal/syslog/server.go): each message of a    *)
(* connection becomes an envelope that is sent before the next is parsed.  *)
(***************************************************************************)
EXTENDS Integers, FiniteSets

CONSTANTS
  Messages,      \* what a client sends over its connection, 1 .. n
  ParseError(_), \* message -> the parser reports an error
  Elements(_)    \* message -> its structured data: [type, malformed]

ASSUME SyslogAssumption ==
  IsFiniteSet(Messages) /\ Messages = 1 .. Cardinality(Messages)

VARIABLES
  connection,      \* [open, received: messages so far, sending: one, or 0]
  ingress,
  invalidIngress

syslogVars == <<connection, ingress, invalidIngress>>

SyslogTypeOK ==
  /\ connection \in [open : BOOLEAN, received : 0 .. Cardinality(Messages),
                     sending : Messages \cup {0}]
  /\ ingress \in Nat /\ invalidIngress \in Nat

SyslogInit ==
  /\ connection = [open |-> TRUE, received |-> 0, sending |-> 0]
  /\ ingress = 0 /\ invalidIngress = 0

\* convertCounter, convertGauge, convertEvent and convertTimer: whether they
\* return an envelope. An event has nothing to be parsed.
Converts(element) ==
  \/ element.type = "event"
  \/ element.type \in {"counter", "gauge", "timer"} /\ ~element.malformed

\* What convertToEnvelope may return: it goes by the element that the map
\* iteration meets first, and makes a log of a message without any.
Converted(m) ==
  IF Elements(m) = {} THEN {TRUE}
  ELSE {Converts(element) : element \in Elements(m)}

\* parseListener, up to its Send.
ParseMessage ==
  LET m == connection.received + 1
      valid == IF ParseError(m) THEN {FALSE} ELSE Converted(m)
  IN
  /\ connection.open /\ connection.sending = 0
  /\ connection.received < Cardinality(Messages)
  /\ \/ /\ TRUE \in valid
        /\ connection' = [connection EXCEPT !.received = m, !.sending = m]
        /\ UNCHANGED invalidIngress
     \/ /\ FALSE \in valid
        /\ connection' = [connection EXCEPT !.received = m]
        /\ invalidIngress' = invalidIngress + 1
  /\ UNCHANGED ingress

\* Send returns. A message it fails for is dropped and not counted.
MessageSent(err) ==
  /\ connection.sending # 0
  /\ connection' = [connection EXCEPT !.sending = 0]
  /\ ingress' = IF err THEN ingress ELSE ingress + 1
  /\ UNCHANGED invalidIngress

\* The deadline of a read passes, or the client leaves, before the next message.
Disconnect ==
  /\ connection.open /\ connection.sending = 0
  /\ connection.received < Cardinality(Messages)
  /\ connection' = [connection EXCEPT !.open = FALSE]
  /\ UNCHANGED <<ingress, invalidIngress>>
=============================================================================
