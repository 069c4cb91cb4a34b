------------------------------ MODULE Ingress ------------------------------
(***************************************************************************)
(* The way of an envelope to the stores: a Nozzle and a SyslogServer send  *)
(* to one of the nodes of IngressProxy, as log_cache.go wires them.        *)
(***************************************************************************)
EXTENDS Nozzle, SyslogServer, IngressProxy

CONSTANTS
  Entry,         \* the node that is sent to
  Syslog,        \* the syslog server, as a caller
  Routes,        \* its tables at first
  NewRoutes,     \* what a source's route may become
  MaxFaults      \* bound: failed calls and changes of the tables

ASSUME IngressAssumption ==
  /\ Envelopes = Streamed \cup {Cardinality(Streamed) + m : m \in Messages}
  /\ Entry \in Nodes /\ Routes \in [Nodes -> [Sources -> SUBSET Nodes]]
  /\ Callers = Writers \cup Peers \cup {Syslog}
  /\ Writers \cap Peers = {} /\ Syslog \notin Writers \cup Peers
  /\ NewRoutes \subseteq SUBSET Nodes /\ MaxFaults \in Nat

VARIABLES
  received,    \* envelopes of the stream, and of valid messages
  everRouted,  \* source -> the nodes that the entry node has routed it to
  mishaps,     \* what has happened that loses envelopes
  faults

history == <<received, everRouted, mishaps>>

vars == <<nozzleVars, syslogVars, proxyVars, history, faults>>

Mishaps == {"overrun", "full channel", "failed call", "racing Set", "new routes"}

TypeOK ==
  /\ NozzleTypeOK /\ SyslogTypeOK /\ ProxyTypeOK
  /\ received \subseteq Envelopes
  /\ everRouted \in [Sources -> SUBSET Nodes]
  /\ mishaps \subseteq Mishaps
  /\ faults \in 0 .. MaxFaults

Init ==
  /\ NozzleInit /\ SyslogInit /\ ProxyInit
  /\ routes = Routes
  /\ received = {} /\ everRouted = Routes[Entry]
  /\ mishaps = {} /\ faults = 0

Record(mishap, happens) ==
  mishaps' = IF happens THEN mishaps \cup {mishap} ELSE mishaps

ReadStream ==
  /\ ReadEnvelope
  /\ received' = received \cup {ingressInc'}
  /\ Record("overrun", Overruns)
  /\ UNCHANGED <<syslogVars, proxyVars, everRouted, faults>>

Batch(fired) ==
  /\ BatchEnvelopes(fired)
  /\ Record("full channel", ChannelDrops(fired))
  /\ UNCHANGED <<syslogVars, proxyVars, received, everRouted, faults>>

\* The batch arrives at the entry node.
Write(w) ==
  /\ TakeBatch(w)
  /\ Send(w, Entry, Head(ch), FALSE)
  /\ UNCHANGED <<syslogVars, routes, peer, stored, history, faults>>

\* Send returns, or fails as the batch has not arrived.
Written(w) ==
  /\ \/ Returns(w) /\ SendReturns(w, FALSE)
     \/ ~Waits(w) /\ SendReturns(w, TRUE) /\ UNCHANGED handler
  /\ UNCHANGED <<syslogVars, routes, peer, stored, history, faults>>

\* The envelope of a syslog message.
EnvelopeOf(m) == Cardinality(Streamed) + m

Parse ==
  /\ ParseMessage \/ Disconnect
  /\ received' = received \cup
       (IF connection'.sending = 0 THEN {} ELSE {EnvelopeOf(connection'.sending)})
  /\ UNCHANGED <<nozzleVars, proxyVars, everRouted, mishaps, faults>>

Forward ==
  /\ connection.sending # 0 /\ ~Waits(Syslog)
  /\ Send(Syslog, Entry, <<EnvelopeOf(connection.sending)>>, FALSE)
  /\ UNCHANGED <<nozzleVars, syslogVars, routes, peer, stored, history, faults>>

Forwarded ==
  /\ Returns(Syslog) /\ MessageSent(FALSE)
  /\ UNCHANGED <<nozzleVars, routes, peer, stored, history, faults>>

Handle(h) ==
  /\ HandleSend(h)
  /\ mishaps' = mishaps
       \cup (IF PeerOverruns(h) THEN {"overrun"} ELSE {})
       \cup (IF Races(h) THEN {"racing Set"} ELSE {})
  /\ UNCHANGED <<nozzleVars, syslogVars, received, everRouted, faults>>

BatchPeer(p, lapsed) ==
  /\ BatchForPeer(p, lapsed)
  /\ UNCHANGED <<nozzleVars, syslogVars, history, faults>>

WritePeer(p) ==
  /\ CallPeer(p) \/ PeerReturns(p)
  /\ UNCHANGED <<nozzleVars, syslogVars, history, faults>>
-----------------------------------------------------------------------------
Fault == faults < MaxFaults /\ faults' = faults + 1

\* A Send does not arrive, is not answered, or takes more than 3 seconds.
WriteFails(w) ==
  /\ Fault
  /\ \/ TakeBatch(w) /\ UNCHANGED handler
     \/ Abandon(w) /\ SendReturns(w, TRUE)
  /\ mishaps' = mishaps \cup {"failed call"}
  /\ UNCHANGED <<syslogVars, routes, peer, stored, received, everRouted>>

ForwardFails ==
  /\ Fault
  /\ \/ Abandon(Syslog)
     \/ ~Waits(Syslog) /\ UNCHANGED handler
  /\ MessageSent(TRUE)
  /\ mishaps' = mishaps \cup {"failed call"}
  /\ UNCHANGED <<nozzleVars, routes, peer, stored, received, everRouted>>

PeerCallFails(p) ==
  /\ Fault
  /\ PeerFails(p)
  /\ mishaps' = mishaps \cup {"failed call"}
  /\ UNCHANGED <<nozzleVars, syslogVars, received, everRouted>>

\* The scheduler's SetRanges.
ChangeRoutes ==
  /\ Fault
  /\ \E s \in Sources, ns \in NewRoutes :
       /\ routes' = [routes EXCEPT ![Entry][s] = ns]
       /\ everRouted' = [everRouted EXCEPT ![s] = @ \cup ns]
  /\ mishaps' = mishaps \cup {"new routes"}
  /\ UNCHANGED <<nozzleVars, syslogVars, handler, peer, stored, received>>

Next ==
  \/ ReadStream
  \/ \E b \in BOOLEAN : Batch(b) \/ \E p \in Peers : BatchPeer(p, b)
  \/ \E w \in Writers : Write(w) \/ Written(w) \/ WriteFails(w)
  \/ Parse \/ Forward \/ Forwarded \/ ForwardFails
  \/ \E h \in Handlers : Handle(h)
  \/ \E p \in Peers : WritePeer(p) \/ PeerCallFails(p)
  \/ ChangeRoutes

\* The goroutines run, timers fire, and calls return.
Fairness ==
  /\ \A b \in BOOLEAN : WF_vars(Batch(b))
  /\ \A p \in Peers, b \in BOOLEAN : WF_vars(BatchPeer(p, b))
  /\ \A w \in Writers : WF_vars(Write(w)) /\ WF_vars(Written(w))
  /\ WF_vars(Forward) /\ WF_vars(Forwarded)
  /\ \A h \in Handlers : WF_vars(Handle(h))
  /\ \A p \in Peers : WF_vars(WritePeer(p))

Spec == Init /\ [][Next]_vars /\ Fairness
-----------------------------------------------------------------------------
\* However tables differ between nodes, whatever is retried, dropped or handled
\* after its caller gave up: no node puts an envelope into its store twice.
StoredOncePerNode == \A n \in Nodes, e \in Envelopes : stored[n][e] <= 1

\* A node stores only what the entry node has at some time routed to it: the
\* split of a batch mixes up nobody's envelopes.
StoredWhereRouted ==
  \A n \in Nodes, e \in Envelopes :
    stored[n][e] > 0 => n \in everRouted[SourceOf(e)]

\* nozzle_egress never counts an envelope twice or one still in the nozzle, and
\* what it lacks of nozzle_ingress is in the nozzle, unless something was lost.
Accounting ==
  /\ ingressInc - egressInc >= Cardinality(InNozzle)
  /\ mishaps = {} => ingressInc - egressInc = Cardinality(InNozzle)

\* Every envelope that is received gets to the store of every node of its route,
\* unless it is lost where the code accepts that: at a diode that is overrun, a
\* channel that is full, a call that fails, a diode two handlers Set, or a table
\* that changed.
DeliveredUnlessMishap ==
  <>[](\/ mishaps # {}
       \/ \A e \in received : \A n \in Routes[Entry][SourceOf(e)] :
            stored[n][e] > 0)
=============================================================================
