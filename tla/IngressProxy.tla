---------------------------- MODULE IngressProxy ----------------------------
(***************************************************************************)
(* The Ingress service of the nodes: IngressReverseProxy splits a batch by *)
(* the nodes that the routing table names, the local client puts it into   *)
(* the store, and a BatchedIngressClient for each peer buffers it in a     *)
(* diode and sends it on, LocalOnly.                                       *)
(***************************************************************************)
EXTENDS Diode, Integers, SequencesExt

CONSTANTS
  Envelopes,
  SourceOf(_),      \* envelope -> source id
  Sources,
  Nodes,
  Handlers,         \* bound: Send calls that nodes handle at the same time
  Callers,          \* who may wait for a Send
  NoCaller,         \* one that no longer waits
  PeerBufferSize,   \* 10000 in the code
  PeerBatchSize     \* 100 in the code

ASSUME IngressProxyAssumption ==
  /\ IsFiniteSet(Handlers) /\ Handlers = 1 .. Cardinality(Handlers)
  /\ NoCaller \notin Callers
  /\ \A e \in Envelopes : SourceOf(e) \in Sources
  /\ Nothing \notin Buckets(Envelopes)
  /\ PeerBufferSize \in Nat \ {0} /\ PeerBatchSize \in Nat \ {0}

VARIABLES
  routes,   \* node -> source -> the nodes that its Lookup returns
  handler,  \* what is done for each call
  peer,     \* <<node, other node>> -> its client
  stored    \* node -> envelope -> how often it was put

proxyVars == <<routes, handler, peer, stored>>

Peers == {p \in Nodes \X Nodes : p[1] # p[2]}

NoParts == [n \in Nodes |-> <<>>]

NoCall ==
  [at |-> "idle", node |-> CHOOSE n \in Nodes : TRUE, caller |-> NoCaller,
   batch |-> <<>>, parts |-> NoParts,
   to |-> CHOOSE n \in Nodes : TRUE, index |-> 0]

NewPeer == [buffer |-> EmptyDiode(PeerBufferSize), batch |-> <<>>, sending |-> <<>>]

Calls ==
  [at : {"idle", "lookup", "send", "set", "store", "done"}, node : Nodes,
   caller : Callers \cup {NoCaller}, batch : Seq(Envelopes),
   parts : [Nodes -> Seq(Envelopes)], to : Nodes, index : Nat]

PeerStates ==
  [buffer : Diodes(PeerBufferSize, Envelopes), batch : Seq(Envelopes),
   sending : Seq(Envelopes)]

ProxyTypeOK ==
  /\ routes \in [Nodes -> [Sources -> SUBSET Nodes]]
  /\ handler \in [Handlers -> Calls]
  /\ peer \in [Peers -> PeerStates]
  /\ \A p \in Peers : Len(peer[p].batch) < PeerBatchSize
  /\ stored \in [Nodes -> [Envelopes -> 0 .. 2]]

ProxyInit ==
  /\ handler = [h \in Handlers |-> NoCall]
  /\ peer = [p \in Peers |-> NewPeer]
  /\ stored = [n \in Nodes |-> [e \in Envelopes |-> 0]]

Idle == {h \in Handlers : handler[h].at = "idle"}

\* A Send reaches a node. LocalOnly is sent to the local client as it is.
Send(caller, n, batch, localOnly) ==
  LET h == Min(Idle) IN
  /\ Idle # {}
  /\ handler' = [handler EXCEPT ![h] =
       [NoCall EXCEPT !.node = n, !.caller = caller,
          !.at = IF localOnly THEN "send" ELSE "lookup",
          !.batch = IF localOnly THEN <<>> ELSE batch,
          !.parts = IF localOnly THEN [NoParts EXCEPT ![n] = batch] ELSE NoParts]]

Waits(caller) == \E h \in Handlers : handler[h].caller = caller

\* Send returns to the one that waits for it.
Returns(caller) ==
  \E h \in Handlers :
    /\ handler[h].caller = caller /\ handler[h].at = "done"
    /\ handler' = [handler EXCEPT ![h] = NoCall]

\* The caller gets no answer, and the handler goes on.
Abandon(caller) ==
  \E h \in Handlers :
    /\ handler[h].caller = caller
    /\ handler' = [handler EXCEPT ![h] =
         IF @.at = "done" THEN NoCall ELSE [@ EXCEPT !.caller = NoCaller]]

-----------------------------------------------------------------------------
\* Mutant: the route of the first envelope is taken for all of the batch.
LookUp_Once(h) ==
  LET call == handler[h] IN
  /\ call.at = "lookup"
  /\ handler' = [handler EXCEPT
       ![h].at = "send", ![h].batch = <<>>,
       ![h].parts = [n \in Nodes |->
          IF n \in routes[call.node][SourceOf(Head(call.batch))]
          THEN call.batch ELSE <<>>]]
  /\ UNCHANGED <<routes, peer, stored>>

\* The next envelope of the batch goes to the parts of the nodes of its route.
LookUp(h) ==
  LET call == handler[h]
      e == Head(call.batch)
      idxs == routes[call.node][SourceOf(e)]
  IN
  /\ call.at = "lookup"
  /\ handler' = [handler EXCEPT ![h] = [call EXCEPT
       !.batch = Tail(call.batch),
       !.at = IF Len(call.batch) = 1 THEN "send" ELSE "lookup",
       !.parts = [n \in Nodes |->
          IF n \in idxs THEN Append(call.parts[n], e) ELSE call.parts[n]]]]
  /\ UNCHANGED <<routes, peer, stored>>

\* The local client puts a part into the store.
PutLocally(h) ==
  LET call == handler[h]
      here == Range(call.parts[call.node])
  IN
  /\ call.at = "send" /\ here # {}
  /\ stored' = [stored EXCEPT ![call.node] = [e \in Envelopes |->
                  LET times == stored[call.node][e]
                  IN IF e \in here THEN Min({times + 1, 2}) ELSE times]]
  /\ handler' = [handler EXCEPT ![h] = [call EXCEPT
       !.parts = [call.parts EXCEPT ![call.node] = <<>>]]]
  /\ UNCHANGED <<routes, peer>>

\* A part for a peer is next: maps have no order.
SendToPeer(h) ==
  LET call == handler[h] IN
  /\ call.at = "send"
  /\ \E n \in Nodes \ {call.node} :
       /\ call.parts[n] # <<>>
       /\ handler' = [handler EXCEPT ![h] = [call EXCEPT !.at = "set", !.to = n]]
  /\ UNCHANGED <<routes, peer, stored>>

\* Set, which is not made for two goroutines: it loads the write index ...
LoadIndex(h) ==
  LET call == handler[h]
      p == <<call.node, call.to>>
  IN
  /\ call.at = "set"
  /\ handler' = [handler EXCEPT ![h] = [call EXCEPT
       !.at = "store", !.index = peer[p].buffer.writeIndex]]
  /\ UNCHANGED <<routes, peer, stored>>

\* ... and stores the bucket, and the write index that follows.
StoreBucket(h) ==
  LET call == handler[h]
      p == <<call.node, call.to>>
      part == call.parts[call.to]
  IN
  /\ call.at = "store"
  /\ peer' = [peer EXCEPT ![p] = [peer[p] EXCEPT
       !.buffer = SetAt(peer[p].buffer, call.index, Head(part))]]
  /\ handler' = [handler EXCEPT ![h] = [call EXCEPT
       !.at = IF Len(part) = 1 THEN "send" ELSE "set",
       !.parts = [call.parts EXCEPT ![call.to] = Tail(part)], !.index = 0]]
  /\ UNCHANGED <<routes, stored>>

\* The handler returns, whatever became of the parts.
Respond(h) ==
  /\ handler[h].at = "send" /\ handler[h].parts = NoParts
  /\ handler' = [handler EXCEPT ![h] =
       IF @.caller = NoCaller THEN NoCall ELSE [@ EXCEPT !.at = "done"]]
  /\ UNCHANGED <<routes, peer, stored>>

HandleSend(h) ==
  \/ LookUp(h) \/ PutLocally(h) \/ SendToPeer(h)
  \/ LoadIndex(h) \/ StoreBucket(h) \/ Respond(h)
-----------------------------------------------------------------------------
\* Mutant: a batch waits until it is full.
FlushPeer_FullOnly(p, batch, lapsed) == Len(batch) >= PeerBatchSize

\* Write and Flush of the batcher hand the batch over.
FlushPeer(p, batch, lapsed) ==
  \/ Len(batch) >= PeerBatchSize
  \/ lapsed /\ batch # <<>>

\* An iteration of BatchedIngressClient.start, the interval lapsed or not.
BatchForPeer(p, lapsed) ==
  LET batch == IF Found(peer[p].buffer)
               THEN Append(peer[p].batch, NextBucket(peer[p].buffer).data)
               ELSE peer[p].batch
      flush == FlushPeer(p, batch, lapsed)
  IN
  /\ peer[p].sending = <<>>
  /\ peer' = [peer EXCEPT ![p] =
       [buffer |-> Read(peer[p].buffer),
        batch |-> IF flush THEN <<>> ELSE batch,
        sending |-> IF flush THEN batch ELSE <<>>]]
  /\ UNCHANGED <<routes, handler, stored>>

\* Mutant: the peer is to look up the route again.
CallPeer_Routed(p) ==
  /\ peer[p].sending # <<>> /\ ~Waits(p)
  /\ Send(p, p[2], peer[p].sending, FALSE)
  /\ UNCHANGED <<routes, peer, stored>>

\* write, called by the batcher, Sends ...
CallPeer(p) ==
  /\ peer[p].sending # <<>> /\ ~Waits(p)
  /\ Send(p, p[2], peer[p].sending, TRUE)
  /\ UNCHANGED <<routes, peer, stored>>

\* ... and returns when the peer has, or when it gives the batch up.
PeerReturns(p) ==
  /\ Returns(p)
  /\ peer' = [peer EXCEPT ![p].sending = <<>>]
  /\ UNCHANGED <<routes, stored>>

PeerFails(p) ==
  /\ peer[p].sending # <<>>
  /\ peer' = [peer EXCEPT ![p].sending = <<>>]
  /\ \/ Abandon(p)
     \/ ~Waits(p) /\ UNCHANGED handler
  /\ UNCHANGED <<routes, stored>>

\* In its next step the handler loses an envelope that waits for the peer, or
\* goes on with a Set that another got into.
PeerOverruns(h) ==
  LET call == handler[h] IN
  /\ call.at = "store"
  /\ Overwrites(peer[<<call.node, call.to>>].buffer, call.index)

Races(h) ==
  LET call == handler[h] IN
  /\ call.at = "store"
  /\ call.index # peer[<<call.node, call.to>>].buffer.writeIndex
=============================================================================
