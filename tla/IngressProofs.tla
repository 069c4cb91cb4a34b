---------------------------- MODULE IngressProofs ---------------------------
(***************************************************************************)
(* What is proved of the way of an envelope to the stores, for every       *)
(* number of nodes, writers, handlers and envelopes, all sizes of the      *)
(* diodes, batches and channels, and whatever the tables become.           *)
(***************************************************************************)
EXTENDS Ingress, FiniteSetTheorems, SequenceTheorems, WellFoundedInduction, TLAPS

-----------------------------------------------------------------------------
\* Two indexes of a ring that are less than its size apart have different slots.
LEMMA IndexInRing ==
  ASSUME NEW n \in Nat \ {0}, NEW a \in Nat
  PROVE  a % n \in 0 .. n - 1
  OBVIOUS

\* Indexes less than a round of the ring apart have slots of their own.
LEMMA IndexesApart ==
  ASSUME NEW n \in Nat \ {0}, NEW a \in Nat, NEW b \in Nat, a < b, b < a + n
  PROVE  a % n # b % n
<1> SUFFICES ASSUME a % n = b % n
             PROVE  FALSE
  OBVIOUS
<1>1. /\ a \div n \in Int /\ b \div n \in Int
      /\ a = n * (a \div n) + (a % n) /\ b = n * (b \div n) + (b % n)
  OBVIOUS
<1> DEFINE q == a \div n
           r == b \div n
<1>2. q \in Int /\ r \in Int /\ b - a = n * r - n * q
  BY <1>1
<1> HIDE DEF q, r
<1>3. n * r - n * q = n * (r - q)
  BY <1>2
<1>4. CASE r <= q
  <2>1. n * (r - q) <= 0
    BY <1>2, <1>4
  <2> QED
    BY <1>2, <1>3, <2>1
<1>5. CASE q < r
  <2>1. n * (r - q) >= n
    BY <1>2, <1>5
  <2> QED
    BY <1>2, <1>3, <2>1
<1> QED
  BY <1>2, <1>4, <1>5

\* A sequence of which nothing is left had one element.
LEMMA LastOfSeq ==
  ASSUME NEW D, NEW s \in Seq(D), s # <<>>, Tail(s) = <<>>
  PROVE  Len(s) = 1
<1>1. Len(Tail(s)) = Len(s) - 1 /\ Len(s) \in Nat
  OBVIOUS
<1> DEFINE t == Tail(s)
<1>2. t = <<>>
  OBVIOUS
<1> HIDE DEF t
<1>3. Len(t) = 0
  BY <1>2
<1> QED
  BY <1>1, <1>3 DEF t

\* A new diode has empty slots.
LEMMA EmptyIs ==
  ASSUME NEW n \in Nat \ {0}, NEW D
  PROVE  /\ EmptyDiode(n) \in Diodes(n, D)
         /\ \A i \in 0 .. n - 1 : EmptyDiode(n).slots[i] = Nothing
         /\ EmptyDiode(n).readIndex = 0 /\ EmptyDiode(n).writeIndex = 0
  BY DEF EmptyDiode, Diodes

\* The diode after a Set.
LEMMA SetIs ==
  ASSUME NEW n \in Nat \ {0}, NEW D, NEW d \in Diodes(n, D), NEW k \in Nat, NEW x \in D
  PROVE  /\ SetAt(d, k, x) \in Diodes(n, D)
         /\ SetAt(d, k, x).readIndex = d.readIndex
         /\ SetAt(d, k, x).writeIndex = k + 1
         /\ k % n \in 0 .. n - 1
         /\ \A i \in 0 .. n - 1 : SetAt(d, k, x).slots[i] =
              IF i = k % n THEN [seq |-> k, data |-> x] ELSE d.slots[i]
<1>1. d.size = n /\ d.slots \in [0 .. n - 1 -> Buckets(D) \cup {Nothing}]
      /\ d.readIndex \in Nat /\ d.writeIndex \in Nat
  BY DEF Diodes
<1>2. k % n \in 0 .. n - 1
  BY IndexInRing
<1>3. [seq |-> k, data |-> x] \in Buckets(D)
  BY DEF Buckets
<1> DEFINE slots == [d.slots EXCEPT ![k % n] = [seq |-> k, data |-> x]]
<1>4. SetAt(d, k, x) = [d EXCEPT !.slots = slots, !.writeIndex = k + 1]
  BY <1>1 DEF SetAt, Diodes
<1>5. slots \in [0 .. n - 1 -> Buckets(D) \cup {Nothing}]
  BY <1>1, <1>2, <1>3
<1>6. \A i \in 0 .. n - 1 : slots[i] =
        IF i = k % n THEN [seq |-> k, data |-> x] ELSE d.slots[i]
  BY <1>1
<1> HIDE DEF slots
<1>7. /\ SetAt(d, k, x).slots = slots /\ SetAt(d, k, x).readIndex = d.readIndex
      /\ SetAt(d, k, x).writeIndex = k + 1
  BY <1>4 DEF Diodes
<1> DEFINE next == k + 1
<1>n. next \in Nat
  OBVIOUS
<1> HIDE DEF next
<1>8. SetAt(d, k, x) \in Diodes(n, D)
  <2>1. SetAt(d, k, x) = [d EXCEPT !.slots = slots, !.writeIndex = next]
    BY <1>4 DEF next
  <2> QED
    BY <1>5, <1>n, <2>1 DEF Diodes
<1> QED
  BY <1>2, <1>6, <1>7, <1>8

\* The diode after TryNext, whose slot is the reader's next.
LEMMA ReadIs ==
  ASSUME NEW n \in Nat \ {0}, NEW D, NEW d \in Diodes(n, D)
  PROVE  /\ Read(d) \in Diodes(n, D)
         /\ Read(d).readIndex = IF Found(d) THEN NextBucket(d).seq + 1 ELSE d.readIndex
         /\ Read(d).writeIndex = d.writeIndex
         /\ d.readIndex % n \in 0 .. n - 1
         /\ NextBucket(d) = d.slots[d.readIndex % n]
         /\ Found(d) => NextBucket(d) \in Buckets(D)
         /\ \A i \in 0 .. n - 1 : Read(d).slots[i] =
              IF i = d.readIndex % n THEN Nothing ELSE d.slots[i]
<1> DEFINE k == d.readIndex % n
<1>1. d.size = n /\ d.slots \in [0 .. n - 1 -> Buckets(D) \cup {Nothing}]
      /\ d.readIndex \in Nat /\ d.writeIndex \in Nat
  BY DEF Diodes
<1>2. k \in 0 .. n - 1
  BY <1>1, IndexInRing
<1>3. NextBucket(d) = d.slots[k] /\ (Found(d) => NextBucket(d) \in Buckets(D))
  BY <1>1, <1>2 DEF NextBucket, Found
<1>4. Found(d) => NextBucket(d).seq \in Nat
  BY <1>3 DEF Buckets
<1> DEFINE slots == [d.slots EXCEPT ![k] = Nothing]
           next == IF Found(d) THEN NextBucket(d).seq + 1 ELSE d.readIndex
<1>5. Read(d) = [d EXCEPT !.slots = slots, !.readIndex = next]
  BY <1>1 DEF Read, Diodes
<1>6. slots \in [0 .. n - 1 -> Buckets(D) \cup {Nothing}] /\ next \in Nat
  BY <1>1, <1>2, <1>4
<1>7. \A i \in 0 .. n - 1 : slots[i] = IF i = k THEN Nothing ELSE d.slots[i]
  BY <1>1
<1> HIDE DEF slots, next
<1>8. /\ Read(d).slots = slots /\ Read(d).readIndex = next
      /\ Read(d).writeIndex = d.writeIndex
  BY <1>5 DEF Diodes
<1>9. Read(d) \in Diodes(n, D)
  BY <1>5, <1>6 DEF Diodes
<1> QED
  BY <1>2, <1>3, <1>7, <1>8, <1>9 DEF next

\* A diode holds what was Set.
LEMMA ContentsIn ==
  ASSUME NEW n \in Nat \ {0}, NEW D, NEW d \in Diodes(n, D)
  PROVE  Contents(d) \subseteq D
  BY DEF Diodes, Buckets, Contents
-----------------------------------------------------------------------------
\* A call that is looked up is the entry node's and has envelopes left; a part that
\* goes to a peer is not empty; an idle handler has nothing.
CallOK(k) ==
  /\ k.at = "lookup" => k.node = Entry /\ k.batch # <<>>
  /\ k.at \in {"set", "store"} => k.to # k.node /\ k.parts[k.to] # <<>>
  /\ k.at = "idle" => k = NoCall

NozzleInv == NozzleTypeOK /\ \A i \in DOMAIN ch : ch[i] # <<>>

ProxyInv == ProxyTypeOK /\ \A h \in Handlers : CallOK(handler[h])

TypeInv == TypeOK /\ NozzleInv /\ ProxyInv

\* What the assumptions on constants come to.
LEMMA IngressConstants ==
  /\ Entry \in Nodes /\ NewRoutes \subseteq SUBSET Nodes /\ MaxFaults \in Nat
  /\ NoCaller \notin Callers /\ Callers = Writers \cup Peers \cup {Syslog}
  /\ Streamed \subseteq Envelopes /\ Cardinality(Streamed) \in Nat
  /\ Streamed = 1 .. Cardinality(Streamed)
  /\ Cardinality(Messages) \in Nat /\ Messages = 1 .. Cardinality(Messages)
  /\ \A m \in Messages : EnvelopeOf(m) \in Envelopes
  /\ StreamBufferSize \in Nat \ {0} /\ BATCH_CHANNEL_SIZE \in Nat \ {0}
  /\ ChannelSize \in Nat \ {0}
  /\ PeerBufferSize \in Nat \ {0} /\ PeerBatchSize \in Nat \ {0}
  /\ \A p \in Peers : p[1] \in Nodes /\ p[2] \in Nodes /\ p[1] # p[2]
  /\ \A m, n \in Nodes : m # n => <<m, n>> \in Peers
  /\ Handlers \subseteq Nat
<1>1. Cardinality(Streamed) \in Nat /\ Cardinality(Messages) \in Nat
  BY NozzleAssumption, SyslogAssumption, FS_CardinalityType
<1>2. Cardinality(Handlers) \in Nat
  BY IngressProxyAssumption, FS_CardinalityType
<1>3. Handlers \subseteq Nat
  BY <1>2, IngressProxyAssumption
<1>4. \A m \in Messages : EnvelopeOf(m) \in Envelopes
  BY IngressAssumption DEF EnvelopeOf
<1>5. Streamed \subseteq Envelopes
  BY IngressAssumption
<1>6. /\ \A p \in Peers : p[1] \in Nodes /\ p[2] \in Nodes /\ p[1] # p[2]
      /\ \A m, n \in Nodes : m # n => <<m, n>> \in Peers
  BY DEF Peers
<1> QED
  BY <1>1, <1>3, <1>4, <1>5, <1>6, NozzleAssumption, SyslogAssumption,
     IngressProxyAssumption, IngressAssumption

\* A handler without a call.
LEMMA NoCallIs ==
  /\ NoCall \in Calls /\ CallOK(NoCall)
  /\ NoCall.at = "idle" /\ NoCall.caller = NoCaller
  /\ NoCall.batch = <<>> /\ NoCall.parts = NoParts
  /\ \A n \in Nodes : NoParts[n] = <<>>
<1> DEFINE any == CHOOSE n \in Nodes : TRUE
<1>1. any \in Nodes
  BY IngressConstants
<1> HIDE DEF any
<1>2. NoCall = [at |-> "idle", node |-> any, caller |-> NoCaller, batch |-> <<>>,
                parts |-> NoParts, to |-> any, index |-> 0]
  BY DEF NoCall, any
<1>3. NoParts \in [Nodes -> Seq(Envelopes)] /\ \A n \in Nodes : NoParts[n] = <<>>
  BY DEF NoParts
<1>4. NoCall \in Calls
  BY <1>1, <1>2, <1>3 DEF Calls
<1> QED
  BY <1>2, <1>3, <1>4 DEF CallOK

\* The first idle handler is one.
LEMMA FirstIdle ==
  ASSUME Idle # {}
  PROVE  Min(Idle) \in Handlers /\ handler[Min(Idle)].at = "idle"
<1>1. Idle \subseteq Nat
  BY IngressConstants DEF Idle
<1>2. \E x \in Idle : \A y \in Idle : <<y, x>> \notin OpToRel(<, Nat)
  BY <1>1, NatLessThanWellFounded, WFMin
<1>l. OpToRel(<, Nat) = {ss \in Nat \X Nat : ss[1] < ss[2]}
  BY DEF OpToRel
<1>3. \E x \in Idle : \A y \in Idle : x <= y
  <2>1. PICK x \in Idle : \A y \in Idle : <<y, x>> \notin OpToRel(<, Nat)
    BY <1>2
  <2>2. \A y \in Idle : ~ (y < x)
    BY <1>1, <1>l, <2>1
  <2> QED
    BY <1>1, <2>2
<1>4. Min(Idle) \in Idle
  BY <1>3 DEF Min
<1> QED
  BY <1>4 DEF Idle

\* What a handler begins with.
Begun(k, caller, n, at, queue, parts) ==
  /\ k \in Calls /\ k.node = n /\ k.caller = caller /\ k.at = at
  /\ k.batch = queue /\ k.parts = parts

\* A handler that a call has begun in.
LEMMA BegunIs ==
  ASSUME NEW caller \in Callers, NEW n \in Nodes, NEW at \in {"send", "lookup"},
         NEW queue \in Seq(Envelopes), NEW parts \in [Nodes -> Seq(Envelopes)]
  PROVE  Begun([NoCall EXCEPT !.node = n, !.caller = caller, !.at = at,
                              !.batch = queue, !.parts = parts],
               caller, n, at, queue, parts)
  BY NoCallIs DEF Begun, Calls

EntrySend(caller, batch) == Send(caller, Entry, batch, FALSE)
LocalSend(caller, n, batch) == Send(caller, n, batch, TRUE)

\* A Send to the entry node is looked up envelope by envelope.
LEMMA EntrySendIs ==
  ASSUME NEW caller \in Callers, NEW batch \in Seq(Envelopes),
         EntrySend(caller, batch)
  PROVE  \E h \in Handlers : \E k :
           /\ Begun(k, caller, Entry, "lookup", batch, NoParts)
           /\ handler[h].at = "idle" /\ handler' = [handler EXCEPT ![h] = k]
<1> DEFINE k == [NoCall EXCEPT !.node = Entry, !.caller = caller, !.at = "lookup",
                               !.batch = batch, !.parts = NoParts]
<1>1. handler' = [handler EXCEPT ![Min(Idle)] = k] /\ Idle # {}
  BY DEF EntrySend, Send
<1>2. NoParts \in [Nodes -> Seq(Envelopes)]
  BY DEF NoParts
<1>3. Begun(k, caller, Entry, "lookup", batch, NoParts)
  BY <1>2, BegunIs, IngressConstants
<1> HIDE DEF k
<1> QED
  BY <1>1, <1>3, FirstIdle

\* A local_only Send has one part, for the store of its node.
LEMMA LocalSendIs ==
  ASSUME NEW caller \in Callers, NEW n \in Nodes, NEW batch \in Seq(Envelopes),
         LocalSend(caller, n, batch)
  PROVE  \E h \in Handlers : \E k :
           /\ Begun(k, caller, n, "send", <<>>, [NoParts EXCEPT ![n] = batch])
           /\ handler[h].at = "idle" /\ handler' = [handler EXCEPT ![h] = k]
<1> DEFINE parts == [NoParts EXCEPT ![n] = batch]
           k == [NoCall EXCEPT !.node = n, !.caller = caller, !.at = "send",
                               !.batch = <<>>, !.parts = parts]
<1>1. handler' = [handler EXCEPT ![Min(Idle)] = k] /\ Idle # {}
  BY DEF LocalSend, Send
<1>p. NoParts \in [Nodes -> Seq(Envelopes)]
  BY DEF NoParts
<1>2. parts \in [Nodes -> Seq(Envelopes)] /\ <<>> \in Seq(Envelopes)
  BY <1>p
<1> HIDE DEF parts
<1>3. Begun(k, caller, n, "send", <<>>, parts)
  BY <1>2, BegunIs
<1> HIDE DEF k
<1> QED
  BY <1>1, <1>3, FirstIdle DEF parts
-----------------------------------------------------------------------------
\* A handler's call becomes k.
Became(h, k) == k \in Calls /\ CallOK(k) /\ handler' = [handler EXCEPT ![h] = k]

\* The fields of a call.
LEMMA CallTyped ==
  ASSUME NEW c \in Calls
  PROVE  /\ c.at \in {"idle", "lookup", "send", "set", "store", "done"}
         /\ c.node \in Nodes /\ c.caller \in Callers \cup {NoCaller}
         /\ c.batch \in Seq(Envelopes) /\ c.parts \in [Nodes -> Seq(Envelopes)]
         /\ c.to \in Nodes /\ c.index \in Nat
  BY DEF Calls

\* What each step of a handler makes of its call, of the peers and of the store.
LEMMA LookUpIs ==
  ASSUME ProxyInv, NEW h \in Handlers, LookUp(h)
  PROVE  LET c == handler[h] IN
         /\ UNCHANGED <<routes, peer, stored>>
         /\ c.node = Entry /\ c.batch # <<>> /\ Head(c.batch) \in Envelopes
         /\ \E k : /\ Became(h, k) /\ k.caller = c.caller /\ k.batch = Tail(c.batch)
                   /\ \A n \in Nodes : k.parts[n] =
                        IF n \in routes[Entry][SourceOf(Head(c.batch))]
                        THEN Append(c.parts[n], Head(c.batch)) ELSE c.parts[n]
<1> DEFINE c == handler[h]
           e == Head(c.batch)
           idxs == routes[c.node][SourceOf(e)]
           parts == [n \in Nodes |-> IF n \in idxs THEN Append(c.parts[n], e) ELSE c.parts[n]]
           at == IF Len(c.batch) = 1 THEN "send" ELSE "lookup"
           k == [c EXCEPT !.batch = Tail(c.batch), !.at = at, !.parts = parts]
<1>1. c \in Calls /\ CallOK(c) /\ c.at = "lookup"
  BY DEF ProxyInv, ProxyTypeOK, LookUp
<1>2. handler' = [handler EXCEPT ![h] = k] /\ UNCHANGED <<routes, peer, stored>>
  BY DEF LookUp
<1>3. c.node = Entry /\ c.batch # <<>> /\ c.batch \in Seq(Envelopes)
  BY <1>1, CallTyped DEF CallOK
<1>4. e \in Envelopes /\ Tail(c.batch) \in Seq(Envelopes)
      /\ Len(Tail(c.batch)) = Len(c.batch) - 1 /\ Len(c.batch) \in Nat
  BY <1>3
<1>5. at # "send" => Tail(c.batch) # <<>>
  BY <1>3, LastOfSeq
<1>6. parts \in [Nodes -> Seq(Envelopes)]
  BY <1>1, <1>4, CallTyped
<1>7. at \in {"send", "lookup"}
  OBVIOUS
<1>8. \A n \in Nodes : parts[n] = IF n \in routes[Entry][SourceOf(e)]
                                   THEN Append(c.parts[n], e) ELSE c.parts[n]
  BY <1>3
<1> HIDE DEF parts, at, c
<1>9. /\ k.batch = Tail(c.batch) /\ k.at = at /\ k.parts = parts
      /\ k.node = c.node /\ k.caller = c.caller
  BY <1>1 DEF Calls
<1>10. k \in Calls
  BY <1>1, <1>4, <1>6, <1>7 DEF Calls
<1>11. CallOK(k)
  BY <1>3, <1>5, <1>7, <1>9 DEF CallOK
<1> HIDE DEF k
<1> QED
  BY <1>2, <1>3, <1>4, <1>8, <1>9, <1>10, <1>11 DEF Became, c

\* The part of its own node is put and gone.
LEMMA PutLocallyIs ==
  ASSUME ProxyInv, NEW h \in Handlers, PutLocally(h)
  PROVE  LET c == handler[h] IN
         /\ UNCHANGED <<routes, peer>>
         /\ stored' \in [Nodes -> [Envelopes -> 0 .. 2]]
         /\ \A n \in Nodes, e \in Envelopes : stored'[n][e] =
              IF n = c.node /\ e \in Range(c.parts[n])
              THEN (IF stored[n][e] = 2 THEN 2 ELSE stored[n][e] + 1) ELSE stored[n][e]
         /\ \E k : /\ Became(h, k) /\ k.caller = c.caller /\ k.batch = c.batch
                   /\ k.parts = [c.parts EXCEPT ![c.node] = <<>>]
<1> DEFINE c == handler[h]
           here == Range(c.parts[c.node])
           parts == [c.parts EXCEPT ![c.node] = <<>>]
           k == [c EXCEPT !.parts = parts]
           now == [e \in Envelopes |->
                    IF e \in here THEN Min({stored[c.node][e] + 1, 2}) ELSE stored[c.node][e]]
<1>1. c \in Calls /\ c.at = "send" /\ stored \in [Nodes -> [Envelopes -> 0 .. 2]]
  BY DEF ProxyInv, ProxyTypeOK, PutLocally
<1>2. /\ handler' = [handler EXCEPT ![h] = k] /\ UNCHANGED <<routes, peer>>
      /\ stored' = [stored EXCEPT ![c.node] = now]
  BY DEF PutLocally
<1>3. c.node \in Nodes /\ parts \in [Nodes -> Seq(Envelopes)]
  BY <1>1, CallTyped
<1>4. ASSUME NEW x \in 0 .. 2
      PROVE  Min({x + 1, 2}) = IF x = 2 THEN 2 ELSE x + 1
  <2> DEFINE least == IF x = 2 THEN 2 ELSE x + 1
  <2>1. least \in {x + 1, 2} /\ \A y \in {x + 1, 2} : least <= y
    OBVIOUS
  <2>2. \A y \in {x + 1, 2} : (\A z \in {x + 1, 2} : y <= z) => y = least
    OBVIOUS
  <2> HIDE DEF least
  <2>3. Min({x + 1, 2}) = least
    BY <2>1, <2>2 DEF Min
  <2> QED
    BY <2>3 DEF least
<1>5. \A e \in Envelopes : stored[c.node][e] \in 0 .. 2
  BY <1>1, <1>3
<1>6. \A e \in Envelopes : now[e] =
        IF e \in here THEN (IF stored[c.node][e] = 2 THEN 2 ELSE stored[c.node][e] + 1)
        ELSE stored[c.node][e]
  BY <1>4, <1>5
<1>7. now \in [Envelopes -> 0 .. 2]
  <2>1. \A e \in Envelopes : now[e] \in 0 .. 2
    BY <1>5, <1>6
  <2> QED
    BY <2>1
<1> HIDE DEF parts, now, c
<1>8. k.parts = parts /\ k.batch = c.batch /\ k.at = "send" /\ k.caller = c.caller
  BY <1>1 DEF Calls
<1>9. k \in Calls
  BY <1>1, <1>3 DEF Calls
<1>10. Became(h, k)
  BY <1>2, <1>8, <1>9 DEF Became, CallOK
<1>11. /\ stored' \in [Nodes -> [Envelopes -> 0 .. 2]]
       /\ \A n \in Nodes : stored'[n] = IF n = c.node THEN now ELSE stored[n]
  BY <1>1, <1>2, <1>3, <1>7
<1> HIDE DEF k
<1> QED
  BY <1>2, <1>3, <1>6, <1>8, <1>10, <1>11 DEF parts, c

\* A handler turns to the part of a peer.
LEMMA SendToPeerIs ==
  ASSUME ProxyInv, NEW h \in Handlers, SendToPeer(h)
  PROVE  LET c == handler[h] IN
         /\ UNCHANGED <<routes, peer, stored>>
         /\ \E k : /\ Became(h, k) /\ k.caller = c.caller /\ k.batch = c.batch
                   /\ k.parts = c.parts
<1> DEFINE c == handler[h]
<1>1. c \in Calls
  BY DEF ProxyInv, ProxyTypeOK
<1>2. PICK n \in Nodes \ {c.node} :
        /\ c.parts[n] # <<>>
        /\ handler' = [handler EXCEPT ![h] = [c EXCEPT !.at = "set", !.to = n]]
  BY DEF SendToPeer
<1> HIDE DEF c
<1> DEFINE k == [c EXCEPT !.at = "set", !.to = n]
<1>3. /\ k \in Calls /\ k.at = "set" /\ k.to = n /\ k.node = c.node
      /\ k.caller = c.caller /\ k.batch = c.batch /\ k.parts = c.parts
  BY <1>1 DEF Calls
<1>4. handler' = [handler EXCEPT ![h] = k]
  BY <1>2
<1> HIDE DEF k
<1>5. Became(h, k)
  BY <1>2, <1>3, <1>4 DEF Became, CallOK
<1> QED
  BY <1>3, <1>5 DEF SendToPeer, c

\* The first half of Set on a diode loads the write index.
LEMMA LoadIndexIs ==
  ASSUME ProxyInv, NEW h \in Handlers, LoadIndex(h)
  PROVE  LET c == handler[h] IN
         /\ UNCHANGED <<routes, peer, stored>>
         /\ \E k : /\ Became(h, k) /\ k.caller = c.caller /\ k.batch = c.batch
                   /\ k.parts = c.parts
<1> DEFINE c == handler[h]
           index == peer[<<c.node, c.to>>].buffer.writeIndex
           k == [c EXCEPT !.at = "store", !.index = index]
<1>1. c \in Calls /\ CallOK(c) /\ c.at = "set" /\ peer \in [Peers -> PeerStates]
  BY DEF ProxyInv, ProxyTypeOK, LoadIndex
<1>2. handler' = [handler EXCEPT ![h] = k] /\ UNCHANGED <<routes, peer, stored>>
  BY DEF LoadIndex
<1>3. c.to # c.node /\ c.parts[c.to] # <<>>
  BY <1>1 DEF CallOK
<1>4. <<c.node, c.to>> \in Peers
  BY <1>1, <1>3, CallTyped, IngressConstants
<1>5. index \in Nat
  BY <1>1, <1>4 DEF PeerStates, Diodes
<1> HIDE DEF c, index
<1>6. /\ k \in Calls /\ k.at = "store" /\ k.to = c.to /\ k.node = c.node
      /\ k.caller = c.caller /\ k.batch = c.batch /\ k.parts = c.parts
  BY <1>1, <1>5 DEF Calls
<1> HIDE DEF k
<1>7. Became(h, k)
  BY <1>2, <1>3, <1>6 DEF Became, CallOK
<1> QED
  BY <1>2, <1>6, <1>7 DEF c

\* The second half stores the head of the part.
LEMMA StoreBucketIs ==
  ASSUME ProxyInv, NEW h \in Handlers, StoreBucket(h)
  PROVE  LET c == handler[h]
             p == <<c.node, c.to>>
             d == peer[p].buffer
         IN
         /\ UNCHANGED <<routes, stored>>
         /\ p \in Peers /\ c.to \in Nodes /\ c.parts[c.to] # <<>>
         /\ d \in Diodes(PeerBufferSize, Envelopes) /\ c.index \in Nat
         /\ Head(c.parts[c.to]) \in Envelopes
         /\ \E s : /\ s.buffer = SetAt(d, c.index, Head(c.parts[c.to]))
                   /\ s \in PeerStates /\ s.batch = peer[p].batch
                   /\ s.sending = peer[p].sending
                   /\ peer' = [peer EXCEPT ![p] = s]
         /\ \E k : /\ Became(h, k) /\ k.caller = c.caller /\ k.batch = c.batch
                   /\ k.parts = [c.parts EXCEPT ![c.to] = Tail(c.parts[c.to])]
<1> DEFINE c == handler[h]
           p == <<c.node, c.to>>
           part == c.parts[c.to]
           d == peer[p].buffer
           set == SetAt(d, c.index, Head(part))
           s == [peer[p] EXCEPT !.buffer = set]
           at == IF Len(part) = 1 THEN "send" ELSE "set"
           parts == [c.parts EXCEPT ![c.to] = Tail(part)]
           k == [c EXCEPT !.at = at, !.parts = parts, !.index = 0]
<1>1. c \in Calls /\ CallOK(c) /\ c.at = "store" /\ peer \in [Peers -> PeerStates]
  BY DEF ProxyInv, ProxyTypeOK, StoreBucket
<1>2. /\ handler' = [handler EXCEPT ![h] = k] /\ peer' = [peer EXCEPT ![p] = s]
      /\ UNCHANGED <<routes, stored>>
  BY DEF StoreBucket
<1>3. c.to # c.node /\ part # <<>> /\ c.to \in Nodes /\ c.index \in Nat
      /\ c.parts \in [Nodes -> Seq(Envelopes)]
  BY <1>1, CallTyped DEF CallOK
<1>4. p \in Peers
  BY <1>1, <1>3, CallTyped, IngressConstants
<1>5. peer[p] \in PeerStates
  BY <1>1, <1>4
<1>6. d \in Diodes(PeerBufferSize, Envelopes)
  BY <1>5 DEF PeerStates
<1>7. part \in Seq(Envelopes)
  BY <1>3
<1>8. /\ Head(part) \in Envelopes /\ Tail(part) \in Seq(Envelopes)
      /\ Len(Tail(part)) = Len(part) - 1 /\ Len(part) \in Nat
  BY <1>3, <1>7
<1>9. set \in Diodes(PeerBufferSize, Envelopes)
  BY <1>3, <1>6, <1>8, SetIs, IngressConstants
<1>10. at # "send" => Tail(part) # <<>>
  BY <1>3, <1>7, LastOfSeq
<1>11. /\ parts \in [Nodes -> Seq(Envelopes)] /\ parts[c.to] = Tail(part)
       /\ at \in {"send", "set"}
  BY <1>3, <1>8
<1> HIDE DEF c, p, part, set, at, parts
<1>12. s \in PeerStates /\ s.buffer = set /\ s.batch = peer[p].batch
       /\ s.sending = peer[p].sending
  BY <1>5, <1>9 DEF PeerStates
<1>0. 0 \in Nat
  OBVIOUS
<1>13. /\ k \in Calls /\ k.at = at /\ k.to = c.to /\ k.node = c.node /\ k.parts = parts
       /\ k.caller = c.caller /\ k.batch = c.batch
  BY <1>0, <1>1, <1>11 DEF Calls
<1> HIDE DEF k, s
<1>14. Became(h, k)
  BY <1>2, <1>3, <1>10, <1>11, <1>13 DEF Became, CallOK
<1> QED
  BY <1>2, <1>3, <1>4, <1>6, <1>8, <1>12, <1>13, <1>14 DEF c, p, part, set, parts

\* A handler that is through with all parts responds.
LEMMA RespondIs ==
  ASSUME ProxyInv, NEW h \in Handlers, Respond(h)
  PROVE  LET c == handler[h] IN
         /\ UNCHANGED <<routes, peer, stored>>
         /\ \E k : /\ Became(h, k) /\ k.caller = c.caller
                   /\ k.batch \in {c.batch, <<>>} /\ k.parts = c.parts
<1> DEFINE c == handler[h]
           d == [c EXCEPT !.at = "done"]
<1>1. c \in Calls /\ handler \in [Handlers -> Calls] /\ c.parts = NoParts
  BY DEF ProxyInv, ProxyTypeOK, Respond
<1>2. handler' = [handler EXCEPT ![h] = IF c.caller = NoCaller THEN NoCall ELSE d]
      /\ UNCHANGED <<routes, peer, stored>>
  BY <1>1 DEF Respond
<1> HIDE DEF c
<1>3. d \in Calls /\ d.at = "done" /\ d.caller = c.caller /\ d.batch = c.batch
      /\ d.parts = c.parts
  BY <1>1 DEF Calls
<1> HIDE DEF d
<1>4. CallOK(d)
  BY <1>3 DEF CallOK
<1>5. CASE c.caller = NoCaller
  <2>1. Became(h, NoCall)
    BY <1>2, <1>5, NoCallIs DEF Became
  <2> QED
    BY <1>1, <1>2, <1>5, <2>1, NoCallIs DEF c
<1>6. CASE c.caller # NoCaller
  <2>1. Became(h, d)
    BY <1>2, <1>3, <1>4, <1>6 DEF Became
  <2> QED
    BY <1>2, <1>3, <2>1 DEF c
<1> QED
  BY <1>5, <1>6

\* A call ends, or goes on without its caller: its envelopes stay or go.
LEMMA ReturnsIs ==
  ASSUME ProxyInv, NEW caller \in Callers, Returns(caller) \/ Abandon(caller)
  PROVE  \E h \in Handlers : \E k :
           /\ Became(h, k) /\ handler[h].caller = caller /\ k.caller = NoCaller
           /\ \/ k = NoCall
              \/ k.batch = handler[h].batch /\ k.parts = handler[h].parts
<1>t. handler \in [Handlers -> Calls] /\ \A h \in Handlers : CallOK(handler[h])
  BY DEF ProxyInv, ProxyTypeOK
<1>1. CASE Returns(caller)
  <2>1. PICK h \in Handlers : handler[h].caller = caller
                             /\ handler' = [handler EXCEPT ![h] = NoCall]
    BY <1>1 DEF Returns
  <2>2. Became(h, NoCall)
    BY <2>1, NoCallIs DEF Became
  <2> QED
    BY <2>1, <2>2, NoCallIs
<1>2. CASE Abandon(caller)
  <2>1. PICK h \in Handlers :
          /\ handler[h].caller = caller
          /\ handler' = [handler EXCEPT ![h] =
               IF @.at = "done" THEN NoCall ELSE [@ EXCEPT !.caller = NoCaller]]
    BY <1>2 DEF Abandon
  <2> DEFINE c == handler[h]
             d == [c EXCEPT !.caller = NoCaller]
  <2>2. handler' = [handler EXCEPT ![h] = IF c.at = "done" THEN NoCall ELSE d]
    BY <1>t, <2>1
  <2>3. c \in Calls /\ CallOK(c) /\ c.caller = caller
    BY <1>t, <2>1
  <2> HIDE DEF c
  <2>4. /\ d \in Calls /\ d.at = c.at /\ d.caller = NoCaller /\ d.batch = c.batch
        /\ d.parts = c.parts /\ d.to = c.to /\ d.node = c.node
    BY <2>3 DEF Calls
  <2> HIDE DEF d
  <2>5. c.at # "idle"
    BY <2>3, NoCallIs, IngressConstants DEF CallOK
  <2>6. CallOK(d)
    BY <2>3, <2>4, <2>5 DEF CallOK
  <2>7. CASE c.at = "done"
    <3>1. Became(h, NoCall)
      BY <2>2, <2>7, NoCallIs DEF Became
    <3> QED
      BY <2>1, <3>1, NoCallIs
  <2>8. CASE c.at # "done"
    <3>1. Became(h, d)
      BY <2>2, <2>4, <2>6, <2>8 DEF Became
    <3> QED
      BY <2>1, <2>4, <3>1 DEF c
  <2> QED
    BY <2>7, <2>8
<1> QED
  BY <1>1, <1>2

\* What an iteration of a peer's batcher has gathered.
Gathered(s) ==
  IF Found(s.buffer) THEN Append(s.batch, NextBucket(s.buffer).data) ELSE s.batch

\* The batcher of a peer reads one envelope and flushes, or not.
LEMMA BatchForPeerIs ==
  ASSUME ProxyInv, NEW p \in Peers, NEW lapsed \in BOOLEAN, BatchForPeer(p, lapsed)
  PROVE  LET b == Gathered(peer[p])
             flush == FlushPeer(p, b, lapsed)
         IN
         /\ UNCHANGED <<routes, handler, stored>>
         /\ peer[p] \in PeerStates /\ peer[p].sending = <<>> /\ b \in Seq(Envelopes)
         /\ \E s : /\ s \in PeerStates /\ Len(s.batch) < PeerBatchSize
                   /\ s.buffer = Read(peer[p].buffer)
                   /\ s.batch = IF flush THEN <<>> ELSE b
                   /\ s.sending = IF flush THEN b ELSE <<>>
                   /\ peer' = [peer EXCEPT ![p] = s]
<1> DEFINE d == peer[p].buffer
           b == Gathered(peer[p])
           flush == FlushPeer(p, b, lapsed)
           kept == IF flush THEN <<>> ELSE b
           sent == IF flush THEN b ELSE <<>>
           s == [buffer |-> Read(d), batch |-> kept, sending |-> sent]
<1>1. peer[p] \in PeerStates /\ peer[p].sending = <<>>
  BY DEF ProxyInv, ProxyTypeOK, BatchForPeer
<1>2. peer' = [peer EXCEPT ![p] = s] /\ UNCHANGED <<routes, handler, stored>>
  BY DEF BatchForPeer, Gathered
<1>3. d \in Diodes(PeerBufferSize, Envelopes) /\ peer[p].batch \in Seq(Envelopes)
  BY <1>1 DEF PeerStates
<1>4. /\ Read(d) \in Diodes(PeerBufferSize, Envelopes)
      /\ Found(d) => NextBucket(d) \in Buckets(Envelopes)
  BY <1>3, ReadIs, IngressConstants
<1>5. b \in Seq(Envelopes)
  <2>1. Found(d) => NextBucket(d).data \in Envelopes
    BY <1>4 DEF Buckets
  <2> QED
    BY <1>3, <2>1 DEF Gathered
<1>6. Len(b) \in Nat /\ (~flush => Len(b) < PeerBatchSize)
  BY <1>5, IngressConstants DEF FlushPeer
<1>7. kept \in Seq(Envelopes) /\ sent \in Seq(Envelopes) /\ Len(kept) < PeerBatchSize
  <2> HIDE DEF b, flush
  <2> QED
    BY <1>5, <1>6, IngressConstants
<1> HIDE DEF kept, sent, d
<1>8. s \in PeerStates
  BY <1>4, <1>7 DEF PeerStates
<1>9. s.buffer = Read(d) /\ s.batch = kept /\ s.sending = sent
  OBVIOUS
<1> HIDE DEF s
<1>10. \E r : /\ r \in PeerStates /\ Len(r.batch) < PeerBatchSize
              /\ r.buffer = Read(d) /\ r.batch = kept /\ r.sending = sent
              /\ peer' = [peer EXCEPT ![p] = r]
  BY <1>2, <1>7, <1>8, <1>9
<1> QED
  BY <1>1, <1>2, <1>5, <1>10 DEF kept, sent, d

\* One handler changes, and what it shares stays typed.
LEMMA HandlerKept ==
  ASSUME ProxyInv, NEW h \in Handlers, NEW k, Became(h, k),
         routes' \in [Nodes -> [Sources -> SUBSET Nodes]],
         peer' \in [Peers -> PeerStates],
         \A p \in Peers : Len(peer'[p].batch) < PeerBatchSize,
         stored' \in [Nodes -> [Envelopes -> 0 .. 2]]
  PROVE  ProxyInv'
<1>1. handler \in [Handlers -> Calls] /\ \A g \in Handlers : CallOK(handler[g])
  BY DEF ProxyInv, ProxyTypeOK
<1>2. handler' \in [Handlers -> Calls] /\ \A g \in Handlers : CallOK(handler'[g])
  BY <1>1 DEF Became
<1> QED
  BY <1>2 DEF ProxyInv, ProxyTypeOK

\* One handler changes, and nothing else.
LEMMA HandlerKeptAlone ==
  ASSUME ProxyInv, NEW h \in Handlers, NEW k, Became(h, k), UNCHANGED <<routes, peer, stored>>
  PROVE  ProxyInv'
<1>1. /\ routes \in [Nodes -> [Sources -> SUBSET Nodes]]
      /\ peer \in [Peers -> PeerStates]
      /\ \A p \in Peers : Len(peer[p].batch) < PeerBatchSize
      /\ stored \in [Nodes -> [Envelopes -> 0 .. 2]]
  BY DEF ProxyInv, ProxyTypeOK
<1> QED
  BY <1>1, HandlerKept

\* Steps of others leave the proxies alone.
LEMMA ProxyUnchanged ==
  ASSUME ProxyInv, UNCHANGED proxyVars
  PROVE  ProxyInv'
  BY DEF ProxyInv, ProxyTypeOK, proxyVars

\* Only a call that is looked up has to be the entry node's, and not empty.
LEMMA EntrySendTyped ==
  ASSUME ProxyInv, UNCHANGED <<routes, peer, stored>>,
         NEW caller \in Callers, NEW batch \in Seq(Envelopes), batch # <<>>,
         EntrySend(caller, batch)
  PROVE  ProxyInv'
<1>1. PICK h \in Handlers : \E k :
        /\ Begun(k, caller, Entry, "lookup", batch, NoParts)
        /\ handler[h].at = "idle" /\ handler' = [handler EXCEPT ![h] = k]
  BY EntrySendIs
<1>2. \E k : Became(h, k)
  BY <1>1 DEF Begun, Became, CallOK
<1> QED
  BY <1>2, HandlerKeptAlone

\* A call to a peer is begun.
LEMMA LocalSendTyped ==
  ASSUME ProxyInv, UNCHANGED <<routes, peer, stored>>,
         NEW caller \in Callers, NEW n \in Nodes, NEW batch \in Seq(Envelopes),
         LocalSend(caller, n, batch)
  PROVE  ProxyInv'
<1>1. PICK h \in Handlers : \E k :
        /\ Begun(k, caller, n, "send", <<>>, [NoParts EXCEPT ![n] = batch])
        /\ handler[h].at = "idle" /\ handler' = [handler EXCEPT ![h] = k]
  BY LocalSendIs
<1>2. \E k : Became(h, k)
  BY <1>1 DEF Begun, Became, CallOK
<1> QED
  BY <1>2, HandlerKeptAlone

\* Every step of a handler keeps the types.
LEMMA HandleTyped ==
  ASSUME ProxyInv, NEW h \in Handlers, HandleSend(h)
  PROVE  ProxyInv'
<1>t. /\ routes \in [Nodes -> [Sources -> SUBSET Nodes]]
      /\ peer \in [Peers -> PeerStates]
      /\ \A p \in Peers : Len(peer[p].batch) < PeerBatchSize
      /\ stored \in [Nodes -> [Envelopes -> 0 .. 2]]
  BY DEF ProxyInv, ProxyTypeOK
<1>1. CASE LookUp(h)
  BY <1>1, LookUpIs, HandlerKeptAlone
<1>2. CASE PutLocally(h)
  <2>1. /\ UNCHANGED <<routes, peer>> /\ stored' \in [Nodes -> [Envelopes -> 0 .. 2]]
        /\ \E k : Became(h, k)
    BY <1>2, PutLocallyIs
  <2> QED
    BY <1>t, <2>1, HandlerKept
<1>3. CASE SendToPeer(h)
  BY <1>3, SendToPeerIs, HandlerKeptAlone
<1>4. CASE LoadIndex(h)
  BY <1>4, LoadIndexIs, HandlerKeptAlone
<1>5. CASE StoreBucket(h)
  <2> DEFINE p == <<handler[h].node, handler[h].to>>
  <2>1. /\ UNCHANGED <<routes, stored>> /\ \E k : Became(h, k)
        /\ \E s \in PeerStates : s.batch = peer[p].batch /\ peer' = [peer EXCEPT ![p] = s]
    BY <1>5, StoreBucketIs
  <2> HIDE DEF p
  <2>2. peer' \in [Peers -> PeerStates] /\ \A q \in Peers : Len(peer'[q].batch) < PeerBatchSize
    BY <1>t, <2>1
  <2> QED
    BY <1>t, <2>1, <2>2, HandlerKept
<1>6. CASE Respond(h)
  BY <1>6, RespondIs, HandlerKeptAlone
<1> QED
  BY <1>1, <1>2, <1>3, <1>4, <1>5, <1>6 DEF HandleSend

\* A call returns, or is given up.
LEMMA ReturnTyped ==
  ASSUME ProxyInv, NEW caller \in Callers, Returns(caller) \/ Abandon(caller),
         UNCHANGED <<routes, stored>>,
         peer' = peer \/ \E p \in Peers : peer' = [peer EXCEPT ![p].sending = <<>>]
  PROVE  ProxyInv'
<1>t. /\ routes \in [Nodes -> [Sources -> SUBSET Nodes]]
      /\ peer \in [Peers -> PeerStates]
      /\ \A p \in Peers : Len(peer[p].batch) < PeerBatchSize
      /\ stored \in [Nodes -> [Envelopes -> 0 .. 2]]
  BY DEF ProxyInv, ProxyTypeOK
<1>1. PICK h \in Handlers : \E k : Became(h, k)
  BY ReturnsIs
<1>2. peer' \in [Peers -> PeerStates] /\ \A q \in Peers : Len(peer'[q].batch) < PeerBatchSize
  <2>1. CASE peer' = peer
    BY <1>t, <2>1
  <2>2. ASSUME NEW p \in Peers, peer' = [peer EXCEPT ![p].sending = <<>>]
        PROVE  peer' \in [Peers -> PeerStates]
               /\ \A q \in Peers : Len(peer'[q].batch) < PeerBatchSize
    <3> DEFINE s == [peer[p] EXCEPT !.sending = <<>>]
    <3>e. peer[p] \in PeerStates /\ <<>> \in Seq(Envelopes)
      BY <1>t, <2>2
    <3>1. s \in PeerStates /\ s.batch = peer[p].batch
      BY <3>e DEF PeerStates
    <3>2. peer' = [peer EXCEPT ![p] = s]
      BY <1>t, <2>2
    <3> HIDE DEF s
    <3> QED
      BY <1>t, <3>1, <3>2
  <2> QED
    BY <2>1, <2>2
<1> QED
  BY <1>t, <1>1, <1>2, HandlerKept
-----------------------------------------------------------------------------
\* The nozzle's steps.
LEMMA ReadTyped ==
  ASSUME NozzleInv, ReadEnvelope
  PROVE  NozzleInv'
<1>1. /\ ingressInc \in Nat /\ ingressInc + 1 \in Streamed
      /\ ingressInc' \in 0 .. Cardinality(Streamed)
  BY IngressConstants DEF NozzleInv, NozzleTypeOK, ReadEnvelope
<1>2. /\ streamBuffer \in Diodes(StreamBufferSize, Streamed)
      /\ streamBuffer.writeIndex \in Nat
  BY DEF NozzleInv, NozzleTypeOK, Diodes
<1>3. streamBuffer' \in Diodes(StreamBufferSize, Streamed)
  BY <1>1, <1>2, SetIs, IngressConstants DEF ReadEnvelope, Set
<1> QED
  BY <1>1, <1>3 DEF NozzleInv, NozzleTypeOK, ReadEnvelope

\* The batch with the envelope that was just read is not too long.
LEMMA CollectedIs ==
  ASSUME NozzleInv
  PROVE  /\ Collected \in Seq(Streamed) /\ Len(Collected) \in 0 .. BATCH_CHANNEL_SIZE
         /\ Found(streamBuffer) => NextBucket(streamBuffer) \in Buckets(Streamed)
         /\ \A fired \in BOOLEAN :
              /\ ~Flushes(fired) => Len(Collected) < BATCH_CHANNEL_SIZE
              /\ Flushes(fired) => Collected # <<>>
<1>1. /\ streamBuffer \in Diodes(StreamBufferSize, Streamed)
      /\ envelopes \in Seq(Streamed) /\ Len(envelopes) < BATCH_CHANNEL_SIZE
      /\ Len(envelopes) \in Nat
  BY DEF NozzleInv, NozzleTypeOK
<1>2. Found(streamBuffer) => NextBucket(streamBuffer) \in Buckets(Streamed)
  BY <1>1, ReadIs, IngressConstants
<1>3. Found(streamBuffer) => NextBucket(streamBuffer).data \in Streamed
  BY <1>2 DEF Buckets
<1>4. Collected \in Seq(Streamed) /\ Len(Collected) \in 0 .. BATCH_CHANNEL_SIZE
  <2>1. CASE Found(streamBuffer)
    <3>1. /\ Append(envelopes, NextBucket(streamBuffer).data) \in Seq(Streamed)
          /\ Len(Append(envelopes, NextBucket(streamBuffer).data)) = Len(envelopes) + 1
      BY <1>1, <1>3, <2>1, AppendProperties
    <3> QED
      BY <1>1, <2>1, <3>1, IngressConstants DEF Collected
  <2>2. CASE ~Found(streamBuffer)
    BY <1>1, <2>2, IngressConstants DEF Collected
  <2> QED
    BY <2>1, <2>2
<1>5. ASSUME NEW fired \in BOOLEAN
      PROVE  /\ ~Flushes(fired) => Len(Collected) < BATCH_CHANNEL_SIZE
             /\ Flushes(fired) => Collected # <<>>
  <2>1. Collected = <<>> => Len(Collected) = 0
    <3> HIDE DEF Collected
    <3> QED
      OBVIOUS
  <2> QED
    BY <1>4, <2>1, IngressConstants DEF Flushes
<1> QED
  BY <1>2, <1>4, <1>5

\* The batcher of the nozzle.
LEMMA BatchTyped ==
  ASSUME NozzleInv, NEW fired \in BOOLEAN, BatchEnvelopes(fired)
  PROVE  NozzleInv'
<1>1. /\ streamBuffer \in Diodes(StreamBufferSize, Streamed)
      /\ ch \in Seq(Seq(Streamed)) /\ Len(ch) <= ChannelSize /\ Len(ch) \in Nat
      /\ \A i \in DOMAIN ch : ch[i] # <<>>
  BY DEF NozzleInv, NozzleTypeOK
<1>2. streamBuffer' \in Diodes(StreamBufferSize, Streamed)
  BY <1>1, ReadIs, IngressConstants DEF BatchEnvelopes
<1>3. /\ ch' = IF Flushes(fired) /\ ~ChannelFull THEN Append(ch, Collected) ELSE ch
      /\ envelopes' = IF Flushes(fired) THEN <<>> ELSE Collected
      /\ UNCHANGED <<ingressInc, egressInc, errInc, writer>>
  BY DEF BatchEnvelopes
<1>4. envelopes' \in Seq(Streamed) /\ Len(envelopes') < BATCH_CHANNEL_SIZE
  <2>1. CASE Flushes(fired)
    BY <1>3, <2>1, IngressConstants
  <2>2. CASE ~Flushes(fired)
    BY <1>3, <2>2, CollectedIs
  <2> QED
    BY <2>1, <2>2
<1>5. /\ ch' \in Seq(Seq(Streamed)) /\ Len(ch') <= ChannelSize
      /\ \A i \in DOMAIN ch' : ch'[i] # <<>>
  <2>1. CASE Flushes(fired) /\ ~ChannelFull
    <3>1. ch' = Append(ch, Collected) /\ Collected \in Seq(Streamed) /\ Collected # <<>>
          /\ Len(ch) # ChannelSize
      BY <1>3, <2>1, CollectedIs DEF ChannelFull
    <3> HIDE DEF Collected
    <3>2. /\ ch' \in Seq(Seq(Streamed)) /\ Len(ch') = Len(ch) + 1
          /\ \A i \in 1 .. Len(ch) : ch'[i] = ch[i]
          /\ ch'[Len(ch) + 1] = Collected
      BY <1>1, <3>1, AppendProperties
    <3>3. DOMAIN ch' = 1 .. Len(ch) + 1 /\ DOMAIN ch = 1 .. Len(ch)
      BY <1>1, <3>2
    <3> QED
      BY <1>1, <3>1, <3>2, <3>3, IngressConstants
  <2>2. CASE ~(Flushes(fired) /\ ~ChannelFull)
    BY <1>1, <1>3, <2>2
  <2> QED
    BY <2>1, <2>2
<1> QED
  BY <1>2, <1>3, <1>4, <1>5 DEF NozzleInv, NozzleTypeOK

\* The channel after its first batch is taken.
LEMMA HeadOfChannel ==
  ASSUME NozzleInv, ch # <<>>
  PROVE  /\ Head(ch) = ch[1] /\ Head(ch) \in Seq(Streamed) /\ Head(ch) # <<>>
         /\ Head(ch) \in Seq(Envelopes)
         /\ Tail(ch) \in Seq(Seq(Streamed)) /\ Len(Tail(ch)) = Len(ch) - 1
         /\ Len(ch) \in Nat \ {0}
         /\ \A i \in 1 .. Len(ch) - 1 : Tail(ch)[i] = ch[i + 1]
<1>1. ch \in Seq(Seq(Streamed)) /\ \A i \in DOMAIN ch : ch[i] # <<>>
  BY DEF NozzleInv, NozzleTypeOK
<1>2. /\ Head(ch) = ch[1] /\ Head(ch) \in Seq(Streamed) /\ Len(ch) \in Nat \ {0}
      /\ Tail(ch) \in Seq(Seq(Streamed)) /\ Len(Tail(ch)) = Len(ch) - 1
      /\ \A i \in 1 .. Len(ch) - 1 : Tail(ch)[i] = ch[i + 1]
  BY <1>1, HeadTailProperties
<1>3. ch[1] # <<>>
  BY <1>1, <1>2
<1>4. Head(ch) \in Seq(Envelopes)
  BY <1>2, IngressConstants
<1> QED
  BY <1>2, <1>3, <1>4

\* A writer takes a batch from the channel.
LEMMA TakeTyped ==
  ASSUME NozzleInv, NEW w \in Writers, TakeBatch(w)
  PROVE  NozzleInv'
<1>1. /\ ch # <<>> /\ writer' = [writer EXCEPT ![w] = Head(ch)] /\ ch' = Tail(ch)
      /\ UNCHANGED <<streamBuffer, ingressInc, egressInc, errInc, envelopes>>
  BY DEF TakeBatch
<1>2. /\ Len(ch) <= ChannelSize /\ \A i \in DOMAIN ch : ch[i] # <<>>
      /\ ch \in Seq(Seq(Streamed)) /\ writer \in [Writers -> Seq(Streamed)]
  BY DEF NozzleInv, NozzleTypeOK
<1>3. /\ ch' \in Seq(Seq(Streamed)) /\ Len(ch') = Len(ch) - 1 /\ Len(ch) \in Nat \ {0}
      /\ \A i \in 1 .. Len(ch) - 1 : ch'[i] = ch[i + 1]
      /\ Head(ch) \in Seq(Streamed)
  BY <1>1, HeadOfChannel
<1>4. \A i \in DOMAIN ch' : ch'[i] # <<>>
  <2>1. DOMAIN ch' = 1 .. Len(ch) - 1 /\ DOMAIN ch = 1 .. Len(ch)
    BY <1>2, <1>3
  <2>2. \A i \in 1 .. Len(ch) - 1 : i + 1 \in 1 .. Len(ch)
    BY <1>3
  <2>3. \A i \in 1 .. Len(ch) - 1 : ch[i + 1] # <<>>
    BY <1>2, <2>1, <2>2
  <2> QED
    BY <1>3, <2>1, <2>3
<1>5. Len(ch') <= ChannelSize
  BY <1>2, <1>3, IngressConstants
<1>6. writer' \in [Writers -> Seq(Streamed)]
  BY <1>1, <1>2, <1>3
<1> QED
  BY <1>1, <1>3, <1>4, <1>5, <1>6 DEF NozzleInv, NozzleTypeOK

\* A writer's Send returns.
LEMMA SentTyped ==
  ASSUME NozzleInv, NEW w \in Writers, NEW err \in BOOLEAN, SendReturns(w, err)
  PROVE  NozzleInv'
<1>1. /\ writer' = [writer EXCEPT ![w] = <<>>]
      /\ errInc' \in {errInc, errInc + 1} /\ egressInc' \in {egressInc, egressInc + Len(writer[w])}
      /\ UNCHANGED <<streamBuffer, ingressInc, envelopes, ch>>
  BY DEF SendReturns
<1>2. /\ writer \in [Writers -> Seq(Streamed)] /\ errInc \in Nat /\ egressInc \in Nat
  BY DEF NozzleInv, NozzleTypeOK
<1>3. Len(writer[w]) \in Nat
  BY <1>2
<1>4. errInc' \in Nat /\ egressInc' \in Nat /\ writer' \in [Writers -> Seq(Streamed)]
  BY <1>1, <1>2, <1>3
<1> QED
  BY <1>1, <1>4 DEF NozzleInv, NozzleTypeOK

\* Steps of others leave the nozzle alone.
LEMMA NozzleUnchanged ==
  ASSUME NozzleInv, UNCHANGED nozzleVars
  PROVE  NozzleInv'
  BY DEF NozzleInv, NozzleTypeOK, nozzleVars

\* The syslog server's steps.
LEMMA ParseTyped ==
  ASSUME SyslogTypeOK, ParseMessage \/ Disconnect
  PROVE  /\ SyslogTypeOK'
         /\ connection'.sending \in {0} \cup Messages
<1> DEFINE m == connection.received + 1
<1>r. connection.received \in Nat /\ ingress \in Nat /\ invalidIngress \in Nat
  BY IngressConstants DEF SyslogTypeOK
<1>g. connection.received < Cardinality(Messages) /\ ingress' = ingress
  BY DEF ParseMessage, Disconnect
<1>1. /\ connection.received \in Nat /\ connection.received < Cardinality(Messages)
      /\ ingress' = ingress /\ ingress \in Nat /\ invalidIngress \in Nat
  BY <1>r, <1>g
<1>2. m \in Messages /\ m \in 0 .. Cardinality(Messages)
  BY <1>1, IngressConstants
<1>3. invalidIngress' \in {invalidIngress, invalidIngress + 1}
  BY DEF ParseMessage, Disconnect
<1>4. \/ connection' = [connection EXCEPT !.received = m, !.sending = m]
      \/ connection' = [connection EXCEPT !.received = m]
      \/ connection' = [connection EXCEPT !.open = FALSE]
  BY DEF ParseMessage, Disconnect
<1> HIDE DEF m
<1>5. connection' \in [open : BOOLEAN, received : 0 .. Cardinality(Messages),
                       sending : Messages \cup {0}]
  BY <1>2, <1>4 DEF SyslogTypeOK
<1> QED
  BY <1>1, <1>3, <1>5 DEF SyslogTypeOK

\* The Send of a syslog message returns.
LEMMA MessageTyped ==
  ASSUME SyslogTypeOK, NEW err \in BOOLEAN, MessageSent(err)
  PROVE  SyslogTypeOK'
  BY DEF SyslogTypeOK, MessageSent
-----------------------------------------------------------------------------
\* All buffers are empty, all handlers idle.
LEMMA InitTypeInv == Init => TypeInv
<1> SUFFICES ASSUME Init
             PROVE  TypeInv
  OBVIOUS
<1>1. NozzleInv
  BY EmptyIs, IngressConstants DEF Init, NozzleInit, NozzleInv, NozzleTypeOK
<1>2. SyslogTypeOK
  BY IngressConstants DEF Init, SyslogInit, SyslogTypeOK
<1>3. NewPeer \in PeerStates /\ Len(NewPeer.batch) < PeerBatchSize
  BY EmptyIs, IngressConstants DEF NewPeer, PeerStates
<1>4. ProxyInv
  <2>1. handler \in [Handlers -> Calls] /\ \A h \in Handlers : CallOK(handler[h])
    BY NoCallIs DEF Init, ProxyInit
  <2>2. peer \in [Peers -> PeerStates] /\ \A p \in Peers : Len(peer[p].batch) < PeerBatchSize
    BY <1>3 DEF Init, ProxyInit
  <2>3. /\ stored \in [Nodes -> [Envelopes -> 0 .. 2]]
        /\ routes \in [Nodes -> [Sources -> SUBSET Nodes]]
    BY IngressAssumption DEF Init, ProxyInit
  <2> QED
    BY <2>1, <2>2, <2>3 DEF ProxyInv, ProxyTypeOK
<1>5. /\ received \subseteq Envelopes /\ everRouted \in [Sources -> SUBSET Nodes]
      /\ mishaps \subseteq Mishaps /\ faults \in 0 .. MaxFaults
  BY IngressAssumption DEF Init
<1> QED
  BY <1>1, <1>2, <1>4, <1>5 DEF TypeInv, TypeOK, NozzleInv, ProxyInv

\* Every step keeps the nozzle typed.
LEMMA NozzleNext == TypeInv /\ [Next]_vars => NozzleInv'
<1> SUFFICES ASSUME TypeInv, [Next]_vars
             PROVE  NozzleInv'
  OBVIOUS
<1>t. NozzleInv
  BY DEF TypeInv
<1>u. ASSUME UNCHANGED nozzleVars
      PROVE  NozzleInv'
  BY <1>t, <1>u, NozzleUnchanged
<1>1. CASE ReadStream
  BY <1>t, <1>1, ReadTyped DEF ReadStream
<1>2. ASSUME NEW b \in BOOLEAN, Batch(b)
      PROVE  NozzleInv'
  BY <1>t, <1>2, BatchTyped DEF Batch
<1>3. ASSUME NEW w \in Writers, Write(w) \/ Written(w) \/ WriteFails(w)
      PROVE  NozzleInv'
  <2>1. TakeBatch(w) \/ SendReturns(w, TRUE) \/ SendReturns(w, FALSE)
    BY <1>3 DEF Write, Written, WriteFails
  <2> QED
    BY <1>t, <2>1, TakeTyped, SentTyped
<1>4. ASSUME NEW p \in Peers, NEW b \in BOOLEAN,
             BatchPeer(p, b) \/ WritePeer(p) \/ PeerCallFails(p)
      PROVE  NozzleInv'
  BY <1>4, <1>u DEF BatchPeer, WritePeer, PeerCallFails
<1>5. ASSUME Parse \/ Forward \/ Forwarded \/ ForwardFails \/ ChangeRoutes
             \/ \E h \in Handlers : Handle(h)
      PROVE  NozzleInv'
  BY <1>5, <1>u DEF Parse, Forward, Forwarded, ForwardFails, ChangeRoutes, Handle
<1>6. CASE UNCHANGED vars
  BY <1>6, <1>u DEF vars
<1> QED
  BY <1>1, <1>2, <1>3, <1>4, <1>5, <1>6 DEF Next

\* Every step keeps the syslog connection typed.
LEMMA SyslogNext == TypeInv /\ [Next]_vars => SyslogTypeOK'
<1> SUFFICES ASSUME TypeInv, [Next]_vars
             PROVE  SyslogTypeOK'
  OBVIOUS
<1>t. SyslogTypeOK
  BY DEF TypeInv, TypeOK
<1>u. ASSUME UNCHANGED syslogVars
      PROVE  SyslogTypeOK'
  BY <1>t, <1>u DEF syslogVars, SyslogTypeOK
<1>1. CASE ReadStream
  BY <1>1, <1>u DEF ReadStream
<1>2. ASSUME NEW b \in BOOLEAN, Batch(b)
      PROVE  SyslogTypeOK'
  BY <1>2, <1>u DEF Batch
<1>3. ASSUME NEW w \in Writers, Write(w) \/ Written(w) \/ WriteFails(w)
      PROVE  SyslogTypeOK'
  BY <1>3, <1>u DEF Write, Written, WriteFails
<1>4. ASSUME NEW p \in Peers, NEW b \in BOOLEAN,
             BatchPeer(p, b) \/ WritePeer(p) \/ PeerCallFails(p)
      PROVE  SyslogTypeOK'
  BY <1>4, <1>u DEF BatchPeer, WritePeer, PeerCallFails
<1>5. CASE Parse
  BY <1>t, <1>5, ParseTyped DEF Parse
<1>6. CASE Forwarded \/ ForwardFails
  <2>1. MessageSent(TRUE) \/ MessageSent(FALSE)
    BY <1>6 DEF Forwarded, ForwardFails
  <2> QED
    BY <1>t, <2>1, MessageTyped
<1>7. ASSUME Forward \/ ChangeRoutes \/ \E h \in Handlers : Handle(h)
      PROVE  SyslogTypeOK'
  BY <1>7, <1>u DEF Forward, ChangeRoutes, Handle
<1>8. CASE UNCHANGED vars
  BY <1>8, <1>u DEF vars
<1> QED
  BY <1>1, <1>2, <1>3, <1>4, <1>5, <1>6, <1>7, <1>8 DEF Next

\* What is sent to the entry node: a writer's batch, or a message.
LEMMA WriteSends ==
  ASSUME TypeInv, NEW w \in Writers, Write(w)
  PROVE  /\ Head(ch) \in Seq(Envelopes) /\ Head(ch) # <<>>
         /\ w \in Callers /\ EntrySend(w, Head(ch))
         /\ UNCHANGED <<routes, peer, stored>>
<1>1. ch # <<>> /\ NozzleInv
  BY DEF TypeInv, Write, TakeBatch
<1>2. Head(ch) \in Seq(Envelopes) /\ Head(ch) # <<>>
  BY <1>1, HeadOfChannel
<1> QED
  BY <1>2, IngressConstants DEF Write, EntrySend

\* A syslog message is sent to the entry node alone.
LEMMA ForwardSends ==
  ASSUME TypeInv, Forward
  PROVE  LET e == EnvelopeOf(connection.sending) IN
         /\ e \in Envelopes /\ <<e>> \in Seq(Envelopes) /\ <<e>> # <<>>
         /\ Syslog \in Callers /\ EntrySend(Syslog, <<e>>)
         /\ UNCHANGED <<routes, peer, stored>>
<1>1. connection.sending \in Messages
  BY DEF TypeInv, TypeOK, SyslogTypeOK, Forward
<1>2. EnvelopeOf(connection.sending) \in Envelopes
  BY <1>1, IngressConstants
<1> DEFINE e == EnvelopeOf(connection.sending)
<1>3. /\ Syslog \in Callers /\ EntrySend(Syslog, <<e>>)
      /\ UNCHANGED <<routes, peer, stored>>
  BY IngressConstants DEF Forward, EntrySend
<1> HIDE DEF e
<1>4. <<e>> \in Seq(Envelopes) /\ <<e>> # <<>>
  BY <1>2 DEF e
<1> QED
  BY <1>2, <1>3, <1>4 DEF e

\* A batch is sent to the peer it was gathered for, with local_only set.
LEMMA CallSends ==
  ASSUME TypeInv, NEW p \in Peers, CallPeer(p)
  PROVE  /\ p[2] \in Nodes /\ peer[p].sending \in Seq(Envelopes)
         /\ p \in Callers /\ LocalSend(p, p[2], peer[p].sending)
         /\ UNCHANGED <<routes, peer, stored>>
<1>1. peer[p] \in PeerStates
  BY DEF TypeInv, TypeOK, ProxyTypeOK
<1> QED
  BY <1>1, IngressConstants DEF CallPeer, LocalSend, PeerStates

\* Every step keeps the proxies typed.
LEMMA ProxyNext == TypeInv /\ [Next]_vars => ProxyInv'
<1> SUFFICES ASSUME TypeInv, [Next]_vars
             PROVE  ProxyInv'
  OBVIOUS
<1>t. ProxyInv
  BY DEF TypeInv
<1>u. ASSUME UNCHANGED proxyVars
      PROVE  ProxyInv'
  BY <1>t, <1>u, ProxyUnchanged
<1>p. /\ routes \in [Nodes -> [Sources -> SUBSET Nodes]]
      /\ peer \in [Peers -> PeerStates] /\ handler \in [Handlers -> Calls]
      /\ \A p \in Peers : Len(peer[p].batch) < PeerBatchSize
      /\ stored \in [Nodes -> [Envelopes -> 0 .. 2]]
      /\ \A h \in Handlers : CallOK(handler[h])
  BY <1>t DEF ProxyInv, ProxyTypeOK
<1>1. CASE ReadStream
  BY <1>1, <1>u DEF ReadStream
<1>2. ASSUME NEW b \in BOOLEAN, Batch(b)
      PROVE  ProxyInv'
  BY <1>2, <1>u DEF Batch
<1>3. ASSUME NEW w \in Writers, Write(w)
      PROVE  ProxyInv'
  BY <1>t, <1>3, WriteSends, EntrySendTyped
<1>4. ASSUME NEW w \in Writers, Written(w) \/ WriteFails(w)
      PROVE  ProxyInv'
  <2>1. w \in Callers /\ UNCHANGED <<routes, peer, stored>>
    BY <1>4, IngressConstants DEF Written, WriteFails
  <2>2. Returns(w) \/ Abandon(w) \/ UNCHANGED handler
    BY <1>4 DEF Written, WriteFails
  <2> QED
    BY <1>t, <1>u, <2>1, <2>2, ReturnTyped DEF proxyVars
<1>5. ASSUME NEW p \in Peers, NEW b \in BOOLEAN, BatchPeer(p, b)
      PROVE  ProxyInv'
  <2>1. BatchForPeer(p, b)
    BY <1>5 DEF BatchPeer
  <2>2. /\ UNCHANGED <<routes, handler, stored>>
        /\ \E s : /\ s \in PeerStates /\ Len(s.batch) < PeerBatchSize
                  /\ peer' = [peer EXCEPT ![p] = s]
    BY <1>t, <2>1, BatchForPeerIs
  <2>3. peer' \in [Peers -> PeerStates] /\ \A q \in Peers : Len(peer'[q].batch) < PeerBatchSize
    BY <1>p, <2>2
  <2> QED
    BY <1>p, <2>2, <2>3 DEF ProxyInv, ProxyTypeOK
<1>6. ASSUME NEW p \in Peers, WritePeer(p)
      PROVE  ProxyInv'
  <2>1. CASE CallPeer(p)
    <3>1. /\ p[2] \in Nodes /\ peer[p].sending \in Seq(Envelopes)
          /\ p \in Callers /\ LocalSend(p, p[2], peer[p].sending)
          /\ UNCHANGED <<routes, peer, stored>>
      BY <2>1, CallSends
    <3> QED
      BY <1>t, <3>1, LocalSendTyped
  <2>2. CASE PeerReturns(p)
    BY <1>t, <2>2, ReturnTyped, IngressConstants DEF PeerReturns
  <2> QED
    BY <1>6, <2>1, <2>2 DEF WritePeer
<1>7. ASSUME NEW p \in Peers, PeerCallFails(p)
      PROVE  ProxyInv'
  <2>1. /\ p \in Callers /\ UNCHANGED <<routes, stored>>
        /\ peer' = [peer EXCEPT ![p].sending = <<>>]
        /\ Abandon(p) \/ UNCHANGED handler
    BY <1>7, IngressConstants DEF PeerCallFails, PeerFails
  <2>2. CASE Abandon(p)
    BY <1>t, <2>1, <2>2, ReturnTyped
  <2>3. CASE UNCHANGED handler
    <3> DEFINE s == [peer[p] EXCEPT !.sending = <<>>]
    <3>e. peer[p] \in PeerStates /\ <<>> \in Seq(Envelopes)
      BY <1>p
    <3>1. s \in PeerStates /\ s.batch = peer[p].batch
      BY <3>e DEF PeerStates
    <3>2. peer' = [peer EXCEPT ![p] = s]
      BY <1>p, <2>1
    <3> HIDE DEF s
    <3>3. /\ peer' \in [Peers -> PeerStates]
          /\ \A q \in Peers : Len(peer'[q].batch) < PeerBatchSize
      BY <1>p, <3>1, <3>2
    <3> QED
      BY <1>p, <2>1, <2>3, <3>3 DEF ProxyInv, ProxyTypeOK
  <2> QED
    BY <2>1, <2>2, <2>3
<1>8. CASE Parse
  BY <1>8, <1>u DEF Parse
<1>9. CASE Forward
  BY <1>t, <1>9, ForwardSends, EntrySendTyped
<1>10. CASE Forwarded \/ ForwardFails
  <2>1. Syslog \in Callers /\ UNCHANGED <<routes, peer, stored>>
    BY <1>10, IngressConstants DEF Forwarded, ForwardFails
  <2>2. Returns(Syslog) \/ Abandon(Syslog) \/ UNCHANGED handler
    BY <1>10 DEF Forwarded, ForwardFails
  <2> QED
    BY <1>t, <1>u, <2>1, <2>2, ReturnTyped DEF proxyVars
<1>11. ASSUME NEW h \in Handlers, Handle(h)
       PROVE  ProxyInv'
  BY <1>t, <1>11, HandleTyped DEF Handle
<1>12. CASE ChangeRoutes
  <2>1. PICK s \in Sources, ns \in NewRoutes : routes' = [routes EXCEPT ![Entry][s] = ns]
    BY <1>12 DEF ChangeRoutes
  <2>2. routes' \in [Nodes -> [Sources -> SUBSET Nodes]]
    BY <1>p, <2>1, IngressConstants
  <2>3. UNCHANGED <<handler, peer, stored>>
    BY <1>12 DEF ChangeRoutes
  <2> QED
    BY <1>p, <2>2, <2>3 DEF ProxyInv, ProxyTypeOK
<1>13. CASE UNCHANGED vars
  BY <1>13, <1>u DEF vars
<1> QED
  BY <1>1, <1>2, <1>3, <1>4, <1>5, <1>6, <1>7, <1>8, <1>9, <1>10, <1>11, <1>12, <1>13
  DEF Next

HistoryOK ==
  /\ received \subseteq Envelopes /\ everRouted \in [Sources -> SUBSET Nodes]
  /\ mishaps \subseteq Mishaps /\ faults \in 0 .. MaxFaults

\* Every step keeps the histories typed.
LEMMA HistoryNext == TypeInv /\ [Next]_vars => HistoryOK'
<1> SUFFICES ASSUME TypeInv, [Next]_vars
             PROVE  HistoryOK'
  OBVIOUS
<1>t. HistoryOK
  BY DEF TypeInv, TypeOK, HistoryOK
<1>1. everRouted' \in [Sources -> SUBSET Nodes]
  <2>1. ASSUME NEW s \in Sources, NEW ns \in NewRoutes,
               everRouted' = [everRouted EXCEPT ![s] = @ \cup ns]
        PROVE  everRouted' \in [Sources -> SUBSET Nodes]
    BY <1>t, <2>1, IngressConstants DEF HistoryOK
  <2>2. \/ everRouted' = everRouted
        \/ \E s \in Sources, ns \in NewRoutes :
             everRouted' = [everRouted EXCEPT ![s] = @ \cup ns]
    BY DEF Next, vars, history, ReadStream, Batch, BatchPeer, Write, Written, WriteFails,
       Parse, Forward, Forwarded, ForwardFails, Handle, WritePeer, PeerCallFails, ChangeRoutes
  <2> QED
    BY <1>t, <2>1, <2>2 DEF HistoryOK
<1>2. faults' \in 0 .. MaxFaults
  <2>1. faults' = faults \/ Fault
    BY DEF Next, vars, history, ReadStream, Batch, BatchPeer, Write, Written, WriteFails,
       Parse, Forward, Forwarded, ForwardFails, Handle, WritePeer, PeerCallFails, ChangeRoutes
  <2> QED
    BY <1>t, <2>1, IngressConstants DEF HistoryOK, Fault
<1>3. mishaps' \subseteq Mishaps
  <2>1. mishaps' \subseteq mishaps \cup Mishaps
    BY DEF Next, vars, history, ReadStream, Batch, BatchPeer, Write, Written, WriteFails,
       Parse, Forward, Forwarded, ForwardFails, Handle, WritePeer, PeerCallFails, ChangeRoutes,
       Record, Mishaps
  <2> QED
    BY <1>t, <2>1 DEF HistoryOK
<1>4. received' \subseteq Envelopes
  <2>1. CASE ReadStream
    <3>1. ingressInc' \in Streamed
      BY <2>1, IngressConstants DEF ReadStream, ReadEnvelope, TypeInv, TypeOK, NozzleTypeOK
    <3> QED
      BY <1>t, <2>1, <3>1, IngressConstants DEF ReadStream, HistoryOK
  <2>2. CASE Parse
    <3>1. connection'.sending \in {0} \cup Messages
      BY <2>2, ParseTyped DEF Parse, TypeInv, TypeOK
    <3>2. connection'.sending # 0 => EnvelopeOf(connection'.sending) \in Envelopes
      BY <3>1, IngressConstants
    <3> QED
      BY <1>t, <2>2, <3>2 DEF Parse, HistoryOK
  <2>3. ReadStream \/ Parse \/ received' = received
    BY DEF Next, vars, history, Batch, BatchPeer, Write, Written, WriteFails,
       Forward, Forwarded, ForwardFails, Handle, WritePeer, PeerCallFails, ChangeRoutes
  <2> QED
    BY <1>t, <2>1, <2>2, <2>3 DEF HistoryOK
<1> QED
  BY <1>1, <1>2, <1>3, <1>4 DEF HistoryOK

\* Every step keeps everything typed.
LEMMA NextTypeInv == TypeInv /\ [Next]_vars => TypeInv'
<1> SUFFICES ASSUME TypeInv, [Next]_vars
             PROVE  TypeInv'
  OBVIOUS
<1>1. NozzleInv' /\ SyslogTypeOK' /\ ProxyInv' /\ HistoryOK'
  BY NozzleNext, SyslogNext, ProxyNext, HistoryNext
<1> QED
  BY <1>1 DEF TypeInv, TypeOK, NozzleInv, ProxyInv, HistoryOK

\* The diodes, batches, channel, calls and counts hold what their types say, and no
\* handler takes the head of an empty batch, whichever goroutines share a diode
\* (nozzle.go; ingress_reverse_proxy.go; batched_ingress_client.go; server.go).
THEOREM TypeCorrect == Spec => []TypeOK
<1>1. TypeInv => TypeOK
  BY DEF TypeInv
<1> QED
  BY <1>1, InitTypeInv, NextTypeInv, PTL DEF Spec
-----------------------------------------------------------------------------
\* The envelopes that the entry node has at some time routed to n.
To(n) == {e \in Envelopes : n \in everRouted[SourceOf(e)]}

\* Whatever is on its way to n, or in its store, the entry node has routed there.
RoutedInv ==
  /\ \A s \in Sources : routes[Entry][s] \subseteq everRouted[s]
  /\ \A h \in Handlers, n \in Nodes : handler[h].parts[n] \in Seq(To(n))
  /\ \A p \in Peers :
       /\ peer[p].buffer \in Diodes(PeerBufferSize, To(p[2]))
       /\ peer[p].batch \in Seq(To(p[2])) /\ peer[p].sending \in Seq(To(p[2]))
  /\ \A n \in Nodes, e \in Envelopes : stored[n][e] > 0 => e \in To(n)

\* Nothing is on its way.
LEMMA InitRouted == Init => RoutedInv
<1> SUFFICES ASSUME Init
             PROVE  RoutedInv
  OBVIOUS
<1>1. \A s \in Sources : routes[Entry][s] \subseteq everRouted[s]
  BY DEF Init
<1>2. \A h \in Handlers, n \in Nodes : handler[h].parts[n] \in Seq(To(n))
  <2>1. \A h \in Handlers, n \in Nodes : handler[h].parts[n] = <<>>
    BY NoCallIs DEF Init, ProxyInit
  <2>2. \A n \in Nodes : <<>> \in Seq(To(n))
    OBVIOUS
  <2> QED
    BY <2>1, <2>2
<1>3. ASSUME NEW p \in Peers
      PROVE  /\ peer[p].buffer \in Diodes(PeerBufferSize, To(p[2]))
             /\ peer[p].batch \in Seq(To(p[2])) /\ peer[p].sending \in Seq(To(p[2]))
  <2>1. /\ peer[p].buffer = EmptyDiode(PeerBufferSize)
        /\ peer[p].batch = <<>> /\ peer[p].sending = <<>>
    BY DEF Init, ProxyInit, NewPeer
  <2>2. EmptyDiode(PeerBufferSize) \in Diodes(PeerBufferSize, To(p[2]))
    BY EmptyIs, IngressConstants
  <2> QED
    BY <2>1, <2>2
<1>4. \A n \in Nodes, e \in Envelopes : stored[n][e] > 0 => e \in To(n)
  BY DEF Init, ProxyInit
<1> QED
  BY <1>1, <1>2, <1>3, <1>4 DEF RoutedInv

PartsRouted(k) == \A n \in Nodes : k.parts[n] \in Seq(To(n))

PeerRouted(s, n) ==
  /\ s.buffer \in Diodes(PeerBufferSize, To(n))
  /\ s.batch \in Seq(To(n)) /\ s.sending \in Seq(To(n))

StoredRouted == \A n \in Nodes, e \in Envelopes : stored[n][e] > 0 => e \in To(n)

\* A step that the tables do not change in keeps what is routed, if the call, the
\* peer and the store that it changes are.
LEMMA CallRouted ==
  ASSUME TypeInv, RoutedInv, UNCHANGED <<routes, everRouted>>, StoredRouted',
         handler' = handler \/ \E h \in Handlers : \E k :
           handler' = [handler EXCEPT ![h] = k] /\ PartsRouted(k),
         peer' = peer \/ \E p \in Peers : \E s :
           peer' = [peer EXCEPT ![p] = s] /\ PeerRouted(s, p[2])
  PROVE  RoutedInv'
<1>t. DOMAIN handler = Handlers /\ DOMAIN peer = Peers
  BY DEF TypeInv, TypeOK, ProxyTypeOK
<1>n. \A n : To(n)' = To(n)
  BY DEF To
<1>1. \A g \in Handlers, n \in Nodes : handler'[g].parts[n] \in Seq(To(n))
  <2>1. \A g \in Handlers, n \in Nodes : handler[g].parts[n] \in Seq(To(n))
    BY DEF RoutedInv
  <2> QED
    BY <1>t, <2>1 DEF PartsRouted
<1>2. \A q \in Peers : PeerRouted(peer'[q], q[2])
  <2>1. \A q \in Peers : PeerRouted(peer[q], q[2])
    BY DEF RoutedInv, PeerRouted
  <2> QED
    BY <1>t, <2>1
<1>3. \A s \in Sources : routes'[Entry][s] \subseteq everRouted'[s]
  BY DEF RoutedInv
<1>4. \A g \in Handlers, n \in Nodes : handler'[g].parts[n] \in Seq(To(n)')
  BY <1>1, <1>n
<1>5. \A p \in Peers :
        /\ peer'[p].buffer \in Diodes(PeerBufferSize, To(p[2])')
        /\ peer'[p].batch \in Seq(To(p[2])') /\ peer'[p].sending \in Seq(To(p[2])')
  BY <1>2, <1>n DEF PeerRouted
<1> QED
  BY <1>3, <1>4, <1>5 DEF RoutedInv, StoredRouted

\* A store that does not change holds what it held.
LEMMA StoreKept ==
  ASSUME RoutedInv, UNCHANGED <<everRouted, stored>>
  PROVE  StoredRouted'
  BY DEF RoutedInv, StoredRouted, To

\* A handler without parts has none for the wrong node.
LEMMA NoPartsRouted ==
  ASSUME NEW k, k.parts = NoParts
  PROVE  PartsRouted(k)
<1>1. \A n \in Nodes : <<>> \in Seq(To(n))
  OBVIOUS
<1> QED
  BY <1>1, NoCallIs DEF PartsRouted

\* A part is for a node the route of its source has.
LEMMA HandleRouted ==
  ASSUME TypeInv, RoutedInv, NEW h \in Handlers, HandleSend(h), UNCHANGED everRouted
  PROVE  RoutedInv'
<1> DEFINE c == handler[h]
<1>t. ProxyInv /\ PartsRouted(c) /\ c \in Calls
      /\ \A n \in Nodes : c.parts[n] \in Seq(To(n))
  BY DEF TypeInv, RoutedInv, PartsRouted, ProxyInv, ProxyTypeOK
<1>k. ASSUME NEW k, Became(h, k), PartsRouted(k), UNCHANGED <<routes, peer, stored>>
      PROVE  RoutedInv'
  BY <1>k, CallRouted, StoreKept DEF Became
<1>1. CASE LookUp(h)
  <2> DEFINE e == Head(c.batch)
  <2>1. PICK k : /\ Became(h, k)
                 /\ \A n \in Nodes : k.parts[n] =
                      IF n \in routes[Entry][SourceOf(e)]
                      THEN Append(c.parts[n], e) ELSE c.parts[n]
    BY <1>t, <1>1, LookUpIs
  <2>2. e \in Envelopes /\ UNCHANGED <<routes, peer, stored>>
    BY <1>t, <1>1, LookUpIs
  <2>3. \A n \in routes[Entry][SourceOf(e)] : e \in To(n)
    BY <2>2, IngressProxyAssumption DEF RoutedInv, To
  <2> HIDE DEF e
  <2>4. ASSUME NEW n \in Nodes
        PROVE  k.parts[n] \in Seq(To(n))
    <3>1. c.parts[n] \in Seq(To(n))
      BY <1>t
    <3>2. e \in To(n) => Append(c.parts[n], e) \in Seq(To(n))
      BY <3>1, AppendProperties
    <3> QED
      BY <2>1, <2>3, <3>1, <3>2
  <2> QED
    BY <1>k, <2>1, <2>2, <2>4 DEF PartsRouted
<1>2. CASE PutLocally(h)
  <2>1. PICK k : Became(h, k) /\ k.parts = [c.parts EXCEPT ![c.node] = <<>>]
    BY <1>t, <1>2, PutLocallyIs
  <2>2. /\ UNCHANGED <<routes, peer>> /\ c.node \in Nodes
        /\ c.parts \in [Nodes -> Seq(Envelopes)]
    BY <1>t, <1>2, PutLocallyIs, CallTyped
  <2>3. PartsRouted(k)
    <3>1. \A n \in Nodes : <<>> \in Seq(To(n))
      OBVIOUS
    <3> HIDE DEF c
    <3> QED
      BY <1>t, <2>1, <2>2, <3>1 DEF PartsRouted
  <2>4. ASSUME NEW n \in Nodes, NEW e \in Envelopes, stored'[n][e] > 0
        PROVE  e \in To(n)
    <3>1. \/ n = c.node /\ e \in Range(c.parts[n])
          \/ stored'[n][e] = stored[n][e]
      <4>1. stored'[n][e] = IF n = c.node /\ e \in Range(c.parts[n])
                            THEN (IF stored[n][e] = 2 THEN 2 ELSE stored[n][e] + 1)
                            ELSE stored[n][e]
        BY <1>t, <1>2, PutLocallyIs
      <4> QED
        BY <4>1
    <3>2. c.parts[n] \in Seq(To(n))
      BY <1>t
    <3>3. Range(c.parts[n]) \subseteq To(n)
      <4> DEFINE part == c.parts[n]
      <4>1. part \in Seq(To(n))
        BY <3>2
      <4> HIDE DEF part
      <4>2. \A i \in DOMAIN part : part[i] \in To(n)
        BY <4>1
      <4>3. Range(part) \subseteq To(n)
        BY <4>2 DEF Range
      <4> QED
        BY <4>3 DEF part
    <3>4. stored[n][e] > 0 => e \in To(n)
      BY DEF RoutedInv
    <3> QED
      BY <2>4, <3>1, <3>3, <3>4
  <2>5. StoredRouted'
    BY <2>4 DEF StoredRouted, To
  <2> QED
    BY <2>1, <2>2, <2>3, <2>5, CallRouted DEF Became
<1>3. CASE SendToPeer(h) \/ LoadIndex(h)
  <2>1. PICK k : Became(h, k) /\ k.parts = c.parts
    BY <1>t, <1>3, SendToPeerIs, LoadIndexIs
  <2>2. UNCHANGED <<routes, peer, stored>>
    BY <1>t, <1>3, SendToPeerIs, LoadIndexIs
  <2> QED
    BY <1>t, <1>k, <2>1, <2>2 DEF PartsRouted
<1>4. CASE StoreBucket(h)
  <2> DEFINE p == <<c.node, c.to>>
             part == c.parts[c.to]
             d == peer[p].buffer
  <2>1. PICK k : Became(h, k) /\ k.parts = [c.parts EXCEPT ![c.to] = Tail(part)]
    BY <1>t, <1>4, StoreBucketIs
  <2>2. PICK s : /\ s.buffer = SetAt(d, c.index, Head(part)) /\ s.batch = peer[p].batch
                 /\ s.sending = peer[p].sending /\ peer' = [peer EXCEPT ![p] = s]
    BY <1>t, <1>4, StoreBucketIs
  <2>3. /\ p \in Peers /\ c.to \in Nodes /\ c.index \in Nat /\ part # <<>>
        /\ UNCHANGED <<routes, stored>>
    BY <1>t, <1>4, StoreBucketIs
  <2>4. c.parts \in [Nodes -> Seq(Envelopes)] /\ p[2] = c.to
    BY <1>t, CallTyped
  <2>5. part \in Seq(To(c.to)) /\ PeerRouted(peer[p], c.to)
    BY <1>t, <2>3, <2>4 DEF RoutedInv, PeerRouted
  <2> HIDE DEF c, p, part
  <2>6. Head(part) \in To(c.to) /\ Tail(part) \in Seq(To(c.to))
    BY <2>3, <2>5
  <2>7. PartsRouted(k)
    BY <1>t, <2>1, <2>3, <2>4, <2>6 DEF PartsRouted
  <2>8. SetAt(d, c.index, Head(part)) \in Diodes(PeerBufferSize, To(c.to))
    BY <2>3, <2>5, <2>6, SetIs, IngressConstants DEF PeerRouted
  <2>9. PeerRouted(s, p[2])
    BY <2>2, <2>4, <2>5, <2>8 DEF PeerRouted
  <2> QED
    BY <2>1, <2>2, <2>3, <2>7, <2>9, CallRouted, StoreKept DEF Became
<1>5. CASE Respond(h)
  <2>1. PICK k : Became(h, k) /\ k.parts = c.parts
    BY <1>t, <1>5, RespondIs
  <2>2. UNCHANGED <<routes, peer, stored>>
    BY <1>t, <1>5, RespondIs
  <2> QED
    BY <1>t, <1>k, <2>1, <2>2 DEF PartsRouted
<1> QED
  BY <1>1, <1>2, <1>3, <1>4, <1>5 DEF HandleSend

\* A call that ends takes what it carried with it.
LEMMA ReturnRouted ==
  ASSUME TypeInv, RoutedInv, UNCHANGED <<routes, everRouted, stored>>,
         NEW caller \in Callers, Returns(caller) \/ Abandon(caller) \/ UNCHANGED handler,
         peer' = peer \/ \E p \in Peers : peer' = [peer EXCEPT ![p].sending = <<>>]
  PROVE  RoutedInv'
<1>1. handler' = handler \/ \E h \in Handlers : \E k :
        handler' = [handler EXCEPT ![h] = k] /\ PartsRouted(k)
  <2>1. CASE Returns(caller) \/ Abandon(caller)
    <3>1. PICK h \in Handlers : \E k :
            /\ Became(h, k)
            /\ k = NoCall \/ k.parts = handler[h].parts
      BY <2>1, ReturnsIs DEF TypeInv
    <3>2. PICK k : Became(h, k) /\ (k = NoCall \/ k.parts = handler[h].parts)
      BY <3>1
    <3>3. PartsRouted(handler[h])
      BY DEF RoutedInv, PartsRouted
    <3>4. PartsRouted(k)
      BY <3>2, <3>3, NoPartsRouted, NoCallIs DEF PartsRouted
    <3> QED
      BY <3>2, <3>4 DEF Became
  <2> QED
    BY <2>1
<1>2. peer' = peer \/ \E p \in Peers : \E s :
        peer' = [peer EXCEPT ![p] = s] /\ PeerRouted(s, p[2])
  <2>1. ASSUME NEW p \in Peers, peer' = [peer EXCEPT ![p].sending = <<>>]
        PROVE  \E s : peer' = [peer EXCEPT ![p] = s] /\ PeerRouted(s, p[2])
    <3> DEFINE s == [peer[p] EXCEPT !.sending = <<>>]
    <3>1. peer[p] \in PeerStates /\ peer \in [Peers -> PeerStates]
      BY DEF TypeInv, TypeOK, ProxyTypeOK
    <3>2. s.buffer = peer[p].buffer /\ s.batch = peer[p].batch /\ s.sending = <<>>
      BY <3>1 DEF PeerStates
    <3>3. peer' = [peer EXCEPT ![p] = s]
      BY <2>1, <3>1
    <3> HIDE DEF s
    <3>4. PeerRouted(s, p[2])
      BY <3>2 DEF RoutedInv, PeerRouted
    <3> QED
      BY <3>3, <3>4
  <2> QED
    BY <2>1
<1> QED
  BY <1>1, <1>2, CallRouted, StoreKept

\* The client for a peer carries only what was Set for that peer.
LEMMA BatchRouted ==
  ASSUME TypeInv, RoutedInv, NEW p \in Peers, NEW lapsed \in BOOLEAN,
         BatchForPeer(p, lapsed), UNCHANGED everRouted
  PROVE  RoutedInv'
<1> DEFINE b == Gathered(peer[p])
           d == peer[p].buffer
<1>1. PICK s : /\ s.buffer = Read(d) /\ s.batch \in {<<>>, b} /\ s.sending \in {<<>>, b}
               /\ peer' = [peer EXCEPT ![p] = s]
  BY BatchForPeerIs DEF TypeInv
<1>2. UNCHANGED <<routes, handler, stored>>
  BY BatchForPeerIs DEF TypeInv
<1>3. d \in Diodes(PeerBufferSize, To(p[2])) /\ peer[p].batch \in Seq(To(p[2]))
  BY DEF RoutedInv
<1>4. /\ Read(d) \in Diodes(PeerBufferSize, To(p[2]))
      /\ Found(d) => NextBucket(d) \in Buckets(To(p[2]))
  BY <1>3, ReadIs, IngressConstants
<1>5. b \in Seq(To(p[2]))
  <2>1. Found(d) => NextBucket(d).data \in To(p[2])
    BY <1>4 DEF Buckets
  <2>2. Found(d) => Append(peer[p].batch, NextBucket(d).data) \in Seq(To(p[2]))
    BY <1>3, <2>1, AppendProperties
  <2> QED
    BY <1>3, <2>2 DEF Gathered
<1>e. <<>> \in Seq(To(p[2]))
  OBVIOUS
<1> HIDE DEF b, d
<1>6. PeerRouted(s, p[2])
  BY <1>1, <1>4, <1>5, <1>e DEF PeerRouted
<1> QED
  BY <1>1, <1>2, <1>6, CallRouted, StoreKept

\* The entry node's new route is among those it has ever had.
LEMMA ChangeRouted ==
  ASSUME TypeInv, RoutedInv, ChangeRoutes
  PROVE  RoutedInv'
<1>t. /\ everRouted \in [Sources -> SUBSET Nodes]
      /\ routes \in [Nodes -> [Sources -> SUBSET Nodes]]
  BY DEF TypeInv, TypeOK, ProxyTypeOK
<1>1. PICK s \in Sources, ns \in NewRoutes :
        /\ routes' = [routes EXCEPT ![Entry][s] = ns]
        /\ everRouted' = [everRouted EXCEPT ![s] = everRouted[s] \cup ns]
  BY DEF ChangeRoutes
<1>2. UNCHANGED <<handler, peer, stored>>
  BY DEF ChangeRoutes
<1>3. \A r \in Sources : /\ everRouted[r] \subseteq everRouted'[r]
                          /\ routes'[Entry][r] \subseteq everRouted'[r]
  BY <1>t, <1>1, IngressConstants DEF RoutedInv
<1>4. \A n \in Nodes : To(n) \subseteq To(n)'
  BY <1>3, IngressProxyAssumption DEF To
<1>5. ASSUME NEW h \in Handlers, NEW n \in Nodes
      PROVE  handler'[h].parts[n] \in Seq(To(n)')
  <2>1. handler[h].parts[n] \in Seq(To(n))
    BY DEF RoutedInv
  <2> QED
    BY <1>2, <1>4, <2>1
<1>6. ASSUME NEW p \in Peers
      PROVE  /\ peer'[p].buffer \in Diodes(PeerBufferSize, To(p[2])')
             /\ peer'[p].batch \in Seq(To(p[2])') /\ peer'[p].sending \in Seq(To(p[2])')
  <2> DEFINE n == p[2]
  <2>1. n \in Nodes
    BY IngressConstants
  <2>2. /\ peer[p].buffer \in Diodes(PeerBufferSize, To(n))
        /\ peer[p].batch \in Seq(To(n)) /\ peer[p].sending \in Seq(To(n))
    BY DEF RoutedInv
  <2>3. To(n) \subseteq To(n)'
    BY <1>4, <2>1
  <2>4. Buckets(To(n)) \subseteq Buckets(To(n)')
    BY <2>3 DEF Buckets
  <2>5. Diodes(PeerBufferSize, To(n)) \subseteq Diodes(PeerBufferSize, To(n)')
    BY <2>4 DEF Diodes
  <2> QED
    BY <1>2, <2>2, <2>3, <2>5
<1>7. \A n \in Nodes, e \in Envelopes : stored'[n][e] > 0 => e \in To(n)'
  BY <1>2, <1>4 DEF RoutedInv
<1> QED
  BY <1>3, <1>5, <1>6, <1>7 DEF RoutedInv

\* Everything on its way to a node was routed there.
LEMMA NextRouted == TypeInv /\ RoutedInv /\ [Next]_vars => RoutedInv'
<1> SUFFICES ASSUME TypeInv, RoutedInv, [Next]_vars
             PROVE  RoutedInv'
  OBVIOUS
<1>u. ASSUME UNCHANGED <<proxyVars, everRouted>>
      PROVE  RoutedInv'
  BY <1>u, CallRouted, StoreKept DEF proxyVars
<1>s. ASSUME NEW caller \in Callers, NEW batch \in Seq(Envelopes), EntrySend(caller, batch),
             UNCHANGED <<routes, peer, stored, everRouted>>
      PROVE  RoutedInv'
  <2>1. \E h \in Handlers : \E k : k.parts = NoParts /\ handler' = [handler EXCEPT ![h] = k]
    BY <1>s, EntrySendIs DEF Begun
  <2> QED
    BY <1>s, <2>1, NoPartsRouted, CallRouted, StoreKept
<1>1. ASSUME ReadStream \/ Parse \/ \E b \in BOOLEAN : Batch(b)
      PROVE  RoutedInv'
  BY <1>1, <1>u DEF ReadStream, Parse, Batch
<1>2. ASSUME NEW w \in Writers, Write(w)
      PROVE  RoutedInv'
  <2>1. UNCHANGED everRouted
    BY <1>2 DEF Write, history
  <2> QED
    BY <1>2, <1>s, <2>1, WriteSends
<1>3. ASSUME NEW w \in Writers, Written(w) \/ WriteFails(w)
      PROVE  RoutedInv'
  <2>1. w \in Callers /\ UNCHANGED <<routes, everRouted, stored, peer>>
    BY <1>3, IngressConstants DEF Written, WriteFails, history
  <2>2. Returns(w) \/ Abandon(w) \/ UNCHANGED handler
    BY <1>3 DEF Written, WriteFails
  <2> QED
    BY <2>1, <2>2, ReturnRouted
<1>4. CASE Forward
  <2>1. UNCHANGED everRouted
    BY <1>4 DEF Forward, history
  <2> QED
    BY <1>4, <1>s, <2>1, ForwardSends
<1>5. CASE Forwarded \/ ForwardFails
  <2>1. Syslog \in Callers /\ UNCHANGED <<routes, everRouted, stored, peer>>
    BY <1>5, IngressConstants DEF Forwarded, ForwardFails, history
  <2>2. Returns(Syslog) \/ Abandon(Syslog) \/ UNCHANGED handler
    BY <1>5 DEF Forwarded, ForwardFails
  <2> QED
    BY <2>1, <2>2, ReturnRouted
<1>6. ASSUME NEW h \in Handlers, Handle(h)
      PROVE  RoutedInv'
  BY <1>6, HandleRouted DEF Handle
<1>7. ASSUME NEW p \in Peers, NEW b \in BOOLEAN, BatchPeer(p, b)
      PROVE  RoutedInv'
  BY <1>7, BatchRouted DEF BatchPeer, history
<1>8. ASSUME NEW p \in Peers, CallPeer(p), UNCHANGED everRouted
      PROVE  RoutedInv'
  <2> DEFINE n == p[2]
             batch == peer[p].sending
  <2>1. /\ n \in Nodes /\ batch \in Seq(Envelopes) /\ p \in Callers
        /\ LocalSend(p, n, batch) /\ UNCHANGED <<routes, peer, stored>>
    BY <1>8, CallSends
  <2>2. batch \in Seq(To(n))
    BY DEF RoutedInv
  <2> HIDE DEF n, batch
  <2>3. PICK h \in Handlers : \E k : /\ k.parts = [NoParts EXCEPT ![n] = batch]
                                      /\ handler' = [handler EXCEPT ![h] = k]
    BY <2>1, LocalSendIs DEF Begun
  <2>4. PICK k : k.parts = [NoParts EXCEPT ![n] = batch] /\ handler' = [handler EXCEPT ![h] = k]
    BY <2>3
  <2>5. \A m \in Nodes : <<>> \in Seq(To(m))
    OBVIOUS
  <2>6. \A m \in Nodes : k.parts[m] = IF m = n THEN batch ELSE <<>>
    BY <2>1, <2>4 DEF NoParts
  <2>7. PartsRouted(k)
    BY <2>2, <2>5, <2>6 DEF PartsRouted
  <2> QED
    BY <1>8, <2>1, <2>4, <2>7, CallRouted, StoreKept
<1>9. ASSUME NEW p \in Peers, WritePeer(p) \/ PeerCallFails(p)
      PROVE  RoutedInv'
  <2>1. UNCHANGED <<everRouted, routes, stored>> /\ p \in Callers
    BY <1>9, IngressConstants
    DEF WritePeer, PeerCallFails, history, CallPeer, PeerReturns, PeerFails
  <2>2. \/ CallPeer(p)
        \/ /\ Returns(p) \/ Abandon(p) \/ UNCHANGED handler
           /\ peer' = [peer EXCEPT ![p].sending = <<>>]
    BY <1>9 DEF WritePeer, PeerCallFails, PeerReturns, PeerFails
  <2> QED
    BY <1>8, <2>1, <2>2, ReturnRouted
<1>10. CASE ChangeRoutes
  BY <1>10, ChangeRouted
<1>11. CASE UNCHANGED vars
  BY <1>11, <1>u DEF vars, history
<1> QED
  BY <1>1, <1>2, <1>3, <1>4, <1>5, <1>6, <1>7, <1>9, <1>10, <1>11 DEF Next

\* A node stores only what the entry node has routed to it, however batches are split,
\* diodes overrun and calls given up (ingress_reverse_proxy.go, Send;
\* batched_ingress_client.go).
THEOREM StoresWhatIsRouted == Spec => []StoredWhereRouted
<1>1. RoutedInv => StoredWhereRouted
  BY DEF RoutedInv, To, StoredWhereRouted
<1>2. TypeInv /\ RoutedInv /\ [Next]_vars => (TypeInv /\ RoutedInv)'
  BY NextTypeInv, NextRouted
<1>3. Init => TypeInv /\ RoutedInv
  BY InitTypeInv, InitRouted
<1> QED
  BY <1>1, <1>2, <1>3, PTL DEF Spec
=============================================================================
