-------------------------- MODULE IngressOnceProofs -------------------------
(***************************************************************************)
(* That no node stores an envelope twice, and that the nozzle's counters   *)
(* account for its envelopes, for all numbers of nodes, writers and        *)
(* handlers, all sizes of the buffers, and whatever fails.                 *)
(* What a node n may store is in one place at a time: it has not been sent *)
(* yet, it is in a batch that is looked up, in a part for n, in a client   *)
(* for n, or in the store. Every step takes it from a place to the next    *)
(* one or drops it. The counters differ by what is in the diode, the       *)
(* batch, the channel and the writers, which no two of them share.         *)
(***************************************************************************)
EXTENDS IngressProofs

Injective(s) == \A i, j \in DOMAIN s : s[i] = s[j] => i = j

\* An empty sequence has nothing twice.
LEMMA EmptySeqIs == Range(<<>>) = {} /\ Injective(<<>>)
  BY DEF Range, Injective

\* One element is not twice in a sequence.
LEMMA SingleIs ==
  ASSUME NEW x
  PROVE  Range(<<x>>) = {x} /\ Injective(<<x>>)
  BY DEF Range, Injective

\* Something new is appended once.
LEMMA AppendIs ==
  ASSUME NEW S, NEW s \in Seq(S), NEW x \in S
  PROVE  /\ Append(s, x) \in Seq(S)
         /\ Range(Append(s, x)) = Range(s) \cup {x}
         /\ Injective(s) /\ x \notin Range(s) => Injective(Append(s, x))
<1> DEFINE t == Append(s, x)
           n == Len(s)
<1>1. /\ t \in Seq(S) /\ n \in Nat /\ DOMAIN s = 1 .. n /\ DOMAIN t = 1 .. n + 1
      /\ \A i \in 1 .. n : t[i] = s[i]
      /\ t[n + 1] = x
  BY AppendProperties
<1> HIDE DEF t, n
<1>2. Range(t) = Range(s) \cup {x}
  <2>1. \A i \in 1 .. n + 1 : i \in 1 .. n \/ i = n + 1
    BY <1>1
  <2>2. 1 .. n \subseteq 1 .. n + 1 /\ n + 1 \in 1 .. n + 1
    BY <1>1
  <2> QED
    BY <1>1, <2>1, <2>2 DEF Range
<1>3. ASSUME Injective(s), x \notin Range(s)
      PROVE  Injective(t)
  <2>1. \A i \in 1 .. n : s[i] # x
    BY <1>1, <1>3 DEF Range
  <2>2. \A i, j \in 1 .. n : s[i] = s[j] => i = j
    BY <1>1, <1>3 DEF Injective
  <2>3. \A i \in 1 .. n + 1 : i \in 1 .. n \/ i = n + 1
    BY <1>1
  <2> QED
    BY <1>1, <2>1, <2>2, <2>3 DEF Injective
<1> QED
  BY <1>1, <1>2, <1>3 DEF t

\* The head of a sequence without repetitions is not in its tail.
LEMMA TailIs ==
  ASSUME NEW S, NEW s \in Seq(S), s # <<>>, Injective(s)
  PROVE  /\ Tail(s) \in Seq(S) /\ Head(s) \in Range(s)
         /\ Range(Tail(s)) = Range(s) \ {Head(s)}
         /\ Injective(Tail(s))
<1> DEFINE t == Tail(s)
           n == Len(s)
<1>1. /\ t \in Seq(S) /\ n \in Nat \ {0} /\ DOMAIN s = 1 .. n /\ DOMAIN t = 1 .. n - 1
      /\ \A i \in 1 .. n - 1 : t[i] = s[i + 1]
      /\ Head(s) = s[1]
  <2>1. /\ t \in Seq(S) /\ Len(t) = n - 1 /\ n \in Nat \ {0} /\ Head(s) = s[1]
        /\ \A i \in 1 .. n - 1 : t[i] = s[i + 1]
    BY HeadTailProperties
  <2> HIDE DEF t, n
  <2>2. DOMAIN t = 1 .. n - 1
    BY <2>1
  <2>3. DOMAIN s = 1 .. n
    BY DEF n
  <2> QED
    BY <2>1, <2>2, <2>3
<1>2. \A i, j \in 1 .. n : s[i] = s[j] => i = j
  BY <1>1 DEF Injective
<1> HIDE DEF t, n
<1>3. \A i \in 1 .. n - 1 : i + 1 \in 1 .. n /\ i + 1 # 1 /\ i \in Nat
  BY <1>1
<1>4. Injective(t)
  BY <1>1, <1>2, <1>3 DEF Injective
<1>5. 1 \in 1 .. n /\ Head(s) \in Range(s)
  BY <1>1 DEF Range
<1>6. ASSUME NEW x
      PROVE  x \in Range(t) <=> x \in Range(s) /\ x # Head(s)
  <2>1. ASSUME x \in Range(t)
        PROVE  x \in Range(s) /\ x # Head(s)
    <3>1. PICK i \in 1 .. n - 1 : x = s[i + 1]
      BY <1>1, <2>1 DEF Range
    <3> QED
      BY <1>1, <1>2, <1>3, <1>5, <3>1 DEF Range
  <2>2. ASSUME x \in Range(s), x # Head(s)
        PROVE  x \in Range(t)
    <3>1. PICK i \in 1 .. n : x = s[i]
      BY <1>1, <2>2 DEF Range
    <3>2. i # 1
      BY <1>1, <2>2, <3>1
    <3>3. i - 1 \in 1 .. n - 1 /\ (i - 1) + 1 = i
      BY <1>1, <3>1, <3>2
    <3>4. t[i - 1] = x
      BY <1>1, <3>1, <3>3
    <3> QED
      BY <1>1, <3>3, <3>4 DEF Range
  <2> QED
    BY <2>1, <2>2
<1>7. Range(t) = Range(s) \ {Head(s)}
  BY <1>6
<1> QED
  BY <1>1, <1>4, <1>5, <1>7 DEF t
-----------------------------------------------------------------------------
\* What the nozzle has not sent: it has not left the diode, or is in a batch.
Upcoming(e) ==
  /\ e \in Streamed
  /\ \/ streamBuffer.readIndex < e \/ e \in Range(envelopes)
     \/ \E i \in DOMAIN ch : e \in Range(ch[i])

\* What the syslog server has not sent.
Unsent(e) ==
  \E m \in Messages :
    /\ e = EnvelopeOf(m)
    /\ \/ connection.received < m
       \/ connection.sending = m /\ ~Waits(Syslog)

Before(e) == Upcoming(e) \/ Unsent(e)

Slotted(d, e) ==
  \E i \in DOMAIN d.slots : d.slots[i] # Nothing /\ d.slots[i].data = e

\* What the client that a node has for another has not sent.
HeldBy(p, e) ==
  \/ Slotted(peer[p].buffer, e) \/ e \in Range(peer[p].batch)
  \/ e \in Range(peer[p].sending) /\ ~Waits(p)

\* The places of an envelope e that n may store: the entry node's calls, the parts
\* for n, the clients that the nodes have for n, and the store.
Kinds == {"before", "call", "part", "peer", "stored"}
Keys == {0} \cup Handlers \cup Nodes

At(k, a, e, n) ==
  \/ k = "before" /\ a = 0 /\ Before(e)
  \/ k = "call" /\ a \in Handlers /\ e \in Range(handler[a].batch)
  \/ k = "part" /\ a \in Handlers /\ e \in Range(handler[a].parts[n])
  \/ k = "peer" /\ a \in Nodes /\ a # n /\ HeldBy(<<a, n>>, e)
  \/ k = "stored" /\ a = 0 /\ stored[n][e] > 0

OnePlace(e, n) ==
  \A k, l \in Kinds, a, b \in Keys :
    At(k, a, e, n) /\ At(l, b, e, n) => k = l /\ a = b

\* In each place it is once.
QueueInv ==
  /\ streamBuffer.writeIndex = ingressInc
  /\ \A i \in DOMAIN streamBuffer.slots :
       streamBuffer.slots[i] # Nothing =>
         streamBuffer.slots[i].data = streamBuffer.slots[i].seq + 1
  /\ Injective(envelopes)
  /\ \A e \in Range(envelopes) : e <= streamBuffer.readIndex
  /\ \A i \in DOMAIN ch :
       /\ Injective(ch[i])
       /\ \A e \in Range(ch[i]) :
            e <= streamBuffer.readIndex /\ e \notin Range(envelopes)
  /\ \A i, j \in DOMAIN ch, e \in Streamed :
       e \in Range(ch[i]) /\ e \in Range(ch[j]) => i = j

CallsOnce ==
  \A h \in Handlers :
    /\ Injective(handler[h].batch)
    /\ \A n \in Nodes : Injective(handler[h].parts[n])

SlotsOnce(d) ==
  \A i, j \in DOMAIN d.slots :
    /\ d.slots[i] # Nothing /\ d.slots[j] # Nothing
    /\ d.slots[i].data = d.slots[j].data
    => i = j

PeerOnce(p) ==
  /\ SlotsOnce(peer[p].buffer) /\ Injective(peer[p].batch)
  /\ \A e \in Range(peer[p].batch) : ~Slotted(peer[p].buffer, e)
  /\ ~Waits(p) =>
       /\ Injective(peer[p].sending)
       /\ \A e \in Range(peer[p].sending) :
            ~Slotted(peer[p].buffer, e) /\ e \notin Range(peer[p].batch)

OnceInv ==
  /\ QueueInv /\ connection.sending <= connection.received /\ CallsOnce
  /\ \A p \in Peers : PeerOnce(p)
  /\ \A e \in Envelopes, n \in Nodes : OnePlace(e, n)
  /\ StoredOncePerNode
-----------------------------------------------------------------------------
\* The nozzle's steps keep the order of its envelopes: what leaves the diode is
\* later than what has left it.
LEMMA NozzleIs ==
  ASSUME NozzleInv
  PROVE  /\ streamBuffer \in Diodes(StreamBufferSize, Streamed)
         /\ streamBuffer.readIndex \in Nat /\ streamBuffer.writeIndex \in Nat
         /\ DOMAIN streamBuffer.slots = 0 .. StreamBufferSize - 1
         /\ \A i \in 0 .. StreamBufferSize - 1 :
              streamBuffer.slots[i] # Nothing =>
                /\ streamBuffer.slots[i] \in Buckets(Streamed)
                /\ streamBuffer.slots[i].seq \in Nat
                /\ streamBuffer.slots[i].data \in Streamed
         /\ envelopes \in Seq(Streamed) /\ Range(envelopes) \subseteq Streamed
         /\ ch \in Seq(Seq(Streamed)) /\ Len(ch) \in Nat /\ DOMAIN ch = 1 .. Len(ch)
         /\ \A i \in DOMAIN ch : ch[i] \in Seq(Streamed) /\ Range(ch[i]) \subseteq Streamed
         /\ Streamed \subseteq Nat /\ ingressInc \in Nat
         /\ StreamBufferSize \in Nat \ {0}
<1>1. /\ streamBuffer \in Diodes(StreamBufferSize, Streamed)
      /\ envelopes \in Seq(Streamed) /\ ch \in Seq(Seq(Streamed))
      /\ ingressInc \in 0 .. Cardinality(Streamed)
  BY DEF NozzleInv, NozzleTypeOK
<1>2. Streamed \subseteq Nat /\ ingressInc \in Nat /\ StreamBufferSize \in Nat \ {0}
  BY <1>1, IngressConstants
<1>3. /\ streamBuffer.readIndex \in Nat /\ streamBuffer.writeIndex \in Nat
      /\ DOMAIN streamBuffer.slots = 0 .. StreamBufferSize - 1
      /\ \A i \in 0 .. StreamBufferSize - 1 :
           streamBuffer.slots[i] \in Buckets(Streamed) \cup {Nothing}
  BY <1>1 DEF Diodes
<1>4. \A b \in Buckets(Streamed) : b.seq \in Nat /\ b.data \in Streamed
  BY DEF Buckets
<1>5. ASSUME NEW q \in Seq(Streamed)
      PROVE  Range(q) \subseteq Streamed
  BY <1>5 DEF Range
<1>6. Len(ch) \in Nat /\ DOMAIN ch = 1 .. Len(ch) /\ \A i \in DOMAIN ch : ch[i] \in Seq(Streamed)
  BY <1>1
<1> QED
  BY <1>1, <1>2, <1>3, <1>4, <1>5, <1>6

\* What the nozzle has Set is behind what the batcher has read.
LEMMA ReadOnce ==
  ASSUME NozzleInv, QueueInv, ReadEnvelope
  PROVE  QueueInv' /\ \A e : Upcoming(e)' => Upcoming(e)
<1> DEFINE d == streamBuffer
           k == streamBuffer.writeIndex
<1>1. /\ ingressInc < Cardinality(Streamed) /\ ingressInc' = ingressInc + 1
      /\ streamBuffer' = SetAt(d, k, ingressInc + 1)
      /\ UNCHANGED <<envelopes, ch>>
  BY DEF ReadEnvelope, Set
<1>2. /\ k = ingressInc /\ k \in Nat /\ ingressInc + 1 \in Streamed
      /\ d \in Diodes(StreamBufferSize, Streamed)
  BY <1>1, NozzleIs, IngressConstants DEF QueueInv
<1>3. /\ streamBuffer'.readIndex = d.readIndex /\ streamBuffer'.writeIndex = k + 1
      /\ streamBuffer' \in Diodes(StreamBufferSize, Streamed)
      /\ \A i \in 0 .. StreamBufferSize - 1 : streamBuffer'.slots[i] =
           IF i = k % StreamBufferSize THEN [seq |-> k, data |-> ingressInc + 1] ELSE d.slots[i]
  BY <1>1, <1>2, NozzleIs, SetIs
<1>4. DOMAIN streamBuffer'.slots = 0 .. StreamBufferSize - 1
  BY <1>3 DEF Diodes
<1>5. \A i \in 0 .. StreamBufferSize - 1 :
        d.slots[i] # Nothing => d.slots[i].data = d.slots[i].seq + 1
  BY NozzleIs DEF QueueInv
<1>6. \A i \in 0 .. StreamBufferSize - 1 :
        streamBuffer'.slots[i] # Nothing =>
          streamBuffer'.slots[i].data = streamBuffer'.slots[i].seq + 1
  BY <1>2, <1>3, <1>5
<1> HIDE DEF d, k
<1>7. QueueInv'
  <2>1. streamBuffer'.writeIndex = ingressInc'
    BY <1>1, <1>2, <1>3
  <2>2. streamBuffer'.readIndex = streamBuffer.readIndex
    BY <1>3 DEF d
  <2> QED
    BY <1>1, <1>4, <1>6, <2>1, <2>2 DEF QueueInv
<1>8. \A e : Upcoming(e)' => Upcoming(e)
  BY <1>1, <1>3 DEF Upcoming, d
<1> QED
  BY <1>7, <1>8

\* The batcher reads ahead only, and takes nothing it has in the batch.
LEMMA CollectedOnce ==
  ASSUME NozzleInv, QueueInv, NEW fired \in BOOLEAN, BatchEnvelopes(fired)
  PROVE  /\ streamBuffer.readIndex <= streamBuffer'.readIndex
         /\ streamBuffer'.readIndex \in Nat
         /\ Injective(Collected)
         /\ \A e \in Range(Collected) :
              /\ e \in Streamed /\ e <= streamBuffer'.readIndex
              /\ e \in Range(envelopes) \/ streamBuffer.readIndex < e
         /\ Range(envelopes) \subseteq Range(Collected)
<1> DEFINE b == NextBucket(streamBuffer)
           r == streamBuffer.readIndex
<1>1. streamBuffer' = Read(streamBuffer)
  BY DEF BatchEnvelopes
<1>2. /\ streamBuffer'.readIndex = IF Found(streamBuffer) THEN b.seq + 1 ELSE r
      /\ r % StreamBufferSize \in 0 .. StreamBufferSize - 1
      /\ b = streamBuffer.slots[r % StreamBufferSize]
      /\ r \in Nat
  BY <1>1, NozzleIs, ReadIs
<1>3. CASE ~Found(streamBuffer)
  <2>1. Collected = envelopes /\ streamBuffer'.readIndex = r
    BY <1>2, <1>3 DEF Collected
  <2> QED
    BY <1>2, <2>1, NozzleIs DEF QueueInv
<1>4. CASE Found(streamBuffer)
  <2>1. b # Nothing /\ b.seq >= r
    BY <1>4 DEF Found
  <2>2. b.seq \in Nat /\ b.data \in Streamed /\ b.data = b.seq + 1
    BY <1>2, <2>1, NozzleIs DEF QueueInv
  <2>3. Collected = Append(envelopes, b.data) /\ streamBuffer'.readIndex = b.seq + 1
    BY <1>2, <1>4 DEF Collected
  <2> HIDE DEF b, r
  <2>4. \A e \in Range(envelopes) : e \in Nat /\ e <= r
    BY NozzleIs DEF QueueInv, r
  <2>5. b.data \notin Range(envelopes)
    BY <1>2, <2>1, <2>2, <2>4
  <2>6. envelopes \in Seq(Streamed) /\ Injective(envelopes) /\ Range(envelopes) \subseteq Streamed
    BY NozzleIs DEF QueueInv
  <2>7. Injective(Collected) /\ Range(Collected) = Range(envelopes) \cup {b.data}
    BY <2>2, <2>3, <2>5, <2>6, AppendIs
  <2>8. ASSUME NEW e \in Range(Collected)
        PROVE  /\ e \in Streamed /\ e <= streamBuffer'.readIndex
               /\ e \in Range(envelopes) \/ streamBuffer.readIndex < e
    <3>1. CASE e \in Range(envelopes)
      BY <1>2, <2>1, <2>2, <2>3, <2>4, <2>6, <3>1
    <3>2. CASE e = b.data
      BY <1>2, <2>1, <2>2, <2>3, <3>2 DEF r
    <3> QED
      BY <2>7, <3>1, <3>2
  <2> QED
    <3>1. r <= streamBuffer'.readIndex /\ streamBuffer'.readIndex \in Nat
      BY <1>2, <2>1, <2>2, <2>3
    <3>2. Range(envelopes) \subseteq Range(Collected)
      BY <2>7
    <3> QED
      BY <2>7, <2>8, <3>1, <3>2 DEF r
<1> QED
  BY <1>3, <1>4

\* A batch goes to the channel whole, or is dropped.
LEMMA BatchOnce ==
  ASSUME NozzleInv, QueueInv, NEW fired \in BOOLEAN, BatchEnvelopes(fired)
  PROVE  QueueInv' /\ \A e : Upcoming(e)' => Upcoming(e)
<1> DEFINE r == streamBuffer.readIndex
           q == streamBuffer'.readIndex
           c == Collected
<1>1. /\ streamBuffer' = Read(streamBuffer)
      /\ ch' = IF Flushes(fired) /\ ~ChannelFull THEN Append(ch, c) ELSE ch
      /\ envelopes' = IF Flushes(fired) THEN <<>> ELSE c
      /\ ingressInc' = ingressInc
  BY DEF BatchEnvelopes
<1>2. /\ r <= q /\ q \in Nat /\ r \in Nat /\ Injective(c)
      /\ \A e \in Range(c) : /\ e \in Streamed /\ e \in Nat /\ e <= q
                             /\ e \in Range(envelopes) \/ r < e
      /\ Range(envelopes) \subseteq Range(c) /\ c \in Seq(Streamed)
  BY CollectedOnce, CollectedIs, NozzleIs
<1>3. /\ streamBuffer' \in Diodes(StreamBufferSize, Streamed)
      /\ streamBuffer'.writeIndex = streamBuffer.writeIndex
      /\ \A i \in 0 .. StreamBufferSize - 1 : streamBuffer'.slots[i] =
           IF i = r % StreamBufferSize THEN Nothing ELSE streamBuffer.slots[i]
  BY <1>1, NozzleIs, ReadIs
<1>4. /\ streamBuffer'.writeIndex = ingressInc'
      /\ \A i \in DOMAIN streamBuffer'.slots :
           streamBuffer'.slots[i] # Nothing =>
             streamBuffer'.slots[i].data = streamBuffer'.slots[i].seq + 1
  <2>1. DOMAIN streamBuffer'.slots = 0 .. StreamBufferSize - 1
    BY <1>3 DEF Diodes
  <2>2. \A i \in 0 .. StreamBufferSize - 1 :
          streamBuffer.slots[i] # Nothing =>
            streamBuffer.slots[i].data = streamBuffer.slots[i].seq + 1
    BY NozzleIs DEF QueueInv
  <2>3. streamBuffer'.writeIndex = ingressInc'
    BY <1>1, <1>3 DEF QueueInv
  <2> QED
    BY <1>3, <2>1, <2>2, <2>3
<1> HIDE DEF r, q, c
<1>5. /\ Injective(envelopes')
      /\ \A e \in Range(envelopes') : e <= q /\ e \in Range(c)
  BY <1>1, <1>2, EmptySeqIs
<1>6. \A i \in DOMAIN ch : /\ Injective(ch[i]) /\ ch[i] \in Seq(Streamed)
                          /\ \A e \in Range(ch[i]) :
                               /\ e \in Streamed /\ e <= q
                               /\ e \notin Range(c)
  <2> SUFFICES ASSUME NEW i \in DOMAIN ch
               PROVE  /\ Injective(ch[i]) /\ ch[i] \in Seq(Streamed)
                      /\ \A e \in Range(ch[i]) :
                           e \in Streamed /\ e <= q /\ e \notin Range(c)
    OBVIOUS
  <2>1. Injective(ch[i]) /\ ch[i] \in Seq(Streamed) /\ Range(ch[i]) \subseteq Streamed
    BY NozzleIs DEF QueueInv
  <2>2. ASSUME NEW e \in Range(ch[i])
        PROVE  e \in Streamed /\ e \in Nat /\ e <= r /\ e \notin Range(envelopes)
    BY <2>1, NozzleIs DEF QueueInv, r
  <2>3. ASSUME NEW e \in Range(ch[i])
        PROVE  e \in Streamed /\ e <= q /\ e \notin Range(c)
    <3>1. e \in Streamed /\ e \in Nat /\ e <= r /\ e \notin Range(envelopes)
      BY <2>2
    <3>2. e <= q /\ ~(r < e)
      BY <1>2, <3>1
    <3> QED
      BY <1>2, <3>1, <3>2
  <2> QED
    BY <2>1, <2>3
<1>7. CASE Flushes(fired) /\ ~ChannelFull
  <2> DEFINE n == Len(ch)
  <2>1. /\ n \in Nat /\ DOMAIN ch = 1 .. n /\ DOMAIN ch' = 1 .. n + 1
        /\ \A i \in 1 .. n : ch'[i] = ch[i]
        /\ ch'[n + 1] = c /\ envelopes' = <<>>
    <3>1. ch' = Append(ch, c) /\ ch \in Seq(Seq(Streamed)) /\ c \in Seq(Streamed)
      BY <1>1, <1>2, <1>7, NozzleIs
    <3>2. /\ Len(ch') = n + 1 /\ ch' \in Seq(Seq(Streamed)) /\ n \in Nat
          /\ \A i \in 1 .. n : ch'[i] = ch[i]
          /\ ch'[n + 1] = c
      BY <3>1, AppendProperties
    <3>3. DOMAIN ch = 1 .. n /\ DOMAIN ch' = 1 .. n + 1
      BY <3>1, <3>2
    <3> QED
      BY <1>1, <1>7, <3>2, <3>3
  <2> HIDE DEF n
  <2>2. \A i \in 1 .. n + 1 : i \in 1 .. n \/ i = n + 1
    BY <2>1
  <2>3. \A i \in DOMAIN ch' : /\ Injective(ch'[i])
                             /\ \A e \in Range(ch'[i]) : e <= q /\ e \notin Range(envelopes')
    BY <1>2, <1>6, <2>1, <2>2, EmptySeqIs
  <2>4. \A i, j \in DOMAIN ch', e \in Streamed :
          e \in Range(ch'[i]) /\ e \in Range(ch'[j]) => i = j
    <3>1. \A i, j \in 1 .. n, e \in Streamed :
            e \in Range(ch[i]) /\ e \in Range(ch[j]) => i = j
      BY <2>1 DEF QueueInv
    <3>2. \A i \in 1 .. n, e \in Streamed : e \in Range(ch[i]) => e \notin Range(c)
      BY <1>6, <2>1
    <3> QED
      BY <2>1, <2>2, <3>1, <3>2
  <2>5. QueueInv'
    BY <1>4, <1>5, <2>3, <2>4 DEF QueueInv, q
  <2>6. \A e : Upcoming(e)' => Upcoming(e)
    <3> SUFFICES ASSUME NEW e \in Streamed,
                        \/ q < e \/ e \in Range(envelopes')
                        \/ \E i \in DOMAIN ch' : e \in Range(ch'[i])
                 PROVE  Upcoming(e)
      BY DEF Upcoming, q
    <3>1. \/ r < e \/ e \in Range(envelopes)
          \/ \E i \in DOMAIN ch : e \in Range(ch[i])
      <4>1. CASE q < e
        BY <1>2, <4>1, NozzleIs
      <4>2. CASE e \in Range(envelopes') \/ e \in Range(c)
        BY <1>2, <1>5, <4>2
      <4>3. CASE \E i \in DOMAIN ch' : e \in Range(ch'[i])
        BY <2>1, <2>2, <4>2, <4>3
      <4> QED
        BY <4>1, <4>2, <4>3
    <3> QED
      BY <3>1 DEF Upcoming, r
  <2> QED
    BY <2>5, <2>6
<1>8. CASE ~(Flushes(fired) /\ ~ChannelFull)
  <2>1. ch' = ch
    BY <1>1, <1>8
  <2>2. QueueInv'
    <3>1. \A i \in DOMAIN ch' : /\ Injective(ch'[i])
                               /\ \A e \in Range(ch'[i]) : e <= q /\ e \notin Range(envelopes')
      BY <1>5, <1>6, <2>1
    <3>2. \A i, j \in DOMAIN ch', e \in Streamed :
            e \in Range(ch'[i]) /\ e \in Range(ch'[j]) => i = j
      BY <2>1 DEF QueueInv
    <3> QED
      BY <1>4, <1>5, <3>1, <3>2 DEF QueueInv, q
  <2>3. \A e : Upcoming(e)' => Upcoming(e)
    <3> SUFFICES ASSUME NEW e \in Streamed,
                        \/ q < e \/ e \in Range(envelopes')
                        \/ \E i \in DOMAIN ch : e \in Range(ch[i])
                 PROVE  Upcoming(e)
      BY <2>1 DEF Upcoming, q
    <3>1. \/ r < e \/ e \in Range(envelopes)
          \/ \E i \in DOMAIN ch : e \in Range(ch[i])
      BY <1>2, <1>5, NozzleIs
    <3> QED
      BY <3>1 DEF Upcoming, r
  <2> QED
    BY <2>2, <2>3
<1> QED
  BY <1>7, <1>8

\* A batch that a writer takes is upcoming no more.
LEMMA TakeOnce ==
  ASSUME NozzleInv, QueueInv, NEW w \in Writers, TakeBatch(w)
  PROVE  /\ QueueInv' /\ Injective(Head(ch))
         /\ \A e : Upcoming(e)' => Upcoming(e)
         /\ \A e \in Range(Head(ch)) : e \in Streamed /\ Upcoming(e) /\ ~Upcoming(e)'
<1> DEFINE n == Len(ch)
           r == streamBuffer.readIndex
           head == Head(ch)
<1>1. /\ n \in Nat \ {0} /\ DOMAIN ch = 1 .. n /\ DOMAIN ch' = 1 .. n - 1
      /\ \A i \in 1 .. n - 1 : ch'[i] = ch[i + 1]
      /\ head = ch[1]
      /\ UNCHANGED <<streamBuffer, ingressInc, envelopes>>
  <2>1. /\ ch # <<>> /\ ch' = Tail(ch)
        /\ UNCHANGED <<streamBuffer, ingressInc, envelopes>>
    BY DEF TakeBatch
  <2>2. /\ Tail(ch) \in Seq(Seq(Streamed)) /\ Len(Tail(ch)) = n - 1 /\ n \in Nat \ {0}
        /\ \A i \in 1 .. n - 1 : Tail(ch)[i] = ch[i + 1]
        /\ head = ch[1]
    BY <2>1, HeadOfChannel
  <2>3. DOMAIN ch' = 1 .. n - 1
    BY <2>1, <2>2
  <2> QED
    BY <2>1, <2>2, <2>3, NozzleIs
<1> HIDE DEF n, r, head
<1>2. 1 \in 1 .. n /\ \A i \in 1 .. n - 1 : i + 1 \in 1 .. n /\ i + 1 # 1 /\ i \in Int
  BY <1>1
<1>3. \A i, j \in 1 .. n, e \in Streamed :
        e \in Range(ch[i]) /\ e \in Range(ch[j]) => i = j
  BY <1>1 DEF QueueInv
<1>4. \A i \in 1 .. n : /\ Injective(ch[i])
                       /\ \A e \in Range(ch[i]) : e <= r /\ e \notin Range(envelopes)
  BY <1>1 DEF QueueInv, r
<1>5. QueueInv'
  <2>1. \A i, j \in DOMAIN ch', e \in Streamed :
          e \in Range(ch'[i]) /\ e \in Range(ch'[j]) => i = j
    <3> SUFFICES ASSUME NEW i \in 1 .. n - 1, NEW j \in 1 .. n - 1, NEW e \in Streamed,
                        e \in Range(ch[i + 1]), e \in Range(ch[j + 1])
                 PROVE  i = j
      BY <1>1
    <3>1. i + 1 = j + 1
      BY <1>2, <1>3
    <3> QED
      BY <1>2, <3>1
  <2>2. \A i \in DOMAIN ch' : /\ Injective(ch'[i])
                             /\ \A e \in Range(ch'[i]) :
                                  e <= r /\ e \notin Range(envelopes)
    BY <1>1, <1>2, <1>4
  <2> QED
    BY <1>1, <2>1, <2>2 DEF QueueInv, r
<1>6. \A e : Upcoming(e)' => Upcoming(e)
  <2>1. \A e : (\E i \in DOMAIN ch' : e \in Range(ch'[i]))
               => \E i \in DOMAIN ch : e \in Range(ch[i])
    BY <1>1, <1>2
  <2> QED
    BY <1>1, <2>1 DEF Upcoming
<1>7. ASSUME NEW e \in Range(head)
      PROVE  e \in Streamed /\ Upcoming(e) /\ ~Upcoming(e)'
  <2>1. e \in Range(ch[1]) /\ e \in Streamed
    BY <1>1, <1>2, <1>7, NozzleIs
  <2>2. e <= r /\ e \notin Range(envelopes) /\ e \in Nat /\ r \in Nat
    BY <1>2, <1>4, <2>1, NozzleIs DEF r
  <2>3. \A i \in DOMAIN ch' : e \notin Range(ch'[i])
    BY <1>1, <1>2, <1>3, <2>1
  <2>4. ~(r < e)
    BY <2>2
  <2> QED
    BY <1>1, <1>2, <2>1, <2>2, <2>3, <2>4 DEF Upcoming, r
<1>8. Injective(head)
  BY <1>1, <1>2, <1>4
<1> QED
  BY <1>5, <1>6, <1>7, <1>8 DEF head
-----------------------------------------------------------------------------
\* A step that takes an envelope out of one place as it puts it into another keeps
\* it in one place.
LEMMA MovesOnce ==
  ASSUME NEW e, NEW n, OnePlace(e, n),
         NEW k0 \in Kinds, NEW a0 \in Keys, NEW k1 \in Kinds, NEW a1 \in Keys,
         \A k \in Kinds, a \in Keys :
           At(k, a, e, n)' => At(k, a, e, n) \/ (k = k1 /\ a = a1),
         At(k1, a1, e, n)' =>
           At(k1, a1, e, n) \/ (At(k0, a0, e, n) /\ ~At(k0, a0, e, n)')
  PROVE  OnePlace(e, n)'
<1> SUFFICES ASSUME NEW k \in Kinds, NEW l \in Kinds, NEW a \in Keys, NEW b \in Keys,
                    At(k, a, e, n)', At(l, b, e, n)'
             PROVE  k = l /\ a = b
  BY DEF OnePlace
<1>1. \A j, i \in Kinds, c, d \in Keys :
        At(j, c, e, n) /\ At(i, d, e, n) => j = i /\ c = d
  BY DEF OnePlace
<1>2. CASE At(k, a, e, n) /\ At(l, b, e, n)
  BY <1>1, <1>2
<1>3. CASE ~At(k, a, e, n)
  <2>1. k = k1 /\ a = a1 /\ At(k0, a0, e, n) /\ ~At(k0, a0, e, n)'
    BY <1>3
  <2>2. At(l, b, e, n) => l = k0 /\ b = a0
    BY <1>1, <2>1
  <2>3. ~At(l, b, e, n)
    BY <2>1, <2>2
  <2> QED
    BY <2>1, <2>3
<1>4. CASE ~At(l, b, e, n)
  <2>1. l = k1 /\ b = a1 /\ At(k0, a0, e, n) /\ ~At(k0, a0, e, n)'
    BY <1>4
  <2>2. At(k, a, e, n) => k = k0 /\ a = a0
    BY <1>1, <2>1
  <2>3. ~At(k, a, e, n)
    BY <2>1, <2>2
  <2> QED
    BY <2>1, <2>3
<1> QED
  BY <1>2, <1>3, <1>4

\* An envelope goes from one place (k0, a0) on its way to n to another (k1, a1).
LEMMA PlaceChanges ==
  ASSUME NEW e, NEW n \in Nodes, OnePlace(e, n),
         NEW k0 \in Kinds, NEW a0 \in Keys, NEW k1 \in Kinds, NEW a1 \in Keys,
         Before(e)' => Before(e),
         \A h \in Handlers :
           /\ e \in Range(handler'[h].batch) =>
                e \in Range(handler[h].batch) \/ (k1 = "call" /\ a1 = h)
           /\ e \in Range(handler'[h].parts[n]) =>
                e \in Range(handler[h].parts[n]) \/ (k1 = "part" /\ a1 = h),
         \A m \in Nodes \ {n} :
           HeldBy(<<m, n>>, e)' => HeldBy(<<m, n>>, e) \/ (k1 = "peer" /\ a1 = m),
         stored'[n][e] > 0 => stored[n][e] > 0 \/ (k1 = "stored" /\ a1 = 0),
         At(k1, a1, e, n)' =>
           At(k1, a1, e, n) \/ (At(k0, a0, e, n) /\ ~At(k0, a0, e, n)')
  PROVE  OnePlace(e, n)'
<1>1. ASSUME NEW k \in Kinds, NEW a \in Keys, At(k, a, e, n)'
      PROVE  At(k, a, e, n) \/ (k = k1 /\ a = a1)
  <2>1. CASE k = "before"
    BY <1>1, <2>1 DEF At
  <2>2. CASE k = "call"
    BY <1>1, <2>2 DEF At
  <2>3. CASE k = "part"
    BY <1>1, <2>3 DEF At
  <2>4. CASE k = "peer"
    BY <1>1, <2>4 DEF At
  <2>5. CASE k = "stored"
    BY <1>1, <2>5 DEF At
  <2> QED
    BY <2>1, <2>2, <2>3, <2>4, <2>5 DEF Kinds
<1>2. \A k \in Kinds, a \in Keys :
        At(k, a, e, n)' => At(k, a, e, n) \/ (k = k1 /\ a = a1)
  BY <1>1
<1> QED
  BY <1>2, MovesOnce

\* A caller goes on waiting unless its own call ends.
LEMMA WaitsKept ==
  ASSUME ProxyInv, NEW h \in Handlers, NEW k, Became(h, k), NEW q,
         handler[h].caller = q => k.caller = q
  PROVE  Waits(q) => Waits(q)'
<1>1. handler' = [handler EXCEPT ![h] = k] /\ handler \in [Handlers -> Calls]
  BY DEF Became, ProxyInv, ProxyTypeOK
<1>2. handler'[h] = k /\ \A g \in Handlers : g # h => handler'[g] = handler[g]
  BY <1>1
<1> SUFFICES ASSUME Waits(q)
             PROVE  Waits(q)'
  OBVIOUS
<1>3. PICK g \in Handlers : handler[g].caller = q
  BY DEF Waits
<1>4. handler'[g].caller = q
  BY <1>2, <1>3
<1> QED
  BY <1>4 DEF Waits

\* A client that a step leaves alone, and one that is done with its batch.
LEMMA PeerStays ==
  ASSUME NEW p \in Peers, PeerOnce(p), peer'[p] = peer[p], Waits(p) => Waits(p)'
  PROVE  PeerOnce(p)' /\ \A e : HeldBy(p, e)' => HeldBy(p, e)
  BY DEF PeerOnce, HeldBy

\* A batch whose call is over is nowhere.
LEMMA PeerDone ==
  ASSUME ProxyInv, NEW p \in Peers, PeerOnce(p), peer' = [peer EXCEPT ![p].sending = <<>>]
  PROVE  /\ PeerOnce(p)' /\ \A e : HeldBy(p, e)' => HeldBy(p, e)
         /\ \A q \in Peers : q # p => peer'[q] = peer[q]
<1>1. peer \in [Peers -> PeerStates]
  BY DEF ProxyInv, ProxyTypeOK
<1>2. peer[p] \in PeerStates
  BY <1>1
<1>3. /\ peer'[p].buffer = peer[p].buffer /\ peer'[p].batch = peer[p].batch
      /\ peer'[p].sending = <<>>
      /\ \A q \in Peers : q # p => peer'[q] = peer[q]
  BY <1>1, <1>2 DEF PeerStates
<1>4. Injective(peer'[p].sending) /\ Range(peer'[p].sending) = {}
  BY <1>3, EmptySeqIs
<1>5. PeerOnce(p)'
  BY <1>3, <1>4 DEF PeerOnce
<1>6. \A e : HeldBy(p, e)' => HeldBy(p, e)
  BY <1>3, <1>4 DEF HeldBy
<1> QED
  BY <1>3, <1>5, <1>6

\* A message that was parsed is not parsed again.
LEMMA UnsentStays ==
  ASSUME UNCHANGED connection, Waits(Syslog) => Waits(Syslog)'
  PROVE  \A e : Unsent(e)' => Unsent(e)
  BY DEF Unsent, EnvelopeOf

\* Steps that end calls and drop what they had.
CallsDrop ==
  \/ UNCHANGED handler
  \/ \E h \in Handlers : \E k :
       /\ Became(h, k) /\ k.batch \in {<<>>, handler[h].batch}
       /\ k.parts \in {NoParts, handler[h].parts}

\* Calls that end or are given up have no envelope more than before.
LEMMA CallsDropped ==
  ASSUME ProxyInv, CallsOnce, CallsDrop
  PROVE  /\ CallsOnce'
         /\ \A h \in Handlers : \A e :
              /\ e \in Range(handler'[h].batch) => e \in Range(handler[h].batch)
              /\ \A n \in Nodes : e \in Range(handler'[h].parts[n]) =>
                                    e \in Range(handler[h].parts[n])
<1>1. CASE UNCHANGED handler
  BY <1>1 DEF CallsOnce
<1>2. ASSUME NEW h \in Handlers, NEW k, Became(h, k), k.batch \in {<<>>, handler[h].batch},
             k.parts \in {NoParts, handler[h].parts}
      PROVE  /\ CallsOnce'
             /\ \A g \in Handlers : \A e :
                  /\ e \in Range(handler'[g].batch) => e \in Range(handler[g].batch)
                  /\ \A n \in Nodes : e \in Range(handler'[g].parts[n]) =>
                                        e \in Range(handler[g].parts[n])
  <2>1. handler' = [handler EXCEPT ![h] = k] /\ handler \in [Handlers -> Calls]
    BY <1>2 DEF Became, ProxyInv, ProxyTypeOK
  <2>2. handler'[h] = k /\ \A g \in Handlers : g # h => handler'[g] = handler[g]
    BY <2>1
  <2>3. /\ Injective(k.batch) /\ \A e : e \in Range(k.batch) => e \in Range(handler[h].batch)
    BY <1>2, EmptySeqIs DEF CallsOnce
  <2>4. \A n \in Nodes : /\ Injective(k.parts[n])
                         /\ \A e : e \in Range(k.parts[n]) => e \in Range(handler[h].parts[n])
    BY <1>2, EmptySeqIs, NoCallIs DEF CallsOnce
  <2>5. CallsOnce'
    <3> SUFFICES ASSUME NEW g \in Handlers
                 PROVE  /\ Injective(handler'[g].batch)
                        /\ \A n \in Nodes : Injective(handler'[g].parts[n])
      BY DEF CallsOnce
    <3> QED
      BY <2>2, <2>3, <2>4 DEF CallsOnce
  <2> QED
    BY <2>2, <2>3, <2>4, <2>5
<1> QED
  BY <1>1, <1>2 DEF CallsDrop

\* Envelopes that are dropped are in no place more.
LEMMA DropsOnce ==
  ASSUME TypeInv, OnceInv, CallsDrop, UNCHANGED stored,
         QueueInv', connection'.sending <= connection'.received,
         \A e : Before(e)' => Before(e),
         \A p \in Peers : PeerOnce(p)' /\ \A e : HeldBy(p, e)' => HeldBy(p, e)
  PROVE  OnceInv'
<1>1. ProxyInv /\ CallsOnce
  BY DEF TypeInv, OnceInv
<1>2. /\ CallsOnce'
      /\ \A h \in Handlers : \A e :
           /\ e \in Range(handler'[h].batch) => e \in Range(handler[h].batch)
           /\ \A n \in Nodes : e \in Range(handler'[h].parts[n]) =>
                                 e \in Range(handler[h].parts[n])
  BY <1>1, CallsDropped
<1>3. ASSUME NEW e \in Envelopes, NEW n \in Nodes
      PROVE  OnePlace(e, n)'
  <2>1. OnePlace(e, n)
    BY DEF OnceInv
  <2>2. "before" \in Kinds /\ 0 \in Keys
    BY DEF Kinds, Keys
  <2>3. \A m \in Nodes \ {n} : HeldBy(<<m, n>>, e)' => HeldBy(<<m, n>>, e)
    BY IngressConstants
  <2>4. At("before", 0, e, n)' => At("before", 0, e, n)
    BY DEF At
  <2>5. stored'[n][e] > 0 => stored[n][e] > 0
    OBVIOUS
  <2>6. Before(e)' => Before(e)
    OBVIOUS
  <2>7. \A h \in Handlers :
          /\ e \in Range(handler'[h].batch) => e \in Range(handler[h].batch)
          /\ e \in Range(handler'[h].parts[n]) => e \in Range(handler[h].parts[n])
    BY <1>2
  <2> QED
    BY <2>1, <2>2, <2>3, <2>4, <2>5, <2>6, <2>7, PlaceChanges
<1>4. StoredOncePerNode'
  BY DEF OnceInv, StoredOncePerNode
<1> QED
  BY <1>2, <1>3, <1>4 DEF OnceInv

-----------------------------------------------------------------------------
\* A call that ends or loses its caller; a call that begins.
LEMMA ReturnDrops ==
  ASSUME ProxyInv, NEW caller \in Callers, Returns(caller) \/ Abandon(caller)
  PROVE  CallsDrop /\ \A q \in Callers \ {caller} : Waits(q) => Waits(q)'
<1>1. PICK h \in Handlers : \E k :
        /\ Became(h, k) /\ handler[h].caller = caller /\ k.caller = NoCaller
        /\ k = NoCall \/ (k.batch = handler[h].batch /\ k.parts = handler[h].parts)
  BY ReturnsIs
<1>2. PICK k :
        /\ Became(h, k) /\ handler[h].caller = caller /\ k.caller = NoCaller
        /\ k = NoCall \/ (k.batch = handler[h].batch /\ k.parts = handler[h].parts)
  BY <1>1
<1>3. k.batch \in {<<>>, handler[h].batch} /\ k.parts \in {NoParts, handler[h].parts}
  BY <1>2, NoCallIs
<1>4. CallsDrop
  BY <1>2, <1>3 DEF CallsDrop
<1>5. \A q \in Callers \ {caller} : Waits(q) => Waits(q)'
  BY <1>2, WaitsKept
<1> QED
  BY <1>4, <1>5

\* A handler takes up one call of one caller, who waits for it.
LEMMA BeginsWaiting ==
  ASSUME ProxyInv, NEW h \in Handlers, handler[h].at = "idle",
         NEW k, NEW caller \in Callers, NEW n, NEW at, NEW queue, NEW parts,
         Begun(k, caller, n, at, queue, parts), handler' = [handler EXCEPT ![h] = k]
  PROVE  /\ Waits(caller)' /\ \A q \in Callers : Waits(q) => Waits(q)'
         /\ handler[h].batch = <<>> /\ handler[h].parts = NoParts
         /\ handler'[h].batch = queue /\ handler'[h].parts = parts
         /\ \A g \in Handlers : g # h => handler'[g] = handler[g]
<1>1. handler[h] = NoCall /\ handler \in [Handlers -> Calls]
  BY DEF ProxyInv, ProxyTypeOK, CallOK
<1>2. handler'[h] = k /\ \A g \in Handlers : g # h => handler'[g] = handler[g]
  BY <1>1
<1>3. k.caller = caller /\ k.batch = queue /\ k.parts = parts
  BY DEF Begun
<1>4. Waits(caller)'
  BY <1>2, <1>3 DEF Waits
<1>5. ASSUME NEW q \in Callers, Waits(q)
      PROVE  Waits(q)'
  <2>1. PICK g \in Handlers : handler[g].caller = q
    BY <1>5 DEF Waits
  <2>2. g # h
    BY <1>1, <2>1, NoCallIs, IngressConstants
  <2>3. handler'[g].caller = q
    BY <1>2, <2>1, <2>2
  <2> QED
    BY <2>3 DEF Waits
<1> QED
  BY <1>1, <1>2, <1>3, <1>4, <1>5, NoCallIs

\* A batch that is sent to the entry node is in a call, and before it no more.
LEMMA EntrySendOnce ==
  ASSUME TypeInv, OnceInv, UNCHANGED <<peer, stored>>,
         NEW caller \in Callers, NEW batch \in Seq(Envelopes), Injective(batch),
         EntrySend(caller, batch),
         QueueInv', connection'.sending <= connection'.received,
         \A e : Before(e)' => Before(e),
         \A e \in Range(batch) : Before(e) /\ ~Before(e)'
  PROVE  OnceInv'
<1>i. ProxyInv
  BY DEF TypeInv
<1>1. PICK h \in Handlers : \E k :
        /\ Begun(k, caller, Entry, "lookup", batch, NoParts)
        /\ handler[h].at = "idle" /\ handler' = [handler EXCEPT ![h] = k]
  BY EntrySendIs
<1>2. PICK k :
        /\ Begun(k, caller, Entry, "lookup", batch, NoParts)
        /\ handler[h].at = "idle" /\ handler' = [handler EXCEPT ![h] = k]
  BY <1>1
<1>3. /\ \A q \in Callers : Waits(q) => Waits(q)'
      /\ handler[h].batch = <<>> /\ handler[h].parts = NoParts
      /\ handler'[h].batch = batch /\ handler'[h].parts = NoParts
      /\ \A g \in Handlers : g # h => handler'[g] = handler[g]
  BY <1>i, <1>2, BeginsWaiting
<1>4. \A p \in Peers : PeerOnce(p)' /\ \A e : HeldBy(p, e)' => HeldBy(p, e)
  BY <1>3, PeerStays, IngressConstants DEF OnceInv
<1>5. CallsOnce'
  <2> SUFFICES ASSUME NEW g \in Handlers
               PROVE  /\ Injective(handler'[g].batch)
                      /\ \A n \in Nodes : Injective(handler'[g].parts[n])
    BY DEF CallsOnce
  <2>1. CASE g = h
    BY <1>3, <2>1, NoCallIs, EmptySeqIs
  <2>2. CASE g # h
    BY <1>3, <2>2 DEF OnceInv, CallsOnce
  <2> QED
    BY <2>1, <2>2
<1>6. ASSUME NEW e \in Envelopes, NEW n \in Nodes
      PROVE  OnePlace(e, n)'
  <2>1. OnePlace(e, n)
    BY DEF OnceInv
  <2>2. "before" \in Kinds /\ "call" \in Kinds /\ 0 \in Keys /\ h \in Keys
    BY DEF Kinds, Keys
  <2>3. \A m \in Nodes \ {n} : HeldBy(<<m, n>>, e)' => HeldBy(<<m, n>>, e)
    BY <1>4, IngressConstants
  <2>4. Before(e)' => Before(e)
    OBVIOUS
  <2>5. stored'[n][e] > 0 => stored[n][e] > 0
    OBVIOUS
  <2>6. \A g \in Handlers :
          /\ e \in Range(handler'[g].batch) =>
               e \in Range(handler[g].batch) \/ ("call" = "call" /\ h = g)
          /\ e \in Range(handler'[g].parts[n]) => e \in Range(handler[g].parts[n])
    BY <1>3
  <2>7. At("call", h, e, n)' =>
          At("call", h, e, n) \/ (At("before", 0, e, n) /\ ~At("before", 0, e, n)')
    BY <1>3 DEF At
  <2> QED
    BY <2>1, <2>2, <2>3, <2>4, <2>5, <2>6, <2>7, PlaceChanges
<1>7. StoredOncePerNode'
  BY DEF OnceInv, StoredOncePerNode
<1> QED
  BY <1>4, <1>5, <1>6, <1>7 DEF OnceInv

\* A batch that a client sends is in a part for its node, and not the client's.
LEMMA CallPeerOnce ==
  ASSUME TypeInv, OnceInv, NEW p \in Peers, CallPeer(p),
         UNCHANGED <<nozzleVars, connection>>
  PROVE  OnceInv'
<1>i. ProxyInv
  BY DEF TypeInv
<1> DEFINE sent == peer[p].sending
           to == p[2]
<1>1. /\ ~Waits(p) /\ p \in Callers /\ to \in Nodes /\ sent \in Seq(Envelopes)
      /\ LocalSend(p, to, sent) /\ UNCHANGED <<routes, peer, stored>>
  BY CallSends DEF CallPeer
<1>p. p = <<p[1], to>> /\ p[1] \in Nodes /\ p[1] # to
  BY DEF Peers
<1> HIDE DEF sent, to
<1>2. PICK h \in Handlers : \E k :
        /\ Begun(k, p, to, "send", <<>>, [NoParts EXCEPT ![to] = sent])
        /\ handler[h].at = "idle" /\ handler' = [handler EXCEPT ![h] = k]
  BY <1>1, LocalSendIs
<1>3. PICK k :
        /\ Begun(k, p, to, "send", <<>>, [NoParts EXCEPT ![to] = sent])
        /\ handler[h].at = "idle" /\ handler' = [handler EXCEPT ![h] = k]
  BY <1>2
<1>4. /\ Waits(p)' /\ \A q \in Callers : Waits(q) => Waits(q)'
      /\ handler[h].batch = <<>> /\ handler[h].parts = NoParts
      /\ handler'[h].batch = <<>>
      /\ handler'[h].parts = [NoParts EXCEPT ![to] = sent]
      /\ \A g \in Handlers : g # h => handler'[g] = handler[g]
  BY <1>i, <1>1, <1>3, BeginsWaiting
<1>5. handler'[h].parts[to] = sent /\ \A n \in Nodes \ {to} : handler'[h].parts[n] = <<>>
  BY <1>1, <1>4, NoCallIs DEF NoParts
<1>6. /\ Injective(sent)
      /\ \A e \in Range(sent) : HeldBy(p, e) /\ ~HeldBy(p, e)'
  <2>1. PeerOnce(p)
    BY DEF OnceInv
  <2> QED
    BY <1>1, <1>4, <2>1 DEF PeerOnce, HeldBy, sent
<1>7. \A q \in Peers : PeerOnce(q)' /\ \A e : HeldBy(q, e)' => HeldBy(q, e)
  BY <1>1, <1>4, PeerStays, IngressConstants DEF OnceInv
<1>8. CallsOnce'
  <2> SUFFICES ASSUME NEW g \in Handlers
               PROVE  /\ Injective(handler'[g].batch)
                      /\ \A n \in Nodes : Injective(handler'[g].parts[n])
    BY DEF CallsOnce
  <2>1. CASE g = h
    BY <1>4, <1>5, <1>6, <2>1, EmptySeqIs
  <2>2. CASE g # h
    BY <1>4, <2>2 DEF OnceInv, CallsOnce
  <2> QED
    BY <2>1, <2>2
<1>b. \A e : Before(e)' => Before(e)
  <2>1. Waits(Syslog) => Waits(Syslog)'
    BY <1>4, IngressConstants
  <2>2. \A e : Unsent(e)' => Unsent(e)
    BY <2>1, UnsentStays
  <2> QED
    BY <2>2 DEF Before, Upcoming, nozzleVars
<1>9. ASSUME NEW e \in Envelopes, NEW n \in Nodes
      PROVE  OnePlace(e, n)'
  <2>1. OnePlace(e, n)
    BY DEF OnceInv
  <2>2. "peer" \in Kinds /\ "part" \in Kinds /\ p[1] \in Keys /\ h \in Keys
    BY <1>p DEF Kinds, Keys
  <2>3. \A m \in Nodes \ {n} : HeldBy(<<m, n>>, e)' => HeldBy(<<m, n>>, e)
    BY <1>7, IngressConstants
  <2>4. Before(e)' => Before(e)
    BY <1>b
  <2>5. stored'[n][e] > 0 => stored[n][e] > 0
    BY <1>1
  <2>6. \A g \in Handlers :
          /\ e \in Range(handler'[g].batch) => e \in Range(handler[g].batch)
          /\ e \in Range(handler'[g].parts[n]) =>
               e \in Range(handler[g].parts[n]) \/ ("part" = "part" /\ h = g)
    BY <1>4
  <2>7. At("part", h, e, n)' =>
          At("part", h, e, n) \/ (At("peer", p[1], e, n) /\ ~At("peer", p[1], e, n)')
    <3> SUFFICES ASSUME e \in Range(handler'[h].parts[n])
                 PROVE  At("peer", p[1], e, n) /\ ~At("peer", p[1], e, n)'
      BY DEF At
    <3>1. n = to /\ e \in Range(sent)
      BY <1>5, EmptySeqIs
    <3>2. HeldBy(<<p[1], n>>, e) /\ ~HeldBy(<<p[1], n>>, e)'
      BY <1>6, <1>p, <3>1
    <3> QED
      BY <1>p, <3>1, <3>2 DEF At
  <2> QED
    BY <2>1, <2>2, <2>3, <2>4, <2>5, <2>6, <2>7, PlaceChanges
<1>10. QueueInv' /\ connection'.sending <= connection'.received /\ StoredOncePerNode'
  BY <1>1 DEF OnceInv, QueueInv, nozzleVars, StoredOncePerNode
<1> QED
  BY <1>7, <1>8, <1>9, <1>10 DEF OnceInv

-----------------------------------------------------------------------------
\* The steps of a handler, which keep its caller.
LEMMA HandleKeeps ==
  ASSUME ProxyInv, QueueInv, NEW h \in Handlers, NEW k, Became(h, k),
         k.caller = handler[h].caller, UNCHANGED <<nozzleVars, syslogVars>>
  PROVE  /\ \A q : Waits(q) => Waits(q)'
         /\ QueueInv' /\ \A e : Before(e)' => Before(e)
         /\ handler'[h] = k /\ \A g \in Handlers : g # h => handler'[g] = handler[g]
<1>1. handler' = [handler EXCEPT ![h] = k] /\ handler \in [Handlers -> Calls]
  BY DEF Became, ProxyInv, ProxyTypeOK
<1>2. handler'[h] = k /\ \A g \in Handlers : g # h => handler'[g] = handler[g]
  BY <1>1
<1>3. \A q : Waits(q) => Waits(q)'
  BY WaitsKept
<1>4. \A e : Unsent(e)' => Unsent(e)
  BY <1>3, UnsentStays DEF syslogVars
<1>5. QueueInv' /\ \A e : Before(e)' => Before(e)
  BY <1>4 DEF QueueInv, Before, Upcoming, nozzleVars
<1> QED
  BY <1>2, <1>3, <1>5

\* A step that only goes on.
LEMMA GoesOnOnce ==
  ASSUME TypeInv, OnceInv, NEW h \in Handlers, UNCHANGED <<nozzleVars, syslogVars>>,
         SendToPeer(h) \/ LoadIndex(h) \/ Respond(h)
  PROVE  OnceInv'
<1>i. ProxyInv /\ QueueInv
  BY DEF TypeInv, OnceInv
<1>1. PICK k : /\ Became(h, k) /\ k.caller = handler[h].caller
               /\ k.batch \in {<<>>, handler[h].batch} /\ k.parts = handler[h].parts
               /\ UNCHANGED <<routes, peer, stored>>
  BY <1>i, SendToPeerIs, LoadIndexIs, RespondIs
<1>2. CallsDrop
  BY <1>1 DEF CallsDrop
<1>3. /\ \A q : Waits(q) => Waits(q)'
      /\ QueueInv' /\ \A e : Before(e)' => Before(e)
  BY <1>i, <1>1, HandleKeeps
<1>4. \A p \in Peers : PeerOnce(p)' /\ \A e : HeldBy(p, e)' => HeldBy(p, e)
  BY <1>1, <1>3, PeerStays DEF OnceInv
<1>5. connection'.sending <= connection'.received
  BY DEF OnceInv, syslogVars
<1> QED
  BY <1>1, <1>2, <1>3, <1>4, <1>5, DropsOnce

\* The head of a batch goes from it to the parts of its route, once to each.
LEMMA LookUpOnce ==
  ASSUME TypeInv, OnceInv, NEW h \in Handlers, UNCHANGED <<nozzleVars, syslogVars>>,
         LookUp(h)
  PROVE  OnceInv'
<1>i. ProxyInv /\ QueueInv
  BY DEF TypeInv, OnceInv
<1> DEFINE c == handler[h]
           head == Head(c.batch)
<1>1. /\ UNCHANGED <<routes, peer, stored>> /\ c.batch # <<>> /\ head \in Envelopes
      /\ \E k : /\ Became(h, k) /\ k.caller = c.caller /\ k.batch = Tail(c.batch)
                /\ \A n \in Nodes : k.parts[n] =
                     IF n \in routes[Entry][SourceOf(head)]
                     THEN Append(c.parts[n], head) ELSE c.parts[n]
  BY <1>i, LookUpIs
<1>2. PICK k : /\ Became(h, k) /\ k.caller = c.caller /\ k.batch = Tail(c.batch)
               /\ \A n \in Nodes : k.parts[n] =
                    IF n \in routes[Entry][SourceOf(head)]
                    THEN Append(c.parts[n], head) ELSE c.parts[n]
  BY <1>1
<1>3. /\ \A q : Waits(q) => Waits(q)'
      /\ QueueInv' /\ \A e : Before(e)' => Before(e)
      /\ handler'[h] = k /\ \A g \in Handlers : g # h => handler'[g] = handler[g]
  BY <1>i, <1>2, HandleKeeps
<1>4. c \in Calls /\ c.batch \in Seq(Envelopes) /\ \A n \in Nodes : c.parts[n] \in Seq(Envelopes)
  <2>1. c \in Calls
    BY <1>i DEF ProxyInv, ProxyTypeOK
  <2> QED
    BY <2>1, CallTyped
<1>5. Injective(c.batch) /\ \A n \in Nodes : Injective(c.parts[n])
  BY DEF OnceInv, CallsOnce
<1> HIDE DEF c, head
<1>6. /\ head \in Range(c.batch) /\ Range(k.batch) = Range(c.batch) \ {head}
      /\ Injective(k.batch)
  BY <1>1, <1>2, <1>4, <1>5, TailIs DEF head
<1>7. \A n \in Nodes : head \notin Range(c.parts[n])
  <2> SUFFICES ASSUME NEW n \in Nodes, head \in Range(c.parts[n])
               PROVE  FALSE
    OBVIOUS
  <2>1. At("call", h, head, n) /\ At("part", h, head, n)
    BY <1>6 DEF At, c
  <2>2. OnePlace(head, n)
    BY <1>1 DEF OnceInv
  <2>3. "call" \in Kinds /\ "part" \in Kinds /\ h \in Keys
    BY DEF Kinds, Keys
  <2>4. "call" = "part"
    BY <2>1, <2>2, <2>3 DEF OnePlace
  <2> QED
    BY <2>4
<1>8. \A n \in Nodes : /\ Injective(k.parts[n])
                       /\ \A e \in Range(k.parts[n]) : e \in Range(c.parts[n]) \/ e = head
  <2> SUFFICES ASSUME NEW n \in Nodes
               PROVE  /\ Injective(k.parts[n])
                      /\ \A e \in Range(k.parts[n]) : e \in Range(c.parts[n]) \/ e = head
    OBVIOUS
  <2>1. CASE k.parts[n] = c.parts[n]
    BY <1>5, <2>1
  <2>2. CASE k.parts[n] = Append(c.parts[n], head)
    BY <1>1, <1>4, <1>5, <1>7, <2>2, AppendIs
  <2> QED
    BY <1>2, <2>1, <2>2
<1>9. CallsOnce'
  <2> SUFFICES ASSUME NEW g \in Handlers
               PROVE  /\ Injective(handler'[g].batch)
                      /\ \A n \in Nodes : Injective(handler'[g].parts[n])
    BY DEF CallsOnce
  <2> QED
    BY <1>3, <1>6, <1>8 DEF OnceInv, CallsOnce
<1>10. \A p \in Peers : PeerOnce(p)' /\ \A e : HeldBy(p, e)' => HeldBy(p, e)
  BY <1>1, <1>3, PeerStays DEF OnceInv
<1>11. ASSUME NEW e \in Envelopes, NEW n \in Nodes
       PROVE  OnePlace(e, n)'
  <2>1. OnePlace(e, n)
    BY DEF OnceInv
  <2>2. "call" \in Kinds /\ "part" \in Kinds /\ h \in Keys
    BY DEF Kinds, Keys
  <2>3. \A m \in Nodes \ {n} : HeldBy(<<m, n>>, e)' => HeldBy(<<m, n>>, e)
    BY <1>10, IngressConstants
  <2>4. Before(e)' => Before(e)
    BY <1>3
  <2>5. stored'[n][e] > 0 => stored[n][e] > 0
    BY <1>1
  <2>6. \A g \in Handlers :
          /\ e \in Range(handler'[g].batch) => e \in Range(handler[g].batch)
          /\ e \in Range(handler'[g].parts[n]) =>
               e \in Range(handler[g].parts[n]) \/ ("part" = "part" /\ h = g)
    BY <1>3, <1>6 DEF c
  <2>7. At("part", h, e, n)' =>
          At("part", h, e, n) \/ (At("call", h, e, n) /\ ~At("call", h, e, n)')
    BY <1>3, <1>6, <1>8 DEF At, c
  <2> QED
    BY <2>1, <2>2, <2>3, <2>4, <2>5, <2>6, <2>7, PlaceChanges
<1>12. connection'.sending <= connection'.received /\ StoredOncePerNode'
  BY <1>1 DEF OnceInv, syslogVars, StoredOncePerNode
<1> QED
  BY <1>3, <1>9, <1>10, <1>11, <1>12 DEF OnceInv

\* A part goes from the handler to the store.
LEMMA PutOnce ==
  ASSUME TypeInv, OnceInv, NEW h \in Handlers, UNCHANGED <<nozzleVars, syslogVars>>,
         PutLocally(h)
  PROVE  OnceInv'
<1>i. ProxyInv /\ QueueInv
  BY DEF TypeInv, OnceInv
<1> DEFINE c == handler[h]
<1>1. /\ UNCHANGED <<routes, peer>>
      /\ stored' \in [Nodes -> [Envelopes -> 0 .. 2]]
      /\ \A n \in Nodes, e \in Envelopes : stored'[n][e] =
           IF n = c.node /\ e \in Range(c.parts[n])
           THEN (IF stored[n][e] = 2 THEN 2 ELSE stored[n][e] + 1) ELSE stored[n][e]
      /\ \E k : /\ Became(h, k) /\ k.caller = c.caller /\ k.batch = c.batch
                /\ k.parts = [c.parts EXCEPT ![c.node] = <<>>]
  BY <1>i, PutLocallyIs
<1>2. PICK k : /\ Became(h, k) /\ k.caller = c.caller /\ k.batch = c.batch
               /\ k.parts = [c.parts EXCEPT ![c.node] = <<>>]
  BY <1>1
<1>3. /\ \A q : Waits(q) => Waits(q)'
      /\ QueueInv' /\ \A e : Before(e)' => Before(e)
      /\ handler'[h] = k /\ \A g \in Handlers : g # h => handler'[g] = handler[g]
  BY <1>i, <1>2, HandleKeeps
<1>4. c \in Calls /\ c.node \in Nodes /\ c.parts \in [Nodes -> Seq(Envelopes)]
  <2>1. c \in Calls
    BY <1>i DEF ProxyInv, ProxyTypeOK
  <2> QED
    BY <2>1, CallTyped
<1> HIDE DEF c
<1>5. k.parts[c.node] = <<>> /\ \A n \in Nodes \ {c.node} : k.parts[n] = c.parts[n]
  BY <1>2, <1>4
<1>6. CallsOnce'
  <2> SUFFICES ASSUME NEW g \in Handlers
               PROVE  /\ Injective(handler'[g].batch)
                      /\ \A n \in Nodes : Injective(handler'[g].parts[n])
    BY DEF CallsOnce
  <2>1. CASE g = h
    BY <1>2, <1>3, <1>5, <2>1, EmptySeqIs DEF c, OnceInv, CallsOnce
  <2>2. CASE g # h
    BY <1>3, <2>2 DEF OnceInv, CallsOnce
  <2> QED
    BY <2>1, <2>2
<1>7. \A p \in Peers : PeerOnce(p)' /\ \A e : HeldBy(p, e)' => HeldBy(p, e)
  BY <1>1, <1>3, PeerStays DEF OnceInv
<1>8. ASSUME NEW e \in Envelopes, NEW n \in Nodes
      PROVE  OnePlace(e, n)' /\ stored'[n][e] <= 1
  <2>1. OnePlace(e, n)
    BY DEF OnceInv
  <2>2. "stored" \in Kinds /\ "part" \in Kinds /\ h \in Keys /\ 0 \in Keys
    BY DEF Kinds, Keys
  <2>3. \A m \in Nodes \ {n} : HeldBy(<<m, n>>, e)' => HeldBy(<<m, n>>, e)
    BY <1>7, IngressConstants
  <2>4. Before(e)' => Before(e)
    BY <1>3
  <2>5. stored'[n][e] > 0 => stored[n][e] > 0 \/ ("stored" = "stored" /\ 0 = 0)
    OBVIOUS
  <2>6. \A g \in Handlers :
          /\ e \in Range(handler'[g].batch) => e \in Range(handler[g].batch)
          /\ e \in Range(handler'[g].parts[n]) => e \in Range(handler[g].parts[n])
    BY <1>2, <1>3, <1>5, EmptySeqIs DEF c
  <2>7. At("stored", 0, e, n)' =>
          At("stored", 0, e, n) \/ (At("part", h, e, n) /\ ~At("part", h, e, n)')
    <3> SUFFICES ASSUME stored'[n][e] > 0, ~(stored[n][e] > 0)
                 PROVE  At("part", h, e, n) /\ ~At("part", h, e, n)'
      BY DEF At
    <3>1. n = c.node /\ e \in Range(c.parts[n])
      BY <1>1 DEF c
    <3>2. e \notin Range(handler'[h].parts[n])
      BY <1>3, <1>5, <3>1, EmptySeqIs
    <3> QED
      BY <3>1, <3>2 DEF At, c
  <2>8. OnePlace(e, n)'
    BY <2>1, <2>2, <2>3, <2>4, <2>5, <2>6, <2>7, PlaceChanges
  <2>9. stored'[n][e] <= 1
    <3>1. stored[n][e] \in 0 .. 2 /\ stored[n][e] <= 1
      BY <1>i DEF OnceInv, StoredOncePerNode, ProxyInv, ProxyTypeOK
    <3>2. CASE n = c.node /\ e \in Range(c.parts[n])
      <4>1. At("part", h, e, n)
        BY <3>2 DEF At, c
      <4>2. ~At("stored", 0, e, n)
        <5>1. At("stored", 0, e, n) => "stored" = "part"
          BY <2>1, <2>2, <4>1 DEF OnePlace
        <5> QED
          BY <5>1
      <4>3. stored[n][e] = 0
        BY <3>1, <4>2 DEF At
      <4> QED
        BY <1>1, <3>2, <4>3 DEF c
    <3>3. CASE ~(n = c.node /\ e \in Range(c.parts[n]))
      BY <1>1, <3>1, <3>3 DEF c
    <3> QED
      BY <3>2, <3>3
  <2> QED
    BY <2>8, <2>9
<1>9. connection'.sending <= connection'.received /\ StoredOncePerNode'
  BY <1>8 DEF OnceInv, syslogVars, StoredOncePerNode
<1> QED
  BY <1>3, <1>6, <1>7, <1>8, <1>9 DEF OnceInv

\* What a Set adds to a diode, and what TryNext takes from it.
LEMMA SlottedSet ==
  ASSUME NEW n \in Nat \ {0}, NEW D, NEW d \in Diodes(n, D), NEW k \in Nat, NEW x \in D,
         SlotsOnce(d), ~Slotted(d, x)
  PROVE  /\ SlotsOnce(SetAt(d, k, x))
         /\ \A e : Slotted(SetAt(d, k, x), e) => Slotted(d, e) \/ e = x
<1> DEFINE f == SetAt(d, k, x)
           b == [seq |-> k, data |-> x]
           at == k % n
<1>1. /\ f \in Diodes(n, D)
      /\ \A i \in 0 .. n - 1 : f.slots[i] = IF i = at THEN b ELSE d.slots[i]
  BY SetIs
<1>2. DOMAIN d.slots = 0 .. n - 1 /\ DOMAIN f.slots = 0 .. n - 1 /\ b.data = x
  BY <1>1 DEF Diodes
<1> HIDE DEF f, b, at
<1>3. \A e : Slotted(f, e) => Slotted(d, e) \/ e = x
  BY <1>1, <1>2 DEF Slotted
<1>4. ASSUME NEW i \in 0 .. n - 1, NEW j \in 0 .. n - 1,
             f.slots[i] # Nothing, f.slots[j] # Nothing, f.slots[i].data = f.slots[j].data
      PROVE  i = j
  <2>1. CASE i # at /\ j # at
    BY <1>1, <1>2, <1>4, <2>1 DEF SlotsOnce
  <2>2. CASE i = at /\ j # at
    BY <1>1, <1>2, <1>4, <2>2 DEF Slotted
  <2>3. CASE i # at /\ j = at
    BY <1>1, <1>2, <1>4, <2>3 DEF Slotted
  <2> QED
    BY <2>1, <2>2, <2>3
<1>5. SlotsOnce(f)
  BY <1>2, <1>4 DEF SlotsOnce
<1> QED
  BY <1>3, <1>5 DEF f

\* An envelope TryNext has found is no longer in the diode.
LEMMA SlottedRead ==
  ASSUME NEW n \in Nat \ {0}, NEW D, NEW d \in Diodes(n, D), SlotsOnce(d)
  PROVE  /\ SlotsOnce(Read(d))
         /\ \A e : Slotted(Read(d), e) => Slotted(d, e)
         /\ Found(d) => /\ NextBucket(d).data \in D /\ Slotted(d, NextBucket(d).data)
                        /\ ~Slotted(Read(d), NextBucket(d).data)
<1> DEFINE f == Read(d)
           b == NextBucket(d)
           at == d.readIndex % n
<1>1. /\ f \in Diodes(n, D) /\ at \in 0 .. n - 1 /\ b = d.slots[at]
      /\ \A i \in 0 .. n - 1 : f.slots[i] = IF i = at THEN Nothing ELSE d.slots[i]
      /\ Found(d) => b \in Buckets(D)
  BY ReadIs
<1>2. DOMAIN d.slots = 0 .. n - 1 /\ DOMAIN f.slots = 0 .. n - 1
  BY <1>1 DEF Diodes
<1>3. Found(d) => b # Nothing /\ b.data \in D
  BY <1>1 DEF Found, Buckets
<1> HIDE DEF f, b, at
<1>4. SlotsOnce(f)
  BY <1>1, <1>2 DEF SlotsOnce
<1>5. \A e : Slotted(f, e) => Slotted(d, e)
  BY <1>1, <1>2 DEF Slotted
<1>6. ASSUME Found(d)
      PROVE  Slotted(d, b.data) /\ ~Slotted(f, b.data)
  <2>1. Slotted(d, b.data)
    BY <1>1, <1>2, <1>3, <1>6 DEF Slotted
  <2>2. ~Slotted(f, b.data)
    BY <1>1, <1>2, <1>3, <1>6 DEF Slotted, SlotsOnce
  <2> QED
    BY <2>1, <2>2
<1> QED
  BY <1>3, <1>4, <1>5, <1>6 DEF f, b

\* The head of a part goes from the handler to the client's diode.
LEMMA BucketOnce ==
  ASSUME TypeInv, OnceInv, NEW h \in Handlers, UNCHANGED <<nozzleVars, syslogVars>>,
         StoreBucket(h)
  PROVE  OnceInv'
<1>i. ProxyInv /\ QueueInv
  BY DEF TypeInv, OnceInv
<1> DEFINE c == handler[h]
<1>4. c \in Calls /\ c.node \in Nodes /\ c.to \in Nodes /\ c.parts \in [Nodes -> Seq(Envelopes)]
  <2>1. c \in Calls
    BY <1>i DEF ProxyInv, ProxyTypeOK
  <2> QED
    BY <2>1, CallTyped
<1>n. PICK node \in Nodes, to \in Nodes : c.node = node /\ c.to = to
  BY <1>4
<1> DEFINE p == <<node, to>>
           head == Head(c.parts[to])
           d == peer[p].buffer
<1>1. /\ UNCHANGED <<routes, stored>>
      /\ p \in Peers /\ to \in Nodes /\ c.parts[to] # <<>>
      /\ d \in Diodes(PeerBufferSize, Envelopes) /\ c.index \in Nat
      /\ head \in Envelopes
      /\ \E s : /\ s.buffer = SetAt(d, c.index, head)
                /\ s \in PeerStates /\ s.batch = peer[p].batch
                /\ s.sending = peer[p].sending
                /\ peer' = [peer EXCEPT ![p] = s]
      /\ \E k : /\ Became(h, k) /\ k.caller = c.caller /\ k.batch = c.batch
                /\ k.parts = [c.parts EXCEPT ![to] = Tail(c.parts[to])]
  BY <1>i, <1>n, StoreBucketIs
<1>2. PICK k : /\ Became(h, k) /\ k.caller = c.caller /\ k.batch = c.batch
               /\ k.parts = [c.parts EXCEPT ![to] = Tail(c.parts[to])]
  BY <1>1
<1>3. /\ \A q : Waits(q) => Waits(q)'
      /\ QueueInv' /\ \A e : Before(e)' => Before(e)
      /\ handler'[h] = k /\ \A g \in Handlers : g # h => handler'[g] = handler[g]
  BY <1>i, <1>2, HandleKeeps
<1>5. /\ peer \in [Peers -> PeerStates]
      /\ peer'[p].buffer = SetAt(d, c.index, head)
      /\ peer'[p].batch = peer[p].batch /\ peer'[p].sending = peer[p].sending
      /\ \A q \in Peers : q # p => peer'[q] = peer[q]
  <2>1. peer \in [Peers -> PeerStates]
    BY <1>i DEF ProxyInv, ProxyTypeOK
  <2> QED
    BY <1>1, <2>1
<1>6. Injective(c.batch) /\ \A n \in Nodes : Injective(c.parts[n])
  BY DEF OnceInv, CallsOnce
<1>p. node # to /\ p[1] = node /\ p[2] = to
  BY <1>1, IngressConstants
<1> HIDE DEF c, head, d, p
<1>7. /\ head \in Range(c.parts[to]) /\ Range(k.parts[to]) = Range(c.parts[to]) \ {head}
      /\ Injective(k.parts[to])
      /\ \A n \in Nodes \ {to} : k.parts[n] = c.parts[n]
  <2>1. k.parts[to] = Tail(c.parts[to]) /\ \A n \in Nodes \ {to} : k.parts[n] = c.parts[n]
    BY <1>1, <1>2, <1>4
  <2>2. c.parts[to] \in Seq(Envelopes) /\ Injective(c.parts[to])
    BY <1>1, <1>4, <1>6
  <2> QED
    BY <1>1, <2>1, <2>2, TailIs DEF head
<1>8. ~HeldBy(p, head)
  <2> SUFFICES ASSUME HeldBy(p, head)
               PROVE  FALSE
    OBVIOUS
  <2>1. At("part", h, head, to)
    BY <1>7 DEF At, c
  <2>2. At("peer", node, head, to)
    BY <1>4, <1>p DEF At, p
  <2>3. OnePlace(head, to)
    BY <1>1 DEF OnceInv
  <2>4. "part" \in Kinds /\ "peer" \in Kinds /\ h \in Keys /\ node \in Keys
    BY <1>4 DEF Kinds, Keys
  <2>5. "part" = "peer"
    BY <2>1, <2>2, <2>3, <2>4 DEF OnePlace
  <2> QED
    BY <2>5
<1>9. PeerOnce(p)
  BY <1>1 DEF OnceInv
<1>10. /\ SlotsOnce(peer'[p].buffer)
       /\ \A e : Slotted(peer'[p].buffer, e) => Slotted(d, e) \/ e = head
  <2>1. SlotsOnce(d) /\ ~Slotted(d, head)
    BY <1>8, <1>9 DEF PeerOnce, HeldBy, d
  <2> QED
    BY <1>1, <1>5, <2>1, SlottedSet, IngressConstants
<1>11. PeerOnce(p)' /\ \A e : HeldBy(p, e)' => HeldBy(p, e) \/ e = head
  <2>1. \A e : HeldBy(p, e)' => HeldBy(p, e) \/ e = head
    BY <1>3, <1>5, <1>10 DEF HeldBy, d
  <2>2. /\ Injective(peer[p].batch)
        /\ \A e \in Range(peer[p].batch) : ~Slotted(d, e) /\ e # head
    BY <1>8, <1>9 DEF PeerOnce, HeldBy, d
  <2>3. ~Waits(p)' =>
          /\ Injective(peer[p].sending)
          /\ \A e \in Range(peer[p].sending) :
               ~Slotted(d, e) /\ e # head /\ e \notin Range(peer[p].batch)
    BY <1>3, <1>8, <1>9 DEF PeerOnce, HeldBy, d
  <2> QED
    BY <1>5, <1>10, <2>1, <2>2, <2>3 DEF PeerOnce
<1>12. \A q \in Peers : q # p => PeerOnce(q)' /\ \A e : HeldBy(q, e)' => HeldBy(q, e)
  BY <1>3, <1>5, PeerStays DEF OnceInv
<1>13. CallsOnce'
  <2> SUFFICES ASSUME NEW g \in Handlers
               PROVE  /\ Injective(handler'[g].batch)
                      /\ \A n \in Nodes : Injective(handler'[g].parts[n])
    BY DEF CallsOnce
  <2>1. CASE g = h
    BY <1>2, <1>3, <1>6, <1>7, <2>1
  <2>2. CASE g # h
    BY <1>3, <2>2 DEF OnceInv, CallsOnce
  <2> QED
    BY <2>1, <2>2
<1>14. ASSUME NEW e \in Envelopes, NEW n \in Nodes
       PROVE  OnePlace(e, n)'
  <2>1. OnePlace(e, n)
    BY DEF OnceInv
  <2>2. "part" \in Kinds /\ "peer" \in Kinds /\ h \in Keys /\ node \in Keys
    BY <1>4 DEF Kinds, Keys
  <2>3. \A m \in Nodes \ {n} :
          HeldBy(<<m, n>>, e)' => HeldBy(<<m, n>>, e) \/ ("peer" = "peer" /\ node = m)
    <3> SUFFICES ASSUME NEW m \in Nodes \ {n}, HeldBy(<<m, n>>, e)', node # m
                 PROVE  HeldBy(<<m, n>>, e)
      OBVIOUS
    <3>1. <<m, n>> \in Peers /\ <<m, n>> # p
      BY IngressConstants DEF p
    <3> QED
      BY <1>12, <3>1
  <2>4. Before(e)' => Before(e)
    BY <1>3
  <2>5. stored'[n][e] > 0 => stored[n][e] > 0
    BY <1>1
  <2>6. \A g \in Handlers :
          /\ e \in Range(handler'[g].batch) => e \in Range(handler[g].batch)
          /\ e \in Range(handler'[g].parts[n]) => e \in Range(handler[g].parts[n])
    BY <1>2, <1>3, <1>7 DEF c
  <2>7. At("peer", node, e, n)' =>
          \/ At("peer", node, e, n)
          \/ At("part", h, e, n) /\ ~At("part", h, e, n)'
    <3> SUFFICES ASSUME At("peer", node, e, n)', ~At("peer", node, e, n)
                 PROVE  At("part", h, e, n) /\ ~At("part", h, e, n)'
      OBVIOUS
    <3>1. node # n /\ HeldBy(<<node, n>>, e)' /\ ~HeldBy(<<node, n>>, e)
      BY <1>4 DEF At
    <3>2. <<node, n>> = p
      BY <1>4, <1>12, <3>1, IngressConstants
    <3>3. n = to /\ e = head
      BY <1>11, <1>p, <3>1, <3>2
    <3>4. e \in Range(c.parts[n]) /\ e \notin Range(handler'[h].parts[n])
      BY <1>3, <1>7, <3>3
    <3> QED
      BY <3>4 DEF At, c
  <2> QED
    BY <2>1, <2>2, <2>3, <2>4, <2>5, <2>6, <2>7, PlaceChanges
<1>15. /\ connection'.sending <= connection'.received /\ StoredOncePerNode'
       /\ \A q \in Peers : PeerOnce(q)'
  BY <1>1, <1>11, <1>12 DEF OnceInv, syslogVars, StoredOncePerNode
<1> QED
  BY <1>3, <1>13, <1>14, <1>15 DEF OnceInv

\* A client's batcher takes what it finds from the diode into its batch.
LEMMA BatchForPeerOnce ==
  ASSUME TypeInv, OnceInv, NEW p \in Peers, NEW lapsed \in BOOLEAN,
         BatchForPeer(p, lapsed), UNCHANGED <<nozzleVars, syslogVars>>
  PROVE  OnceInv'
<1>i. ProxyInv
  BY DEF TypeInv
<1> DEFINE b == Gathered(peer[p])
           flush == FlushPeer(p, b, lapsed)
           d == peer[p].buffer
<1>1. /\ UNCHANGED <<routes, handler, stored>>
      /\ peer[p] \in PeerStates /\ peer[p].sending = <<>> /\ b \in Seq(Envelopes)
      /\ \E s : /\ s \in PeerStates /\ Len(s.batch) < PeerBatchSize
                /\ s.buffer = Read(peer[p].buffer)
                /\ s.batch = IF flush THEN <<>> ELSE b
                /\ s.sending = IF flush THEN b ELSE <<>>
                /\ peer' = [peer EXCEPT ![p] = s]
  BY <1>i, BatchForPeerIs
<1>2. /\ peer'[p].buffer = Read(d)
      /\ \/ peer'[p].batch = <<>> /\ peer'[p].sending = b
         \/ peer'[p].batch = b /\ peer'[p].sending = <<>>
      /\ \A q \in Peers : q # p => peer'[q] = peer[q]
  <2>1. peer \in [Peers -> PeerStates]
    BY <1>i DEF ProxyInv, ProxyTypeOK
  <2> HIDE DEF b, flush
  <2> QED
    BY <1>1, <2>1
<1>3. d \in Diodes(PeerBufferSize, Envelopes) /\ peer[p].batch \in Seq(Envelopes)
  BY <1>1 DEF PeerStates
<1>4. /\ SlotsOnce(d) /\ Injective(peer[p].batch)
      /\ \A e \in Range(peer[p].batch) : ~Slotted(d, e)
  BY DEF OnceInv, PeerOnce
<1>5. /\ SlotsOnce(Read(d))
      /\ \A e : Slotted(Read(d), e) => Slotted(d, e)
      /\ Found(d) => /\ NextBucket(d).data \in Envelopes /\ Slotted(d, NextBucket(d).data)
                     /\ ~Slotted(Read(d), NextBucket(d).data)
  BY <1>3, <1>4, SlottedRead, IngressConstants
<1>6. /\ Injective(b)
      /\ \A e \in Range(b) : HeldBy(p, e) /\ ~Slotted(Read(d), e)
  <2>1. CASE Found(d)
    <3>1. b = Append(peer[p].batch, NextBucket(d).data)
      BY <2>1 DEF Gathered
    <3>2. NextBucket(d).data \notin Range(peer[p].batch)
      BY <1>4, <1>5, <2>1
    <3> DEFINE x == NextBucket(d).data
    <3> HIDE DEF b, x
    <3>3. x \in Envelopes /\ x \notin Range(peer[p].batch) /\ b = Append(peer[p].batch, x)
      BY <1>5, <2>1, <3>1, <3>2 DEF x
    <3>4. Injective(b) /\ Range(b) = Range(peer[p].batch) \cup {x}
      BY <1>3, <1>4, <3>3, AppendIs
    <3> QED
      BY <1>4, <1>5, <2>1, <3>4 DEF HeldBy, x
  <2>2. CASE ~Found(d)
    <3>1. b = peer[p].batch
      BY <2>2 DEF Gathered
    <3> QED
      BY <1>4, <1>5, <3>1 DEF HeldBy
  <2> QED
    BY <2>1, <2>2
<1> HIDE DEF b, flush, d
<1>7. PeerOnce(p)' /\ \A e : HeldBy(p, e)' => HeldBy(p, e)
  <2>1. CASE peer'[p].batch = <<>> /\ peer'[p].sending = b
    <3>1. PeerOnce(p)'
      BY <1>2, <1>5, <1>6, <2>1, EmptySeqIs DEF PeerOnce
    <3>2. \A e : HeldBy(p, e)' => HeldBy(p, e)
      BY <1>2, <1>5, <1>6, <2>1, EmptySeqIs DEF HeldBy, d
    <3> QED
      BY <3>1, <3>2
  <2>2. CASE peer'[p].batch = b /\ peer'[p].sending = <<>>
    <3>1. PeerOnce(p)'
      BY <1>2, <1>5, <1>6, <2>2, EmptySeqIs DEF PeerOnce
    <3>2. \A e : HeldBy(p, e)' => HeldBy(p, e)
      BY <1>2, <1>5, <1>6, <2>2, EmptySeqIs DEF HeldBy, d
    <3> QED
      BY <3>1, <3>2
  <2> QED
    BY <1>2, <2>1, <2>2
<1>8. \A c : Waits(c) => Waits(c)'
  BY <1>1 DEF Waits
<1>9. \A q \in Peers : PeerOnce(q)' /\ \A e : HeldBy(q, e)' => HeldBy(q, e)
  BY <1>2, <1>7, <1>8, PeerStays DEF OnceInv
<1>10. CallsDrop /\ UNCHANGED stored
  BY <1>1 DEF CallsDrop
<1>11. QueueInv' /\ connection'.sending <= connection'.received
  BY DEF OnceInv, QueueInv, nozzleVars, syslogVars
<1>12. \A e : Before(e)' => Before(e)
  BY <1>8, UnsentStays DEF Before, Upcoming, nozzleVars, syslogVars
<1> QED
  BY <1>9, <1>10, <1>11, <1>12, DropsOnce

-----------------------------------------------------------------------------
\* Whatever the nozzle does in a step, what it has not sent had not been sent before.
LEMMA NozzleOnce ==
  ASSUME TypeInv, QueueInv, [Next]_vars
  PROVE  QueueInv' /\ \A e : Upcoming(e)' => Upcoming(e)
<1>i. NozzleInv
  BY DEF TypeInv
<1>1. CASE ReadEnvelope
  BY <1>i, <1>1, ReadOnce
<1>2. ASSUME NEW b \in BOOLEAN, BatchEnvelopes(b)
      PROVE  QueueInv' /\ \A e : Upcoming(e)' => Upcoming(e)
  BY <1>i, <1>2, BatchOnce
<1>3. ASSUME NEW w \in Writers, TakeBatch(w)
      PROVE  QueueInv' /\ \A e : Upcoming(e)' => Upcoming(e)
  BY <1>i, <1>3, TakeOnce
<1>4. CASE UNCHANGED <<streamBuffer, ingressInc, envelopes, ch>>
  BY <1>4 DEF QueueInv, Upcoming
<1>5. ASSUME NEW w \in Writers, NEW err \in BOOLEAN, SendReturns(w, err)
      PROVE  UNCHANGED <<streamBuffer, ingressInc, envelopes, ch>>
  BY <1>5 DEF SendReturns
<1>6. CASE UNCHANGED nozzleVars
  BY <1>4, <1>6 DEF nozzleVars
<1>a. CASE ReadStream
  BY <1>1, <1>a DEF ReadStream
<1>b. ASSUME NEW b \in BOOLEAN, Batch(b)
      PROVE  QueueInv' /\ \A e : Upcoming(e)' => Upcoming(e)
  BY <1>2, <1>b DEF Batch
<1>c. ASSUME NEW w \in Writers, Write(w) \/ Written(w) \/ WriteFails(w)
      PROVE  QueueInv' /\ \A e : Upcoming(e)' => Upcoming(e)
  <2>1. TakeBatch(w) \/ SendReturns(w, TRUE) \/ SendReturns(w, FALSE)
    BY <1>c DEF Write, Written, WriteFails
  <2> QED
    BY <1>3, <1>4, <1>5, <2>1
<1>d. ASSUME NEW p \in Peers, NEW b \in BOOLEAN,
             BatchPeer(p, b) \/ WritePeer(p) \/ PeerCallFails(p)
      PROVE  QueueInv' /\ \A e : Upcoming(e)' => Upcoming(e)
  BY <1>6, <1>d DEF BatchPeer, WritePeer, PeerCallFails
<1>e. ASSUME Parse \/ Forward \/ Forwarded \/ ForwardFails \/ ChangeRoutes
             \/ \E h \in Handlers : Handle(h)
      PROVE  QueueInv' /\ \A e : Upcoming(e)' => Upcoming(e)
  BY <1>6, <1>e DEF Parse, Forward, Forwarded, ForwardFails, ChangeRoutes, Handle
<1>f. CASE UNCHANGED vars
  BY <1>6, <1>f DEF vars
<1> QED
  BY <1>a, <1>b, <1>c, <1>d, <1>e, <1>f DEF Next

\* The syslog server's steps.
LEMMA EnvelopesApart ==
  /\ 0 \notin Messages /\ Messages \subseteq Nat
  /\ \A m \in Messages : EnvelopeOf(m) \notin Streamed
  /\ \A m, l \in Messages : EnvelopeOf(m) = EnvelopeOf(l) => m = l
<1>1. /\ Streamed = 1 .. Cardinality(Streamed) /\ Messages = 1 .. Cardinality(Messages)
      /\ Cardinality(Streamed) \in Nat /\ Cardinality(Messages) \in Nat
  BY IngressConstants
<1> DEFINE n == Cardinality(Streamed)
           k == Cardinality(Messages)
<1> HIDE DEF n, k
<1>2. Streamed = 1 .. n /\ Messages = 1 .. k /\ n \in Nat /\ k \in Nat
  BY <1>1 DEF n, k
<1>3. \A m : EnvelopeOf(m) = n + m
  BY DEF EnvelopeOf, n
<1> QED
  BY <1>2, <1>3

\* The connection reads the next message.
LEMMA ParseOnce ==
  ASSUME TypeInv, connection.sending <= connection.received, Parse
  PROVE  connection'.sending <= connection'.received /\ \A e : Unsent(e)' => Unsent(e)
<1>1. /\ connection \in [open : BOOLEAN, received : 0 .. Cardinality(Messages),
                         sending : Messages \cup {0}]
      /\ handler' = handler
  BY DEF TypeInv, TypeOK, SyslogTypeOK, Parse, proxyVars
<1>2. connection.received \in Nat /\ connection.sending \in Nat
  BY <1>1, EnvelopesApart, IngressConstants
<1>3. /\ connection.sending = 0
      /\ \/ connection' = [connection EXCEPT !.received = connection.received + 1,
                                             !.sending = connection.received + 1]
         \/ connection' = [connection EXCEPT !.received = connection.received + 1]
         \/ connection' = [connection EXCEPT !.open = FALSE]
  BY DEF Parse, ParseMessage, Disconnect
<1>4. /\ connection'.received \in {connection.received, connection.received + 1}
      /\ connection'.sending = 0 \/ connection'.sending = connection'.received
      /\ connection'.sending # 0 => connection'.received = connection.received + 1
  BY <1>1, <1>3
<1>5. ASSUME NEW e, Unsent(e)'
      PROVE  Unsent(e)
  <2>1. PICK m \in Messages :
          /\ e = EnvelopeOf(m)
          /\ \/ connection'.received < m
             \/ connection'.sending = m /\ ~Waits(Syslog)'
    BY <1>5 DEF Unsent, EnvelopeOf
  <2>2. connection.received < m
    BY <1>2, <1>4, <2>1, EnvelopesApart
  <2> QED
    BY <2>1, <2>2 DEF Unsent
<1>6. connection'.sending <= connection'.received
  BY <1>2, <1>4
<1> QED
  BY <1>5, <1>6

\* The connection is done with a message.
LEMMA MessageOnce ==
  ASSUME TypeInv, NEW err \in BOOLEAN, MessageSent(err)
  PROVE  connection'.sending <= connection'.received /\ \A e : Unsent(e)' => Unsent(e)
<1>1. /\ connection \in [open : BOOLEAN, received : 0 .. Cardinality(Messages),
                         sending : Messages \cup {0}]
      /\ connection' = [connection EXCEPT !.sending = 0]
  BY DEF TypeInv, TypeOK, SyslogTypeOK, MessageSent
<1>2. /\ connection'.sending = 0 /\ connection'.received = connection.received
      /\ connection.received \in Nat
  BY <1>1, IngressConstants
<1>3. \A e : Unsent(e)' => Unsent(e)
  BY <1>2, EnvelopesApart DEF Unsent, EnvelopeOf
<1> QED
  BY <1>2, <1>3

\* A writer hands its batch to a handler of the entry node.
LEMMA WriteOnce ==
  ASSUME TypeInv, OnceInv, NEW w \in Writers, Write(w)
  PROVE  OnceInv'
<1>i. NozzleInv /\ QueueInv /\ ProxyInv
  BY DEF TypeInv, OnceInv
<1>1. /\ Head(ch) \in Seq(Envelopes) /\ w \in Callers /\ EntrySend(w, Head(ch))
      /\ UNCHANGED <<routes, peer, stored>>
  BY WriteSends
<1>2. TakeBatch(w) /\ UNCHANGED connection
  BY DEF Write, syslogVars
<1>3. /\ QueueInv' /\ Injective(Head(ch))
      /\ \A e : Upcoming(e)' => Upcoming(e)
      /\ \A e \in Range(Head(ch)) : e \in Streamed /\ Upcoming(e) /\ ~Upcoming(e)'
  BY <1>i, <1>2, TakeOnce
<1> DEFINE batch == Head(ch)
<1> HIDE DEF batch
<1>4. PICK h \in Handlers : \E k :
        /\ Begun(k, w, Entry, "lookup", batch, NoParts)
        /\ handler[h].at = "idle" /\ handler' = [handler EXCEPT ![h] = k]
  BY <1>1, EntrySendIs DEF batch
<1>5. \A q \in Callers : Waits(q) => Waits(q)'
  BY <1>i, <1>1, <1>4, BeginsWaiting
<1>6. \A e : Unsent(e)' => Unsent(e)
  BY <1>2, <1>5, UnsentStays, IngressConstants
<1>7. \A e : Before(e)' => Before(e)
  BY <1>3, <1>6 DEF Before
<1>8. \A e \in Range(batch) : Before(e) /\ ~Before(e)'
  <2> SUFFICES ASSUME NEW e \in Range(batch)
               PROVE  Before(e) /\ ~Before(e)'
    OBVIOUS
  <2>1. e \in Streamed /\ Upcoming(e) /\ ~Upcoming(e)'
    BY <1>3 DEF batch
  <2>2. ~Unsent(e)'
    BY <2>1, EnvelopesApart DEF Unsent, EnvelopeOf
  <2> QED
    BY <2>1, <2>2 DEF Before
<1>9. connection'.sending <= connection'.received
  BY <1>2 DEF OnceInv
<1>10. EntrySend(w, batch) /\ batch \in Seq(Envelopes) /\ Injective(batch)
  BY <1>1, <1>3 DEF batch
<1> QED
  BY <1>1, <1>3, <1>7, <1>8, <1>9, <1>10, EntrySendOnce

\* A syslog message goes to a handler of the entry node.
LEMMA ForwardOnce ==
  ASSUME TypeInv, OnceInv, Forward
  PROVE  OnceInv'
<1>i. NozzleInv /\ QueueInv /\ ProxyInv /\ connection.sending <= connection.received
  BY DEF TypeInv, OnceInv
<1> DEFINE x == EnvelopeOf(connection.sending)
           batch == <<x>>
<1>1. /\ x \in Envelopes /\ batch \in Seq(Envelopes)
      /\ Syslog \in Callers /\ EntrySend(Syslog, batch)
      /\ UNCHANGED <<routes, peer, stored>>
  BY ForwardSends
<1>2. /\ connection.sending # 0 /\ ~Waits(Syslog)
      /\ UNCHANGED nozzleVars /\ UNCHANGED connection
  BY DEF Forward, syslogVars
<1>3. connection.sending \in Messages /\ connection.received \in Nat
  BY <1>2, IngressConstants DEF TypeInv, TypeOK, SyslogTypeOK
<1>4. Injective(batch) /\ Range(batch) = {x}
  BY SingleIs
<1> HIDE DEF batch
<1>5. PICK h \in Handlers : \E k :
        /\ Begun(k, Syslog, Entry, "lookup", batch, NoParts)
        /\ handler[h].at = "idle" /\ handler' = [handler EXCEPT ![h] = k]
  BY <1>1, EntrySendIs
<1>6. Waits(Syslog)' /\ \A q \in Callers : Waits(q) => Waits(q)'
  BY <1>i, <1>1, <1>5, BeginsWaiting
<1>7. QueueInv' /\ \A e : Upcoming(e)' => Upcoming(e)
  BY <1>i, <1>2 DEF QueueInv, Upcoming, nozzleVars
<1>8. \A e : Before(e)' => Before(e)
  BY <1>2, <1>6, <1>7, UnsentStays DEF Before
<1>9. Unsent(x)
  BY <1>2, <1>3 DEF Unsent
<1>m. PICK m \in Messages : m = connection.sending
  BY <1>3
<1>10. ~Before(EnvelopeOf(m))'
  <2>1. ~Upcoming(EnvelopeOf(m))'
    BY EnvelopesApart DEF Upcoming, EnvelopeOf
  <2>2. ASSUME Unsent(EnvelopeOf(m))'
        PROVE  FALSE
    <3>1. PICK l \in Messages :
            /\ EnvelopeOf(m) = EnvelopeOf(l)
            /\ connection'.received < l \/ ~Waits(Syslog)'
      BY <2>2 DEF Unsent, EnvelopeOf
    <3>2. l = m
      BY <3>1, EnvelopesApart
    <3>3. connection.received < m /\ m <= connection.received
      BY <1>i, <1>2, <1>6, <1>m, <3>1, <3>2
    <3> QED
      BY <1>3, <3>3, EnvelopesApart
  <2> QED
    BY <2>1, <2>2 DEF Before, EnvelopeOf
<1>11. \A e \in Range(batch) : Before(e) /\ ~Before(e)'
  <2> SUFFICES ASSUME NEW e \in Range(batch)
               PROVE  Before(e) /\ ~Before(e)'
    OBVIOUS
  <2>1. e = EnvelopeOf(m) /\ Before(e)
    BY <1>4, <1>9, <1>m DEF Before
  <2> QED
    BY <1>10, <2>1
<1>12. connection'.sending <= connection'.received
  BY <1>i, <1>2
<1> QED
  BY <1>1, <1>4, <1>7, <1>8, <1>11, <1>12, EntrySendOnce

-----------------------------------------------------------------------------
\* Every envelope is still to come.
LEMMA InitOnce == Init => OnceInv
<1> SUFFICES ASSUME Init
             PROVE  OnceInv
  OBVIOUS
<1>1. /\ streamBuffer = EmptyDiode(StreamBufferSize) /\ ingressInc = 0
      /\ envelopes = <<>> /\ ch = <<>>
      /\ connection = [open |-> TRUE, received |-> 0, sending |-> 0]
      /\ handler = [h \in Handlers |-> NoCall]
      /\ peer = [p \in Peers |-> NewPeer]
      /\ stored = [n \in Nodes |-> [e \in Envelopes |-> 0]]
  BY DEF Init, NozzleInit, SyslogInit, ProxyInit
<1>2. QueueInv
  <2>1. /\ streamBuffer.writeIndex = 0
        /\ \A i \in 0 .. StreamBufferSize - 1 : streamBuffer.slots[i] = Nothing
    BY <1>1, EmptyIs, IngressConstants
  <2>2. DOMAIN streamBuffer.slots = 0 .. StreamBufferSize - 1
    BY <1>1 DEF EmptyDiode
  <2>3. DOMAIN ch = {}
    BY <1>1
  <2> QED
    BY <1>1, <2>1, <2>2, <2>3, EmptySeqIs DEF QueueInv
<1>3. \A h \in Handlers :
        /\ handler[h].batch = <<>> /\ \A n \in Nodes : handler[h].parts[n] = <<>>
  BY <1>1, NoCallIs
<1>4. CallsOnce
  BY <1>3, EmptySeqIs DEF CallsOnce
<1>5. ASSUME NEW p \in Peers
      PROVE  PeerOnce(p) /\ \A e : ~HeldBy(p, e)
  <2>1. /\ peer[p].buffer = EmptyDiode(PeerBufferSize)
        /\ peer[p].batch = <<>> /\ peer[p].sending = <<>>
    BY <1>1 DEF NewPeer
  <2>2. /\ \A i \in 0 .. PeerBufferSize - 1 : peer[p].buffer.slots[i] = Nothing
    BY <2>1, EmptyIs, IngressConstants
  <2>3. DOMAIN peer[p].buffer.slots = 0 .. PeerBufferSize - 1
    BY <2>1 DEF EmptyDiode
  <2>4. SlotsOnce(peer[p].buffer) /\ \A e : ~Slotted(peer[p].buffer, e)
    BY <2>2, <2>3 DEF SlotsOnce, Slotted
  <2> QED
    BY <2>1, <2>4, EmptySeqIs DEF PeerOnce, HeldBy
<1>6. ASSUME NEW e \in Envelopes, NEW n \in Nodes
      PROVE  OnePlace(e, n) /\ stored[n][e] = 0
  <2>1. stored[n][e] = 0
    BY <1>1
  <2>2. ASSUME NEW k \in Kinds, NEW a \in Keys, At(k, a, e, n)
        PROVE  k = "before" /\ a = 0
    <3>1. ~(k = "call" /\ a \in Handlers /\ e \in Range(handler[a].batch))
      BY <1>3, EmptySeqIs
    <3>2. ~(k = "part" /\ a \in Handlers /\ e \in Range(handler[a].parts[n]))
      BY <1>3, EmptySeqIs
    <3>3. ~(k = "peer" /\ a \in Nodes /\ a # n /\ HeldBy(<<a, n>>, e))
      BY <1>5, IngressConstants
    <3>4. ~(k = "stored" /\ a = 0 /\ stored[n][e] > 0)
      BY <2>1
    <3> QED
      BY <2>2, <3>1, <3>2, <3>3, <3>4 DEF At
  <2>3. OnePlace(e, n)
    BY <2>2 DEF OnePlace
  <2> QED
    BY <2>1, <2>3
<1>7. StoredOncePerNode
  BY <1>6 DEF StoredOncePerNode
<1>8. connection.sending <= connection.received
  BY <1>1
<1> QED
  BY <1>2, <1>4, <1>5, <1>6, <1>7, <1>8 DEF OnceInv

\* An envelope stays in at most one place on its way to each node.
LEMMA NextOnce == TypeInv /\ OnceInv /\ [Next]_vars => OnceInv'
<1> SUFFICES ASSUME TypeInv, OnceInv, [Next]_vars
             PROVE  OnceInv'
  OBVIOUS
<1>i. ProxyInv /\ connection.sending <= connection.received
  BY DEF TypeInv, OnceInv
<1>q. QueueInv' /\ \A e : Upcoming(e)' => Upcoming(e)
  BY NozzleOnce DEF OnceInv
\* A step that the peers and the store have no part in, and no call begins in.
<1>d. ASSUME UNCHANGED <<peer, stored>>, CallsDrop,
             \A p \in Peers : Waits(p) => Waits(p)',
             \A e : Unsent(e)' => Unsent(e),
             connection'.sending <= connection'.received
      PROVE  OnceInv'
  <2>1. \A e : Before(e)' => Before(e)
    BY <1>q, <1>d DEF Before
  <2>2. \A p \in Peers : PeerOnce(p)' /\ \A e : HeldBy(p, e)' => HeldBy(p, e)
    BY <1>d, PeerStays DEF OnceInv
  <2> QED
    BY <1>q, <1>d, <2>1, <2>2, DropsOnce
<1>u. ASSUME UNCHANGED <<handler, peer, stored, connection>>
      PROVE  OnceInv'
  <2>1. CallsDrop /\ \A q : Waits(q) => Waits(q)'
    BY <1>u DEF CallsDrop, Waits
  <2>2. \A e : Unsent(e)' => Unsent(e)
    BY <1>u, <2>1, UnsentStays
  <2> QED
    BY <1>d, <1>i, <1>u, <2>1, <2>2
\* A client that is done with its batch.
<1>p. ASSUME NEW p \in Peers, peer' = [peer EXCEPT ![p].sending = <<>>],
             UNCHANGED <<stored, connection>>,
             Returns(p) \/ Abandon(p) \/ UNCHANGED handler
      PROVE  OnceInv'
  <2>1. CallsDrop /\ \A q \in Callers \ {p} : Waits(q) => Waits(q)'
    <3>1. CASE Returns(p) \/ Abandon(p)
      BY <1>i, <3>1, ReturnDrops, IngressConstants
    <3>2. CASE UNCHANGED handler
      BY <3>2 DEF CallsDrop, Waits
    <3> QED
      BY <1>p, <3>1, <3>2
  <2>2. /\ PeerOnce(p)' /\ \A e : HeldBy(p, e)' => HeldBy(p, e)
        /\ \A q \in Peers : q # p => peer'[q] = peer[q]
    BY <1>i, <1>p, PeerDone DEF OnceInv
  <2>3. \A q \in Peers : PeerOnce(q)' /\ \A e : HeldBy(q, e)' => HeldBy(q, e)
    BY <2>1, <2>2, PeerStays, IngressConstants DEF OnceInv
  <2>4. Waits(Syslog) => Waits(Syslog)'
    BY <2>1, IngressConstants, IngressAssumption
  <2>5. \A e : Before(e)' => Before(e)
    BY <1>p, <1>q, <2>4, UnsentStays DEF Before
  <2> QED
    BY <1>i, <1>p, <1>q, <2>1, <2>3, <2>5, DropsOnce
\* A caller that is no client goes on, and the others wait.
<1>r. ASSUME NEW caller \in Callers, caller \notin Peers,
             Returns(caller) \/ Abandon(caller) \/ UNCHANGED handler
      PROVE  CallsDrop /\ \A q \in Callers \ {caller} : Waits(q) => Waits(q)'
  <2>1. CASE Returns(caller) \/ Abandon(caller)
    BY <1>i, <2>1, ReturnDrops
  <2>2. CASE UNCHANGED handler
    BY <2>2 DEF CallsDrop, Waits
  <2> QED
    BY <1>r, <2>1, <2>2
<1>1. CASE ReadStream
  BY <1>1, <1>u DEF ReadStream, proxyVars, syslogVars
<1>2. ASSUME NEW b \in BOOLEAN, Batch(b)
      PROVE  OnceInv'
  BY <1>2, <1>u DEF Batch, proxyVars, syslogVars
<1>3. ASSUME NEW w \in Writers, Write(w)
      PROVE  OnceInv'
  BY <1>3, WriteOnce
<1>4. ASSUME NEW w \in Writers, Written(w) \/ WriteFails(w)
      PROVE  OnceInv'
  <2>1. /\ UNCHANGED <<peer, stored, connection>>
        /\ Returns(w) \/ Abandon(w) \/ UNCHANGED handler
    BY <1>4 DEF Written, WriteFails, syslogVars
  <2>2. w \in Callers /\ w \notin Peers /\ w # Syslog
    BY IngressConstants, IngressAssumption
  <2>3. CallsDrop /\ \A q \in Callers \ {w} : Waits(q) => Waits(q)'
    BY <1>r, <2>1, <2>2
  <2>4. \A p \in Peers : Waits(p) => Waits(p)'
    BY <2>2, <2>3, IngressConstants
  <2>5. \A e : Unsent(e)' => Unsent(e)
    BY <2>1, <2>2, <2>3, UnsentStays, IngressConstants
  <2> QED
    BY <1>d, <1>i, <2>1, <2>3, <2>4, <2>5
<1>5. ASSUME NEW p \in Peers, NEW b \in BOOLEAN, BatchPeer(p, b)
      PROVE  OnceInv'
  BY <1>5, BatchForPeerOnce DEF BatchPeer
<1>6. ASSUME NEW p \in Peers, WritePeer(p)
      PROVE  OnceInv'
  <2>1. CASE CallPeer(p)
    BY <1>6, <2>1, CallPeerOnce DEF WritePeer, syslogVars
  <2>2. CASE PeerReturns(p)
    BY <1>6, <1>p, <2>2 DEF WritePeer, PeerReturns, syslogVars
  <2> QED
    BY <1>6, <2>1, <2>2 DEF WritePeer
<1>7. ASSUME NEW p \in Peers, PeerCallFails(p)
      PROVE  OnceInv'
  BY <1>7, <1>p DEF PeerCallFails, PeerFails, syslogVars
<1>8. CASE Parse
  <2>1. UNCHANGED <<handler, peer, stored>>
    BY <1>8 DEF Parse, proxyVars
  <2>2. CallsDrop /\ \A q : Waits(q) => Waits(q)'
    BY <2>1 DEF CallsDrop, Waits
  <2>3. connection'.sending <= connection'.received /\ \A e : Unsent(e)' => Unsent(e)
    BY <1>8, <1>i, ParseOnce
  <2> QED
    BY <1>d, <2>1, <2>2, <2>3
<1>9. CASE Forward
  BY <1>9, ForwardOnce
<1>10. CASE Forwarded \/ ForwardFails
  <2>1. /\ UNCHANGED <<peer, stored>>
        /\ Returns(Syslog) \/ Abandon(Syslog) \/ UNCHANGED handler
        /\ MessageSent(FALSE) \/ MessageSent(TRUE)
    BY <1>10 DEF Forwarded, ForwardFails
  <2>2. Syslog \in Callers /\ Syslog \notin Peers
    BY IngressConstants, IngressAssumption
  <2>3. CallsDrop /\ \A q \in Callers \ {Syslog} : Waits(q) => Waits(q)'
    BY <1>r, <2>1, <2>2
  <2>4. \A p \in Peers : Waits(p) => Waits(p)'
    BY <2>2, <2>3, IngressConstants
  <2>5. connection'.sending <= connection'.received /\ \A e : Unsent(e)' => Unsent(e)
    BY <2>1, MessageOnce
  <2> QED
    BY <1>d, <2>1, <2>3, <2>4, <2>5
<1>11. ASSUME NEW h \in Handlers, Handle(h)
       PROVE  OnceInv'
  <2>1. HandleSend(h) /\ UNCHANGED <<nozzleVars, syslogVars>>
    BY <1>11 DEF Handle
  <2> QED
    BY <2>1, LookUpOnce, PutOnce, BucketOnce, GoesOnOnce DEF HandleSend
<1>12. CASE ChangeRoutes
  BY <1>12, <1>u DEF ChangeRoutes, syslogVars
<1>13. CASE UNCHANGED vars
  BY <1>13, <1>u DEF vars, proxyVars, syslogVars
<1> QED
  BY <1>1, <1>2, <1>3, <1>4, <1>5, <1>6, <1>7, <1>8, <1>9, <1>10, <1>11, <1>12, <1>13
  DEF Next

\* No node puts an envelope into its store twice, whatever the tables of the nodes
\* say, and however calls fail, time out or are handled after their caller gave up:
\* an envelope that is retried by nobody is in one place on its way to each node
\* (nozzle.go; ingress_reverse_proxy.go, Send; batched_ingress_client.go, write).
THEOREM StoredOnce == Spec => []StoredOncePerNode
<1>1. OnceInv => StoredOncePerNode
  BY DEF OnceInv
<1> QED
  BY <1>1, InitTypeInv, NextTypeInv, InitOnce, NextOnce, PTL DEF Spec

-----------------------------------------------------------------------------
\* The nozzle's counters. Of its diode: the index that its reader is at, and what is
\* in its slots; nothing is missing in it unless it was overrun.
RingInv ==
  /\ streamBuffer.readIndex <= streamBuffer.writeIndex
  /\ \A i \in DOMAIN streamBuffer.slots :
       streamBuffer.slots[i] # Nothing =>
         /\ streamBuffer.slots[i].seq < streamBuffer.writeIndex
         /\ streamBuffer.slots[i].seq % StreamBufferSize = i

RingFull ==
  /\ \A i \in DOMAIN streamBuffer.slots :
       streamBuffer.slots[i] # Nothing =>
         streamBuffer.slots[i].seq >= streamBuffer.readIndex
  /\ \A s \in streamBuffer.readIndex .. streamBuffer.writeIndex - 1 :
       /\ streamBuffer.slots[s % StreamBufferSize] # Nothing
       /\ streamBuffer.slots[s % StreamBufferSize].seq = s

\* Of its writers: no envelope is in the batches of two, or in the nozzle again.
WritersInv ==
  /\ \A w \in Writers :
       Injective(writer[w]) /\ \A e \in Range(writer[w]) : ~Upcoming(e)
  /\ \A w, v \in Writers, e \in Streamed :
       e \in Range(writer[w]) /\ e \in Range(writer[v]) => w = v

\* Every writer that has a batch is answered, unless a call fails.
WritersWait == \A w \in Writers : writer[w] # <<>> => Waits(w)

CountInv ==
  /\ RingInv /\ WritersInv /\ Accounting
  /\ mishaps = {} => RingFull /\ WritersWait

\* Without repetitions the length counts the members.
LEMMA LengthIs ==
  ASSUME NEW S, NEW s \in Seq(S), Injective(s)
  PROVE  IsFiniteSet(Range(s)) /\ Cardinality(Range(s)) = Len(s) /\ Len(s) \in Nat
<1>1. Len(s) \in Nat /\ s \in [1 .. Len(s) -> Range(s)] /\ DOMAIN s = 1 .. Len(s)
  BY DEF Range
<1>2. s \in Injection(1 .. Len(s), Range(s))
  BY <1>1 DEF Injective, Injection, IsInjective
<1>3. s \in Surjection(1 .. Len(s), Range(s))
  BY <1>1 DEF Surjection, Range
<1>4. ExistsBijection(1 .. Len(s), Range(s))
  BY <1>2, <1>3 DEF ExistsBijection, Bijection
<1> QED
  BY <1>1, <1>4, FS_CountingElements, FS_NatBijection

\* What is in the nozzle, place by place, and that it has been read from the stream.
Ready(e) ==
  \E i \in DOMAIN streamBuffer.slots :
    /\ streamBuffer.slots[i] # Nothing
    /\ streamBuffer.slots[i].seq >= streamBuffer.readIndex
    /\ streamBuffer.slots[i].data = e

NozzleParts ==
  /\ \A e : e \in InNozzle <=>
       \/ Ready(e) \/ e \in Range(envelopes)
       \/ \E i \in DOMAIN ch : e \in Range(ch[i])
       \/ \E w \in Writers : e \in Range(writer[w])
  /\ InNozzle \subseteq Streamed
  /\ IsFiniteSet(InNozzle) /\ Cardinality(InNozzle) \in Nat

\* What is in the nozzle, part by part ...
LEMMA InNozzleIs == NozzleInv => NozzleParts
<1> SUFFICES ASSUME NozzleInv
             PROVE  NozzleParts
  OBVIOUS
<1>1. writer \in [Writers -> Seq(Streamed)]
  BY DEF NozzleInv, NozzleTypeOK
<1>2. \A e : e \in Contents(streamBuffer) <=> Ready(e)
  BY DEF Contents, Ready
<1>3. \A e : e \in UNION {Range(batch) : batch \in Range(ch) \cup Range(writer)} <=>
        \/ \E i \in DOMAIN ch : e \in Range(ch[i])
        \/ \E w \in Writers : e \in Range(writer[w])
  <2>1. Range(ch) = {ch[i] : i \in DOMAIN ch} /\ Range(writer) = {writer[w] : w \in Writers}
    BY <1>1 DEF Range
  <2> QED
    BY <2>1
<1>4. \A e : e \in InNozzle <=>
        \/ Ready(e) \/ e \in Range(envelopes)
        \/ \E i \in DOMAIN ch : e \in Range(ch[i])
        \/ \E w \in Writers : e \in Range(writer[w])
  BY <1>2, <1>3 DEF InNozzle
<1>5. \A e : Ready(e) => e \in Streamed
  BY NozzleIs DEF Ready
<1>6. \A w \in Writers : Range(writer[w]) \subseteq Streamed
  <2>1. ASSUME NEW q \in Seq(Streamed)
        PROVE  Range(q) \subseteq Streamed
    BY <2>1 DEF Range
  <2> QED
    BY <1>1, <2>1
<1>7. InNozzle \subseteq Streamed
  BY <1>4, <1>5, <1>6, NozzleIs
<1>8. IsFiniteSet(InNozzle) /\ Cardinality(InNozzle) \in Nat
  BY <1>7, FS_Subset, FS_CardinalityType, NozzleAssumption
<1> QED
  BY <1>4, <1>7, <1>8 DEF NozzleParts

\* ... and after a step.
LEMMA InNozzleNext == NozzleInv' => NozzleParts'
  BY InNozzleIs, PTL

\* Only envelopes that were read are in the nozzle.
LEMMA InNozzleRead ==
  ASSUME NozzleInv, QueueInv, CountInv
  PROVE  \A e \in InNozzle : e \in Nat /\ e <= ingressInc
<1> SUFFICES ASSUME NEW e \in InNozzle
             PROVE  e \in Nat /\ e <= ingressInc
  OBVIOUS
<1> DEFINE r == streamBuffer.readIndex
<1>1. /\ r \in Nat /\ ingressInc \in Nat /\ r <= ingressInc
      /\ streamBuffer.writeIndex = ingressInc
  BY NozzleIs DEF QueueInv, CountInv, RingInv
<1>2. e \in Streamed /\ e \in Nat
  BY InNozzleIs, NozzleIs DEF NozzleParts
<1>3. CASE Ready(e)
  <2>1. PICK i \in DOMAIN streamBuffer.slots :
          streamBuffer.slots[i] # Nothing /\ streamBuffer.slots[i].data = e
    BY <1>3 DEF Ready
  <2>2. /\ streamBuffer.slots[i].seq \in Nat
        /\ e = streamBuffer.slots[i].seq + 1
        /\ streamBuffer.slots[i].seq < streamBuffer.writeIndex
    BY <2>1, NozzleIs DEF QueueInv, CountInv, RingInv
  <2> QED
    BY <1>1, <1>2, <2>2
<1>4. CASE e \in Range(envelopes) \/ \E i \in DOMAIN ch : e \in Range(ch[i])
  <2>1. e <= r
    BY <1>4 DEF QueueInv
  <2> QED
    BY <1>1, <1>2, <2>1
<1>5. CASE \E w \in Writers : e \in Range(writer[w])
  <2>1. ~Upcoming(e)
    BY <1>5 DEF CountInv, WritersInv
  <2>2. ~(r < e)
    BY <1>2, <2>1 DEF Upcoming
  <2> QED
    BY <1>1, <1>2, <2>2
<1> QED
  BY <1>3, <1>4, <1>5, InNozzleIs DEF NozzleParts

\* Counts that change with the nozzle's contents.
LEMMA WritersStay ==
  ASSUME WritersInv, UNCHANGED writer, \A e : Upcoming(e)' => Upcoming(e)
  PROVE  WritersInv'
  BY DEF WritersInv

\* A writer with a batch waits for a handler.
LEMMA Waiting ==
  ASSUME WritersWait, UNCHANGED writer, \A w \in Writers : Waits(w) => Waits(w)'
  PROVE  WritersWait'
  BY DEF WritersWait

\* An envelope is read from the stream into a slot that is free, or it overruns one.
LEMMA ReadCounts ==
  ASSUME TypeInv, TypeInv', OnceInv, CountInv, ReadStream
  PROVE  CountInv'
<1> DEFINE d == streamBuffer
           r == streamBuffer.readIndex
           k == streamBuffer.writeIndex
<1>i. NozzleInv /\ NozzleInv' /\ QueueInv
  BY DEF TypeInv, OnceInv
<1>x. PICK x \in Streamed : x = ingressInc + 1
  BY <1>i, NozzleIs, IngressConstants DEF ReadStream, ReadEnvelope
<1> DEFINE b == [seq |-> k, data |-> x]
           at == k % StreamBufferSize
<1>1. /\ ReadEnvelope /\ UNCHANGED <<envelopes, ch, writer, egressInc, handler>>
      /\ ingressInc' = x /\ ingressInc < Cardinality(Streamed)
      /\ streamBuffer' = SetAt(d, k, x)
      /\ mishaps' = IF Overruns THEN mishaps \cup {"overrun"} ELSE mishaps
  BY <1>x DEF ReadStream, ReadEnvelope, Set, proxyVars, Record
<1>2. /\ r \in Nat /\ k \in Nat /\ r <= k /\ k = ingressInc
      /\ d \in Diodes(StreamBufferSize, Streamed) /\ d.size = StreamBufferSize
      /\ StreamBufferSize \in Nat \ {0} /\ DOMAIN d.slots = 0 .. StreamBufferSize - 1
  BY <1>1, <1>i, NozzleIs, IngressConstants DEF QueueInv, CountInv, RingInv, Diodes
<1>3. /\ streamBuffer'.readIndex = r /\ streamBuffer'.writeIndex = k + 1
      /\ at \in 0 .. StreamBufferSize - 1
      /\ streamBuffer' \in Diodes(StreamBufferSize, Streamed)
      /\ \A i \in 0 .. StreamBufferSize - 1 :
           streamBuffer'.slots[i] = IF i = at THEN b ELSE d.slots[i]
  <2>1. /\ d \in Diodes(StreamBufferSize, Streamed) /\ k \in Nat /\ x \in Streamed
        /\ streamBuffer' = SetAt(d, k, x) /\ StreamBufferSize \in Nat \ {0}
    BY <1>1, <1>2
  <2> DEFINE f == SetAt(d, k, x)
  <2> HIDE DEF k, d
  <2>2. /\ f \in Diodes(StreamBufferSize, Streamed) /\ f.readIndex = d.readIndex
        /\ f.writeIndex = k + 1 /\ k % StreamBufferSize \in 0 .. StreamBufferSize - 1
        /\ \A i \in 0 .. StreamBufferSize - 1 : f.slots[i] =
             IF i = k % StreamBufferSize THEN [seq |-> k, data |-> x] ELSE d.slots[i]
    BY <2>1, SetIs
  <2> HIDE DEF f
  <2>3. streamBuffer' = f
    BY <2>1 DEF f
  <2> QED
    BY <2>2, <2>3 DEF d
<1>4. DOMAIN streamBuffer'.slots = 0 .. StreamBufferSize - 1
  BY <1>3 DEF Diodes
<1>5. b # Nothing /\ b.seq = k /\ b.data = x
  <2>1. b \in Buckets(Envelopes)
    BY <1>2, IngressConstants DEF Buckets
  <2> QED
    BY <2>1, IngressProxyAssumption
<1>6. ~Overruns => d.slots[at] = Nothing
  BY <1>2 DEF Overruns, Overwrites
<1>7. \A i \in 0 .. StreamBufferSize - 1 :
        d.slots[i] # Nothing =>
          /\ d.slots[i].seq \in Nat /\ d.slots[i].seq < k
          /\ d.slots[i].seq % StreamBufferSize = i
  BY <1>i, <1>2, NozzleIs DEF CountInv, RingInv
<1> HIDE DEF r, k, b, at, d
<1>8. RingInv'
  <2>1. r <= k + 1
    BY <1>2
  <2>2. ASSUME NEW i \in 0 .. StreamBufferSize - 1, streamBuffer'.slots[i] # Nothing
        PROVE  /\ streamBuffer'.slots[i].seq < k + 1
               /\ streamBuffer'.slots[i].seq % StreamBufferSize = i
    <3>1. CASE i = at
      <4>1. streamBuffer'.slots[i].seq = k
        BY <1>3, <1>5, <3>1
      <4> QED
        BY <1>2, <3>1, <4>1 DEF at
    <3>2. CASE i # at
      <4>1. streamBuffer'.slots[i] = d.slots[i]
        BY <1>3, <3>2
      <4>2. /\ d.slots[i].seq \in Nat /\ d.slots[i].seq < k
            /\ d.slots[i].seq % StreamBufferSize = i
        BY <1>7, <2>2, <4>1
      <4> QED
        BY <1>2, <4>1, <4>2
    <3> QED
      BY <3>1, <3>2
  <2> QED
    BY <1>3, <1>4, <2>1, <2>2 DEF RingInv
<1>9. ASSUME mishaps' = {}
      PROVE  RingFull' /\ mishaps = {} /\ ~Overruns
  <2>1. mishaps = {} /\ ~Overruns /\ d.slots[at] = Nothing
    BY <1>1, <1>6, <1>9
  <2>2. /\ \A i \in 0 .. StreamBufferSize - 1 : d.slots[i] # Nothing => d.slots[i].seq >= r
        /\ \A s \in r .. k - 1 : /\ d.slots[s % StreamBufferSize] # Nothing
                                 /\ d.slots[s % StreamBufferSize].seq = s
    BY <1>2, <2>1 DEF CountInv, RingFull, d, r, k
  <2>3. \A i \in 0 .. StreamBufferSize - 1 :
          streamBuffer'.slots[i] # Nothing => streamBuffer'.slots[i].seq >= r
    BY <1>2, <1>3, <1>5, <2>2
  <2>4. ASSUME NEW s \in r .. k
        PROVE  /\ streamBuffer'.slots[s % StreamBufferSize] # Nothing
               /\ streamBuffer'.slots[s % StreamBufferSize].seq = s
    <3>1. CASE s = k
      BY <1>3, <1>5, <3>1 DEF at
    <3>2. CASE s # k
      <4>1. s \in r .. k - 1 /\ s \in Nat
        BY <1>2, <3>2
      <4>2. s % StreamBufferSize # at
        BY <2>1, <2>2, <4>1
      <4>3. s % StreamBufferSize \in 0 .. StreamBufferSize - 1
        BY <1>2, <4>1, IndexInRing
      <4> QED
        BY <1>3, <2>2, <4>1, <4>2, <4>3
    <3> QED
      BY <3>1, <3>2
  <2>5. (k + 1) - 1 = k
    BY <1>2
  <2>6. RingFull'
    BY <1>3, <1>4, <2>3, <2>4, <2>5 DEF RingFull
  <2> QED
    BY <2>1, <2>6
<1>10. \A e : Upcoming(e)' => Upcoming(e)
  BY <1>1, <1>i, ReadOnce
<1>11. WritersInv' /\ (mishaps' = {} => WritersWait')
  <2>1. WritersInv'
    BY <1>1, <1>10, WritersStay DEF CountInv
  <2>2. \A w \in Writers : Waits(w) => Waits(w)'
    BY <1>1 DEF Waits
  <2> QED
    BY <1>1, <1>9, <2>1, <2>2, Waiting DEF CountInv
<1>12. \A e : Ready(e)' => Ready(e) \/ e = x
  <2> SUFFICES ASSUME NEW e, Ready(e)'
               PROVE  Ready(e) \/ e = x
    OBVIOUS
  <2>1. PICK i \in 0 .. StreamBufferSize - 1 :
          /\ streamBuffer'.slots[i] # Nothing /\ streamBuffer'.slots[i].seq >= r
          /\ streamBuffer'.slots[i].data = e
    BY <1>3, <1>4 DEF Ready
  <2>2. CASE i = at
    BY <1>3, <1>5, <2>1, <2>2
  <2>3. CASE i # at
    BY <1>2, <1>3, <2>1, <2>3 DEF Ready, d, r
  <2> QED
    BY <2>2, <2>3
<1>13. InNozzle' \subseteq InNozzle \cup {x}
  BY <1>1, <1>12, <1>i, InNozzleIs, InNozzleNext DEF NozzleParts
<1>14. ASSUME ~Overruns
       PROVE  InNozzle \cup {x} \subseteq InNozzle'
  <2>1. d.slots[at] = Nothing
    BY <1>6, <1>14
  <2>2. Ready(x)'
    BY <1>2, <1>3, <1>4, <1>5 DEF Ready
  <2>3. ASSUME NEW e, Ready(e)
        PROVE  Ready(e)'
    <3>1. PICK i \in 0 .. StreamBufferSize - 1 :
            d.slots[i] # Nothing /\ d.slots[i].seq >= r /\ d.slots[i].data = e
      BY <1>2, <2>3 DEF Ready, d, r
    <3>2. streamBuffer'.slots[i] = d.slots[i]
      BY <1>3, <2>1, <3>1
    <3> QED
      BY <1>3, <1>4, <3>1, <3>2 DEF Ready
  <2>4. x \in InNozzle'
    BY <1>i, <2>2, InNozzleNext DEF NozzleParts
  <2>5. InNozzle \subseteq InNozzle'
    BY <1>1, <1>i, <2>3, InNozzleIs, InNozzleNext DEF NozzleParts
  <2> QED
    BY <2>4, <2>5
<1>15. Accounting'
  <2> DEFINE S == InNozzle
             T == InNozzle'
  <2>1. /\ IsFiniteSet(S) /\ Cardinality(S) \in Nat
        /\ IsFiniteSet(T) /\ Cardinality(T) \in Nat
    BY <1>i, InNozzleIs, InNozzleNext DEF NozzleParts
  <2>2. x \notin S
    BY <1>i, <1>2, <1>x, InNozzleRead
  <2>3. /\ ingressInc - egressInc >= Cardinality(S)
        /\ mishaps = {} => ingressInc - egressInc = Cardinality(S)
        /\ ingressInc \in Nat /\ egressInc \in Nat
    BY <1>i DEF CountInv, Accounting, NozzleInv, NozzleTypeOK
  <2>4. T \subseteq S \cup {x} /\ (~Overruns => T = S \cup {x})
    BY <1>13, <1>14
  <2> HIDE DEF S, T
  <2>5. IsFiniteSet(S \cup {x}) /\ Cardinality(S \cup {x}) = Cardinality(S) + 1
    BY <2>1, <2>2, FS_AddElement
  <2>6. Cardinality(T) <= Cardinality(S) + 1
    BY <2>4, <2>5, FS_Subset
  <2>7. /\ ingressInc' - egressInc' >= Cardinality(T)
        /\ mishaps' = {} => ingressInc' - egressInc' = Cardinality(T)
    <3>1. /\ ingressInc' = ingressInc + 1 /\ egressInc' = egressInc
          /\ mishaps' = {} => mishaps = {} /\ T = S \cup {x}
      BY <1>1, <1>9, <1>x, <2>4
    <3>2. ingressInc' - egressInc' = (ingressInc - egressInc) + 1
      BY <2>3, <3>1
    <3> DEFINE n == ingressInc - egressInc
    <3>3. n \in Int /\ n >= Cardinality(S) /\ ingressInc' - egressInc' = n + 1
      BY <2>3, <3>2
    <3> HIDE DEF n
    <3>4. ingressInc' - egressInc' >= Cardinality(T)
      BY <2>1, <2>6, <3>3
    <3>5. ASSUME mishaps' = {}
          PROVE  ingressInc' - egressInc' = Cardinality(T)
      <4>1. n = Cardinality(S) /\ Cardinality(T) = Cardinality(S) + 1
        BY <2>3, <2>5, <3>1, <3>5 DEF n
      <4> QED
        BY <3>3, <4>1
    <3> QED
      BY <3>4, <3>5
  <2> QED
    BY <2>7 DEF Accounting, T
<1> QED
  BY <1>8, <1>9, <1>11, <1>15 DEF CountInv

\* Where an iteration of the batcher leaves what it collected.
LEMMA CollectedGoes ==
  ASSUME NozzleInv, NEW fired \in BOOLEAN, BatchEnvelopes(fired)
  PROVE  /\ \A e : e \in Range(Collected) <=>
              e \in Range(envelopes) \/ (Found(streamBuffer) /\ e = NextBucket(streamBuffer).data)
         /\ \A e : e \in Range(envelopes') \/ (\E i \in DOMAIN ch' : e \in Range(ch'[i])) =>
              e \in Range(Collected) \/ \E i \in DOMAIN ch : e \in Range(ch[i])
         /\ ~ChannelDrops(fired) => \A e :
              e \in Range(Collected) \/ (\E i \in DOMAIN ch : e \in Range(ch[i])) =>
              e \in Range(envelopes') \/ \E i \in DOMAIN ch' : e \in Range(ch'[i])
<1> DEFINE c == Collected
<1>1. /\ ch' = IF Flushes(fired) /\ ~ChannelFull THEN Append(ch, c) ELSE ch
      /\ envelopes' = IF Flushes(fired) THEN <<>> ELSE c
  BY DEF BatchEnvelopes
<1>2. c \in Seq(Streamed) /\ ch \in Seq(Seq(Streamed))
  BY CollectedIs, NozzleIs
<1>3. \A e : e \in Range(c) <=>
        e \in Range(envelopes) \/ (Found(streamBuffer) /\ e = NextBucket(streamBuffer).data)
  <2>1. CASE Found(streamBuffer)
    <3> DEFINE x == NextBucket(streamBuffer).data
    <3>1. x \in Streamed /\ envelopes \in Seq(Streamed)
      BY <2>1, CollectedIs, NozzleIs DEF Buckets
    <3>2. c = Append(envelopes, x)
      BY <2>1 DEF Collected
    <3> HIDE DEF c, x
    <3>3. Range(c) = Range(envelopes) \cup {x}
      BY <3>1, <3>2, AppendIs
    <3> QED
      BY <2>1, <3>3 DEF x
  <2>2. CASE ~Found(streamBuffer)
    BY <2>2 DEF Collected
  <2> QED
    BY <2>1, <2>2
<1> HIDE DEF c
<1>4. CASE Flushes(fired) /\ ~ChannelFull
  <2> DEFINE n == Len(ch)
  <2>1. ch' = Append(ch, c) /\ envelopes' = <<>>
    BY <1>1, <1>4
  <2>2. /\ Len(ch') = n + 1 /\ ch' \in Seq(Seq(Streamed)) /\ n \in Nat
        /\ \A i \in 1 .. n : ch'[i] = ch[i]
        /\ ch'[n + 1] = c
    BY <1>2, <2>1, AppendProperties
  <2>3. DOMAIN ch = 1 .. n /\ DOMAIN ch' = 1 .. n + 1
    BY <1>2, <2>2
  <2> HIDE DEF n
  <2>4. /\ \A i \in 1 .. n + 1 : i \in 1 .. n \/ i = n + 1
        /\ \A i \in 1 .. n : i \in 1 .. n + 1
        /\ n + 1 \in 1 .. n + 1
    BY <2>2
  <2>5. \A e : (\E i \in DOMAIN ch' : e \in Range(ch'[i])) <=>
          e \in Range(c) \/ \E i \in DOMAIN ch : e \in Range(ch[i])
    BY <2>2, <2>3, <2>4
  <2>6. \A e : e \notin Range(envelopes')
    BY <2>1, EmptySeqIs
  <2> QED
    BY <1>3, <2>5, <2>6 DEF c
<1>5. CASE Flushes(fired) /\ ChannelFull
  <2>1. ch' = ch /\ envelopes' = <<>> /\ ChannelDrops(fired)
    BY <1>1, <1>5 DEF ChannelDrops
  <2> QED
    BY <1>3, <2>1, EmptySeqIs DEF c
<1>6. CASE ~Flushes(fired)
  <2>1. ch' = ch /\ envelopes' = c
    BY <1>1, <1>6
  <2> QED
    BY <1>3, <2>1 DEF c
<1> QED
  BY <1>4, <1>5, <1>6

\* An iteration of the batcher takes out what it finds, the oldest if none is missing.
LEMMA BatchCounts ==
  ASSUME TypeInv, TypeInv', OnceInv, CountInv, NEW fired \in BOOLEAN, Batch(fired)
  PROVE  CountInv'
<1> DEFINE d == streamBuffer
           r == streamBuffer.readIndex
           k == streamBuffer.writeIndex
           q == streamBuffer'.readIndex
           b == NextBucket(streamBuffer)
           at == r % StreamBufferSize
           N == StreamBufferSize
<1>i. NozzleInv /\ NozzleInv' /\ QueueInv
  BY DEF TypeInv, OnceInv
<1>1. /\ BatchEnvelopes(fired) /\ UNCHANGED <<writer, egressInc, ingressInc, handler>>
      /\ streamBuffer' = Read(d)
      /\ mishaps' = IF ChannelDrops(fired) THEN mishaps \cup {"full channel"} ELSE mishaps
  BY DEF Batch, BatchEnvelopes, proxyVars, Record
<1>2. /\ r \in Nat /\ k \in Nat /\ r <= k
      /\ d \in Diodes(N, Streamed) /\ N \in Nat \ {0} /\ DOMAIN d.slots = 0 .. N - 1
  BY <1>i, NozzleIs DEF CountInv, RingInv
<1>3. /\ q = IF Found(d) THEN b.seq + 1 ELSE r
      /\ streamBuffer'.writeIndex = k
      /\ at \in 0 .. N - 1 /\ b = d.slots[at]
      /\ streamBuffer' \in Diodes(N, Streamed)
      /\ \A i \in 0 .. N - 1 : streamBuffer'.slots[i] = IF i = at THEN Nothing ELSE d.slots[i]
  <2> DEFINE f == Read(d)
  <2>1. /\ f \in Diodes(N, Streamed)
        /\ f.readIndex = IF Found(d) THEN NextBucket(d).seq + 1 ELSE d.readIndex
        /\ f.writeIndex = d.writeIndex
        /\ d.readIndex % N \in 0 .. N - 1 /\ NextBucket(d) = d.slots[d.readIndex % N]
        /\ \A i \in 0 .. N - 1 : f.slots[i] =
             IF i = d.readIndex % N THEN Nothing ELSE d.slots[i]
    BY <1>2, ReadIs
  <2> HIDE DEF f
  <2>2. streamBuffer' = f
    BY <1>1 DEF f
  <2> QED
    BY <2>1, <2>2
<1>4. DOMAIN streamBuffer'.slots = 0 .. N - 1
  BY <1>3 DEF Diodes
<1>5. \A i \in 0 .. N - 1 :
        d.slots[i] # Nothing =>
          /\ d.slots[i].seq \in Nat /\ d.slots[i].seq < k /\ d.slots[i].seq % N = i
  BY <1>i, <1>2, NozzleIs DEF CountInv, RingInv
<1>6. Found(d) <=> b # Nothing /\ b.seq >= r
  BY DEF Found
<1> HIDE DEF r, k, q, b, at, d, N
<1>7. r <= q /\ q <= k /\ q \in Nat
  BY <1>2, <1>3, <1>5, <1>6
<1>8. RingInv'
  BY <1>3, <1>4, <1>5, <1>7 DEF RingInv, q, N
<1>9. ASSUME mishaps = {}
      PROVE  /\ Found(d) => q = r + 1
             /\ \A i \in 0 .. N - 1 :
                  streamBuffer'.slots[i] # Nothing => streamBuffer'.slots[i].seq >= q
             /\ RingFull'
  <2>1. /\ \A i \in 0 .. N - 1 : d.slots[i] # Nothing => d.slots[i].seq >= r
        /\ \A s \in r .. k - 1 : d.slots[s % N] # Nothing /\ d.slots[s % N].seq = s
    BY <1>2, <1>9 DEF CountInv, RingFull, d, r, k, N
  <2>2. Found(d) => b.seq = r /\ q = r + 1 /\ r \in r .. k - 1
    <3> SUFFICES ASSUME Found(d)
                 PROVE  b.seq = r /\ q = r + 1 /\ r \in r .. k - 1
      OBVIOUS
    <3>1. b # Nothing /\ b.seq \in Nat /\ b.seq >= r /\ b.seq < k
      BY <1>3, <1>5, <1>6
    <3>2. r \in r .. k - 1
      BY <1>2, <3>1
    <3>3. d.slots[at].seq = r
      BY <2>1, <3>2 DEF at, N
    <3> QED
      BY <1>3, <3>2, <3>3
  <2>3. ASSUME NEW i \in 0 .. N - 1, streamBuffer'.slots[i] # Nothing
        PROVE  streamBuffer'.slots[i].seq >= q
    <3>1. i # at /\ streamBuffer'.slots[i] = d.slots[i]
      BY <1>3, <2>3
    <3>2. d.slots[i].seq \in Nat /\ d.slots[i].seq >= r /\ d.slots[i].seq % N = i
      BY <1>5, <2>1, <2>3, <3>1
    <3>3. d.slots[i].seq # r
      BY <3>1, <3>2 DEF at, N
    <3> QED
      BY <1>2, <1>3, <2>2, <3>1, <3>2, <3>3
  <2>4. ASSUME NEW s \in q .. k - 1
        PROVE  streamBuffer'.slots[s % N] # Nothing /\ streamBuffer'.slots[s % N].seq = s
    <3>1. s \in r .. k - 1 /\ s \in Nat
      BY <1>2, <1>7
    <3>2. d.slots[s % N] # Nothing /\ d.slots[s % N].seq = s
      BY <2>1, <3>1
    <3>3. s % N # at
      <4>1. CASE Found(d)
        <5>1. d.slots[at].seq = r /\ s # r
          BY <1>2, <1>3, <2>2, <3>1, <4>1
        <5> QED
          BY <3>2, <5>1
      <4>2. CASE ~Found(d)
        <5>1. d.slots[at] # Nothing => d.slots[at].seq >= r
          BY <1>3, <2>1
        <5>2. d.slots[at] = Nothing
          BY <1>3, <1>6, <4>2, <5>1
        <5> QED
          BY <3>2, <5>2
      <4> QED
        BY <4>1, <4>2
    <3>4. s % N \in 0 .. N - 1
      BY <1>2, <3>1, IndexInRing
    <3> QED
      BY <1>3, <3>2, <3>3, <3>4
  <2>5. RingFull'
    BY <1>3, <1>4, <2>3, <2>4 DEF RingFull, q, N
  <2> QED
    BY <2>2, <2>3, <2>5
<1>10. \A e : Upcoming(e)' => Upcoming(e)
  BY <1>1, <1>i, BatchOnce
<1>11. WritersInv' /\ (mishaps' = {} => RingFull' /\ WritersWait')
  <2>1. WritersInv'
    BY <1>1, <1>10, WritersStay DEF CountInv
  <2>2. \A w \in Writers : Waits(w) => Waits(w)'
    BY <1>1 DEF Waits
  <2>3. mishaps' = {} => mishaps = {}
    BY <1>1
  <2> QED
    BY <1>1, <1>9, <2>1, <2>2, <2>3, Waiting DEF CountInv
<1>12. \A e : Ready(e)' => Ready(e)
  <2> SUFFICES ASSUME NEW e, Ready(e)'
               PROVE  Ready(e)
    OBVIOUS
  <2>1. PICK i \in 0 .. N - 1 :
          /\ streamBuffer'.slots[i] # Nothing /\ streamBuffer'.slots[i].seq >= q
          /\ streamBuffer'.slots[i].data = e
    BY <1>4 DEF Ready, q
  <2>2. streamBuffer'.slots[i] = d.slots[i] /\ d.slots[i] # Nothing
    BY <1>3, <2>1
  <2>3. d.slots[i].seq \in Nat /\ d.slots[i].seq >= q
    BY <1>5, <2>1, <2>2
  <2>4. d.slots[i].seq >= r
    BY <1>2, <1>7, <2>3
  <2> QED
    BY <1>2, <2>1, <2>2, <2>4 DEF Ready, d, r
<1>13. ASSUME mishaps = {}
       PROVE  \A e : Ready(e) => Ready(e)' \/ (Found(d) /\ e = b.data)
  <2> SUFFICES ASSUME NEW e, Ready(e)
               PROVE  Ready(e)' \/ (Found(d) /\ e = b.data)
    OBVIOUS
  <2>1. PICK i \in 0 .. N - 1 :
          d.slots[i] # Nothing /\ d.slots[i].seq >= r /\ d.slots[i].data = e
    BY <1>2 DEF Ready, d, r
  <2>2. CASE i = at
    BY <1>3, <1>6, <2>1, <2>2
  <2>3. CASE i # at
    <3>1. streamBuffer'.slots[i] = d.slots[i]
      BY <1>3, <2>3
    <3>2. streamBuffer'.slots[i].seq >= q
      BY <1>9, <1>13, <2>1, <3>1
    <3> QED
      BY <1>4, <2>1, <3>1, <3>2 DEF Ready, q
  <2> QED
    BY <2>2, <2>3
<1>14. Found(d) => Ready(b.data)
  BY <1>2, <1>3, <1>6 DEF Ready, d, r
<1>15. /\ \A e : e \in Range(Collected) <=>
            e \in Range(envelopes) \/ (Found(d) /\ e = b.data)
       /\ \A e : e \in Range(envelopes') \/ (\E i \in DOMAIN ch' : e \in Range(ch'[i])) =>
            e \in Range(Collected) \/ \E i \in DOMAIN ch : e \in Range(ch[i])
       /\ ~ChannelDrops(fired) => \A e :
            e \in Range(Collected) \/ (\E i \in DOMAIN ch : e \in Range(ch[i])) =>
            e \in Range(envelopes') \/ \E i \in DOMAIN ch' : e \in Range(ch'[i])
  BY <1>1, <1>i, CollectedGoes DEF d, b
<1>16. NozzleParts /\ NozzleParts'
  BY <1>i, InNozzleIs, InNozzleNext
<1>17. InNozzle' \subseteq InNozzle
  <2> SUFFICES ASSUME NEW e \in InNozzle'
               PROVE  e \in InNozzle
    OBVIOUS
  <2>1. \/ Ready(e)' \/ e \in Range(envelopes')
        \/ \E i \in DOMAIN ch' : e \in Range(ch'[i])
        \/ \E w \in Writers : e \in Range(writer[w])
    BY <1>1, <1>16 DEF NozzleParts
  <2> QED
    BY <1>12, <1>14, <1>15, <1>16, <2>1 DEF NozzleParts
<1>18. ASSUME mishaps' = {}
       PROVE  mishaps = {} /\ InNozzle \subseteq InNozzle'
  <2>1. mishaps = {} /\ ~ChannelDrops(fired)
    BY <1>1, <1>18
  <2> SUFFICES ASSUME NEW e \in InNozzle
               PROVE  e \in InNozzle'
    BY <2>1
  <2>2. \/ Ready(e) \/ e \in Range(envelopes)
        \/ \E i \in DOMAIN ch : e \in Range(ch[i])
        \/ \E w \in Writers : e \in Range(writer'[w])
    BY <1>1, <1>16 DEF NozzleParts
  <2> QED
    BY <1>13, <1>15, <1>16, <2>1, <2>2 DEF NozzleParts
<1>19. Accounting'
  <2> DEFINE S == InNozzle
             T == InNozzle'
  <2>1. IsFiniteSet(S) /\ Cardinality(S) \in Nat /\ Cardinality(T) \in Nat
    BY <1>16 DEF NozzleParts
  <2>2. /\ ingressInc - egressInc >= Cardinality(S)
        /\ mishaps = {} => ingressInc - egressInc = Cardinality(S)
        /\ ingressInc \in Nat /\ egressInc \in Nat
    BY <1>i DEF CountInv, Accounting, NozzleInv, NozzleTypeOK
  <2>3. T \subseteq S /\ (mishaps' = {} => mishaps = {} /\ T = S)
    BY <1>17, <1>18
  <2> HIDE DEF S, T
  <2>4. Cardinality(T) <= Cardinality(S)
    BY <2>1, <2>3, FS_Subset
  <2>5. /\ ingressInc' - egressInc' >= Cardinality(T)
        /\ mishaps' = {} => ingressInc' - egressInc' = Cardinality(T)
    <3> DEFINE n == ingressInc - egressInc
    <3>1. /\ n \in Int /\ n >= Cardinality(S) /\ ingressInc' - egressInc' = n
          /\ mishaps = {} => n = Cardinality(S)
      <4>1. ingressInc' = ingressInc /\ egressInc' = egressInc
        BY <1>1
      <4> QED
        BY <2>2, <4>1
    <3> HIDE DEF n
    <3>2. ingressInc' - egressInc' >= Cardinality(T)
      BY <2>1, <2>4, <3>1
    <3>3. mishaps' = {} => ingressInc' - egressInc' = Cardinality(T)
      BY <2>3, <3>1
    <3> QED
      BY <3>2, <3>3
  <2> QED
    BY <2>5 DEF Accounting, T
<1> QED
  BY <1>8, <1>11, <1>19 DEF CountInv

\* A writer takes a batch, or is done with it; the diode is as it was.
LEMMA RingStays ==
  ASSUME UNCHANGED streamBuffer
  PROVE  RingInv = RingInv' /\ RingFull = RingFull' /\ \A e : Ready(e) <=> Ready(e)'
  BY DEF RingInv, RingFull, Ready

\* A batch goes from the channel to a writer.
LEMMA TakeCounts ==
  ASSUME TypeInv, TypeInv', OnceInv, CountInv, NEW w \in Writers, TakeBatch(w),
         mishaps' = {} => mishaps = {} /\ WritersWait'
  PROVE  CountInv'
<1>i. NozzleInv /\ NozzleInv' /\ QueueInv
  BY DEF TypeInv, OnceInv
<1>1. /\ writer[w] = <<>> /\ ch # <<>> /\ ch' = Tail(ch)
      /\ UNCHANGED <<streamBuffer, ingressInc, egressInc, envelopes>>
      /\ writer'[w] = Head(ch) /\ \A v \in Writers : v # w => writer'[v] = writer[v]
  <2>1. writer \in [Writers -> Seq(Streamed)]
    BY <1>i DEF NozzleInv, NozzleTypeOK
  <2> QED
    BY <2>1 DEF TakeBatch
<1> DEFINE head == Head(ch)
           n == Len(ch)
<1>2. /\ Injective(head) /\ \A e : Upcoming(e)' => Upcoming(e)
      /\ \A e \in Range(head) : e \in Streamed /\ Upcoming(e) /\ ~Upcoming(e)'
  BY <1>i, TakeOnce
<1>3. /\ n \in Nat \ {0} /\ DOMAIN ch = 1 .. n /\ DOMAIN ch' = 1 .. n - 1
      /\ \A i \in 1 .. n - 1 : ch'[i] = ch[i + 1]
      /\ head = ch[1]
  <2>1. /\ Tail(ch) \in Seq(Seq(Streamed)) /\ Len(Tail(ch)) = n - 1 /\ n \in Nat \ {0}
        /\ \A i \in 1 .. n - 1 : Tail(ch)[i] = ch[i + 1]
        /\ head = ch[1]
    BY <1>1, <1>i, HeadOfChannel
  <2>2. DOMAIN ch' = 1 .. n - 1
    BY <1>1, <2>1
  <2> QED
    BY <1>1, <1>i, <2>1, <2>2, NozzleIs
<1> HIDE DEF head, n
<1>w. writer'[w] = head
  BY <1>1 DEF head
<1>4. \A e : (\E i \in DOMAIN ch : e \in Range(ch[i])) <=>
        e \in Range(head) \/ \E i \in DOMAIN ch' : e \in Range(ch'[i])
  <2>1. \A i \in 1 .. n : i = 1 \/ (i - 1 \in 1 .. n - 1 /\ (i - 1) + 1 = i)
    BY <1>3
  <2>2. 1 \in 1 .. n /\ \A i \in 1 .. n - 1 : i + 1 \in 1 .. n
    BY <1>3
  <2> SUFFICES ASSUME NEW e
               PROVE  (\E i \in DOMAIN ch : e \in Range(ch[i])) <=>
                        e \in Range(head) \/ \E i \in DOMAIN ch' : e \in Range(ch'[i])
    OBVIOUS
  <2>3. ASSUME NEW i \in 1 .. n, e \in Range(ch[i]), i # 1
        PROVE  \E j \in DOMAIN ch' : e \in Range(ch'[j])
    <3>1. i - 1 \in 1 .. n - 1 /\ ch'[i - 1] = ch[i]
      BY <1>3, <2>1, <2>3
    <3> QED
      BY <1>3, <2>3, <3>1
  <2>4. ASSUME NEW i \in 1 .. n - 1, e \in Range(ch'[i])
        PROVE  \E j \in DOMAIN ch : e \in Range(ch[j])
    BY <1>3, <2>2, <2>4
  <2>5. e \in Range(head) => \E j \in DOMAIN ch : e \in Range(ch[j])
    BY <1>3, <2>2
  <2> QED
    BY <1>3, <2>3, <2>4, <2>5
<1>5. WritersInv'
  <2>1. ASSUME NEW v \in Writers
        PROVE  Injective(writer'[v]) /\ \A e \in Range(writer'[v]) : ~Upcoming(e)'
    BY <1>1, <1>2, <1>w DEF CountInv, WritersInv
  <2>2. ASSUME NEW v \in Writers, NEW u \in Writers, NEW e \in Streamed,
               e \in Range(writer'[v]), e \in Range(writer'[u])
        PROVE  v = u
    BY <1>1, <1>2, <1>w, <2>2 DEF CountInv, WritersInv
  <2> QED
    BY <2>1, <2>2 DEF WritersInv
<1>6. NozzleParts /\ NozzleParts'
  BY <1>i, InNozzleIs, InNozzleNext
<1>7. \A e : (\E v \in Writers : e \in Range(writer'[v])) <=>
        e \in Range(head) \/ \E v \in Writers : e \in Range(writer[v])
  BY <1>1, <1>w, EmptySeqIs
<1>8. \A e : e \in InNozzle <=> e \in InNozzle'
  BY <1>1, <1>4, <1>6, <1>7, RingStays DEF NozzleParts
<1>9. InNozzle' = InNozzle
  BY <1>8
<1>10. Accounting'
  BY <1>1, <1>9 DEF CountInv, Accounting
<1> QED
  BY <1>1, <1>5, <1>10, RingStays DEF CountInv

\* A batch that was sent is counted as egress.
LEMMA ReturnCounts ==
  ASSUME TypeInv, TypeInv', OnceInv, CountInv, NEW w \in Writers, NEW err \in BOOLEAN,
         SendReturns(w, err),
         mishaps' = {} => mishaps = {} /\ ~err /\ WritersWait'
  PROVE  CountInv'
<1>i. NozzleInv /\ NozzleInv' /\ QueueInv
  BY DEF TypeInv, OnceInv
<1> DEFINE sent == writer[w]
<1>1. /\ UNCHANGED <<streamBuffer, ingressInc, envelopes, ch>>
      /\ err => egressInc' = egressInc
      /\ ~err => egressInc' = egressInc + Len(sent)
      /\ writer'[w] = <<>> /\ \A v \in Writers : v # w => writer'[v] = writer[v]
      /\ sent \in Seq(Streamed)
  <2>1. writer \in [Writers -> Seq(Streamed)]
    BY <1>i DEF NozzleInv, NozzleTypeOK
  <2> QED
    BY <2>1 DEF SendReturns
<1>2. Injective(sent) /\ \A e \in Range(sent) : e \in Streamed /\ ~Upcoming(e)
  BY <1>1 DEF CountInv, WritersInv, Range
<1> HIDE DEF sent
<1>3. \A e : Upcoming(e)' => Upcoming(e)
  BY <1>1 DEF Upcoming
<1>4. WritersInv'
  <2>1. ASSUME NEW v \in Writers
        PROVE  Injective(writer'[v]) /\ \A e \in Range(writer'[v]) : ~Upcoming(e)'
    BY <1>1, <1>3, EmptySeqIs DEF CountInv, WritersInv
  <2>2. ASSUME NEW v \in Writers, NEW u \in Writers, NEW e \in Streamed,
               e \in Range(writer'[v]), e \in Range(writer'[u])
        PROVE  v = u
    BY <1>1, <2>2, EmptySeqIs DEF CountInv, WritersInv
  <2> QED
    BY <2>1, <2>2 DEF WritersInv
<1>5. NozzleParts /\ NozzleParts'
  BY <1>i, InNozzleIs, InNozzleNext
<1>6. ASSUME NEW e, Ready(e)
      PROVE  Upcoming(e)
  <2>1. PICK i \in DOMAIN streamBuffer.slots :
          /\ streamBuffer.slots[i] # Nothing
          /\ streamBuffer.slots[i].seq >= streamBuffer.readIndex
          /\ streamBuffer.slots[i].data = e
    BY <1>6 DEF Ready
  <2>2. /\ streamBuffer.slots[i].seq \in Nat /\ streamBuffer.slots[i].data \in Streamed
        /\ e = streamBuffer.slots[i].seq + 1 /\ streamBuffer.readIndex \in Nat
    BY <1>i, <2>1, NozzleIs DEF QueueInv
  <2>3. e \in Streamed /\ streamBuffer.readIndex < e
    BY <2>1, <2>2
  <2> QED
    BY <2>3 DEF Upcoming
<1>7. \A e : (\E v \in Writers : e \in Range(writer'[v])) <=>
        e \notin Range(sent) /\ \E v \in Writers : e \in Range(writer[v])
  <2> SUFFICES ASSUME NEW e
               PROVE  (\E v \in Writers : e \in Range(writer'[v])) <=>
                        e \notin Range(sent) /\ \E v \in Writers : e \in Range(writer[v])
    OBVIOUS
  <2>1. ASSUME NEW v \in Writers, e \in Range(writer'[v])
        PROVE  e \notin Range(sent) /\ e \in Range(writer[v])
    <3>1. v # w /\ e \in Range(writer[v])
      BY <1>1, <2>1, EmptySeqIs
    <3>2. e \in Range(sent) => v = w
      BY <1>2, <3>1 DEF CountInv, WritersInv, sent
    <3> QED
      BY <3>1, <3>2
  <2>2. ASSUME NEW v \in Writers, e \in Range(writer[v]), e \notin Range(sent)
        PROVE  e \in Range(writer'[v])
    BY <1>1, <2>2 DEF sent
  <2> QED
    BY <2>1, <2>2
<1>8. \A e \in Range(sent) :
        /\ ~Ready(e) /\ e \notin Range(envelopes) /\ \A i \in DOMAIN ch : e \notin Range(ch[i])
  BY <1>2, <1>6 DEF Upcoming
<1>9. \A e : e \in InNozzle' <=> e \in InNozzle /\ e \notin Range(sent)
  BY <1>1, <1>5, <1>7, <1>8, RingStays DEF NozzleParts
<1>10. InNozzle' = InNozzle \ Range(sent)
  BY <1>9
<1>11. Range(sent) \subseteq InNozzle
  BY <1>5 DEF NozzleParts, sent
<1>12. Accounting'
  <2> DEFINE S == InNozzle
             T == InNozzle'
             n == ingressInc - egressInc
             sum == Cardinality(Range(sent))
  <2>1. IsFiniteSet(S) /\ Cardinality(S) \in Nat /\ Cardinality(T) \in Nat
    BY <1>5 DEF NozzleParts
  <2>2. /\ n >= Cardinality(S) /\ (mishaps = {} => n = Cardinality(S)) /\ n \in Int
        /\ ingressInc \in Nat /\ egressInc \in Nat
    BY <1>i DEF CountInv, Accounting, NozzleInv, NozzleTypeOK
  <2>3. sum = Len(sent) /\ sum \in Nat
    BY <1>1, <1>2, LengthIs
  <2>4. T = S \ Range(sent) /\ S \cap Range(sent) = Range(sent)
    BY <1>10, <1>11
  <2>5. Cardinality(S \ Range(sent)) = Cardinality(S) - Cardinality(S \cap Range(sent))
    BY <2>1, FS_Difference
  <2> HIDE DEF S, T
  <2>6. Cardinality(T) = Cardinality(S) - sum
    BY <2>4, <2>5
  <2>7. ingressInc' - egressInc' = IF err THEN n ELSE n - sum
    <3>1. ingressInc' = ingressInc
      BY <1>1
    <3>2. CASE err
      BY <1>1, <3>1, <3>2
    <3>3. CASE ~err
      <4>1. egressInc' = egressInc + sum
        BY <1>1, <2>3, <3>3
      <4> QED
        BY <2>2, <2>3, <3>1, <3>3, <4>1
    <3> QED
      BY <3>2, <3>3
  <2> HIDE DEF n, sum
  <2>8. ingressInc' - egressInc' >= Cardinality(T)
    BY <2>1, <2>2, <2>3, <2>6, <2>7
  <2>9. ASSUME mishaps' = {}
        PROVE  ingressInc' - egressInc' = Cardinality(T)
    <3>1. mishaps = {} /\ ~err
      BY <2>9
    <3> QED
      BY <2>2, <2>6, <2>7, <3>1
  <2> QED
    BY <2>8, <2>9 DEF Accounting, T
<1> QED
  BY <1>1, <1>4, <1>12, RingStays DEF CountInv

\* A step of the other components, in which no writer loses its call.
LEMMA OtherCounts ==
  ASSUME TypeInv, CountInv, UNCHANGED nozzleVars, mishaps \subseteq mishaps',
         mishaps' = {} => \A w \in Writers : Waits(w) => Waits(w)'
  PROVE  CountInv'
<1>1. InNozzle' = InNozzle
  BY DEF InNozzle, nozzleVars
<1>2. RingInv' /\ Accounting' /\ (mishaps' = {} => RingFull')
  BY <1>1, RingStays DEF CountInv, Accounting, nozzleVars
<1>3. WritersInv'
  BY WritersStay DEF CountInv, Upcoming, nozzleVars
<1>4. mishaps' = {} => WritersWait'
  BY Waiting DEF CountInv, nozzleVars
<1> QED
  BY <1>2, <1>3, <1>4 DEF CountInv

\* No writer loses its call as long as it is handled.
LEMMA HandleWaits ==
  ASSUME ProxyInv, NEW h \in Handlers, HandleSend(h)
  PROVE  \A q : Waits(q) => Waits(q)'
<1> SUFFICES ASSUME NEW q
             PROVE  Waits(q) => Waits(q)'
  OBVIOUS
<1>1. PICK k : Became(h, k) /\ k.caller = handler[h].caller
  <2>1. CASE LookUp(h)
    BY <2>1, LookUpIs
  <2>2. CASE PutLocally(h)
    BY <2>2, PutLocallyIs
  <2>3. CASE SendToPeer(h)
    BY <2>3, SendToPeerIs
  <2>4. CASE LoadIndex(h)
    BY <2>4, LoadIndexIs
  <2>5. CASE StoreBucket(h)
    BY <2>5, StoreBucketIs
  <2>6. CASE Respond(h)
    BY <2>6, RespondIs
  <2> QED
    BY <2>1, <2>2, <2>3, <2>4, <2>5, <2>6 DEF HandleSend
<1> QED
  BY <1>1, WaitsKept

\* A caller whose Send is handled waits; nobody else stops to.
LEMMA EntryWaits ==
  ASSUME ProxyInv, NEW caller \in Callers, NEW batch \in Seq(Envelopes),
         EntrySend(caller, batch)
  PROVE  Waits(caller)' /\ \A q \in Callers : Waits(q) => Waits(q)'
<1>1. PICK h \in Handlers : \E k :
        /\ Begun(k, caller, Entry, "lookup", batch, NoParts)
        /\ handler[h].at = "idle" /\ handler' = [handler EXCEPT ![h] = k]
  BY EntrySendIs
<1> QED
  BY <1>1, BeginsWaiting

\* A call to a peer stops nobody from waiting.
LEMMA CallWaits ==
  ASSUME TypeInv, NEW p \in Peers, CallPeer(p)
  PROVE  \A q \in Callers : Waits(q) => Waits(q)'
<1> DEFINE sent == peer[p].sending
           to == p[2]
<1>1. p \in Callers /\ to \in Nodes /\ sent \in Seq(Envelopes) /\ LocalSend(p, to, sent)
  BY CallSends
<1> HIDE DEF sent, to
<1>2. PICK h \in Handlers : \E k :
        /\ Begun(k, p, to, "send", <<>>, [NoParts EXCEPT ![to] = sent])
        /\ handler[h].at = "idle" /\ handler' = [handler EXCEPT ![h] = k]
  BY <1>1, LocalSendIs
<1> QED
  BY <1>1, <1>2, BeginsWaiting DEF TypeInv

\* A batch that arrives at the entry node, and one that Send returns for.
LEMMA WriteCounts ==
  ASSUME TypeInv, TypeInv', OnceInv, CountInv, NEW w \in Writers, Write(w)
  PROVE  CountInv'
<1>1. TakeBatch(w) /\ mishaps' = mishaps
  BY DEF Write, history
<1>2. Waits(w)' /\ \A q \in Callers : Waits(q) => Waits(q)'
  BY WriteSends, EntryWaits DEF TypeInv
<1>3. writer' = [writer EXCEPT ![w] = Head(ch)] /\ writer \in [Writers -> Seq(Streamed)]
  BY <1>1 DEF TakeBatch, TypeInv, NozzleInv, NozzleTypeOK
<1>4. ASSUME mishaps' = {}
      PROVE  WritersWait'
  <2>1. WritersWait
    BY <1>1, <1>4 DEF CountInv
  <2>2. ASSUME NEW v \in Writers, writer'[v] # <<>>
        PROVE  Waits(v)'
    <3>1. CASE v = w
      BY <1>2, <3>1
    <3>2. CASE v # w
      BY <1>2, <1>3, <2>1, <2>2, <3>2, IngressConstants DEF WritersWait
    <3> QED
      BY <3>1, <3>2
  <2> QED
    BY <2>2 DEF WritersWait
<1> QED
  BY <1>1, <1>4, TakeCounts

\* A writer's Send returns.
LEMMA WrittenCounts ==
  ASSUME TypeInv, TypeInv', OnceInv, CountInv, NEW w \in Writers, Written(w)
  PROVE  CountInv'
<1>1. PICK err \in BOOLEAN :
        /\ SendReturns(w, err)
        /\ ~err => Returns(w)
        /\ err => ~Waits(w) /\ UNCHANGED handler
  <2>1. ASSUME NEW no, no = FALSE, Returns(w), SendReturns(w, no)
        PROVE  \E err \in BOOLEAN : /\ SendReturns(w, err)
                                    /\ ~err => Returns(w)
                                    /\ err => ~Waits(w) /\ UNCHANGED handler
    <3>1. no \in BOOLEAN
      BY <2>1
    <3> QED
      BY <2>1, <3>1
  <2>2. ASSUME NEW yes, yes = TRUE, ~Waits(w), SendReturns(w, yes), UNCHANGED handler
        PROVE  \E err \in BOOLEAN : /\ SendReturns(w, err)
                                    /\ ~err => Returns(w)
                                    /\ err => ~Waits(w) /\ UNCHANGED handler
    <3>1. yes \in BOOLEAN
      BY <2>2
    <3> QED
      BY <2>2, <3>1
  <2> QED
    BY <2>1, <2>2 DEF Written
<1>2. /\ mishaps' = mishaps /\ writer[w] # <<>>
      /\ writer' = [writer EXCEPT ![w] = <<>>] /\ writer \in [Writers -> Seq(Streamed)]
  BY <1>1 DEF Written, history, SendReturns, TypeInv, NozzleInv, NozzleTypeOK
<1>3. ASSUME mishaps' = {}
      PROVE  ~err /\ WritersWait'
  <2>1. WritersWait
    BY <1>2, <1>3 DEF CountInv
  <2>2. ~err
    BY <1>1, <1>2, <2>1 DEF WritersWait
  <2>3. \A q \in Callers \ {w} : Waits(q) => Waits(q)'
    BY <1>1, <2>2, ReturnDrops, IngressConstants DEF TypeInv
  <2>4. ASSUME NEW v \in Writers, writer'[v] # <<>>
        PROVE  Waits(v)'
    <3>1. v # w /\ writer[v] # <<>> /\ v \in Callers
      BY <1>2, <2>4, IngressConstants
    <3> QED
      BY <2>1, <2>3, <3>1 DEF WritersWait
  <2> QED
    BY <2>2, <2>4 DEF WritersWait
<1> QED
  BY <1>1, <1>2, <1>3, ReturnCounts

\* A writer's Send fails, which is a mishap.
LEMMA FailsCounts ==
  ASSUME TypeInv, TypeInv', OnceInv, CountInv, NEW w \in Writers, WriteFails(w)
  PROVE  CountInv'
<1>1. mishaps' # {}
  BY DEF WriteFails
<1>2. CASE TakeBatch(w)
  BY <1>1, <1>2, TakeCounts
<1>3. ASSUME NEW err \in BOOLEAN, SendReturns(w, err)
      PROVE  CountInv'
  BY <1>1, <1>3, ReturnCounts
<1>4. TakeBatch(w) \/ \E err \in BOOLEAN : SendReturns(w, err)
  <2>1. ASSUME NEW yes, yes = TRUE, SendReturns(w, yes)
        PROVE  \E err \in BOOLEAN : SendReturns(w, err)
    <3>1. yes \in BOOLEAN
      BY <2>1
    <3> QED
      BY <2>1, <3>1
  <2> QED
    BY <2>1 DEF WriteFails
<1> QED
  BY <1>2, <1>3, <1>4

-----------------------------------------------------------------------------
\* Nothing was read, nothing was sent.
LEMMA InitCounts == Init => CountInv
<1> SUFFICES ASSUME Init
             PROVE  CountInv
  OBVIOUS
<1>1. /\ streamBuffer = EmptyDiode(StreamBufferSize) /\ ingressInc = 0 /\ egressInc = 0
      /\ envelopes = <<>> /\ ch = <<>> /\ writer = [w \in Writers |-> <<>>]
  BY DEF Init, NozzleInit
<1>2. /\ streamBuffer.writeIndex = 0 /\ streamBuffer.readIndex = 0
      /\ \A i \in 0 .. StreamBufferSize - 1 : streamBuffer.slots[i] = Nothing
      /\ DOMAIN streamBuffer.slots = 0 .. StreamBufferSize - 1
  BY <1>1, EmptyIs, IngressConstants DEF EmptyDiode
<1>3. RingInv /\ RingFull
  BY <1>2 DEF RingInv, RingFull
<1>4. WritersInv /\ WritersWait
  BY <1>1, EmptySeqIs DEF WritersInv, WritersWait
<1>5. InNozzle = {}
  <2>1. NozzleInv
    BY InitTypeInv DEF TypeInv
  <2>2. \A e : ~Ready(e) /\ e \notin Range(envelopes) /\ \A w \in Writers : e \notin Range(writer[w])
    BY <1>1, <1>2, EmptySeqIs DEF Ready
  <2>3. DOMAIN ch = {}
    BY <1>1
  <2> QED
    BY <2>1, <2>2, <2>3, InNozzleIs DEF NozzleParts
<1>6. Accounting
  <2>1. Cardinality(InNozzle) = 0
    BY <1>5, FS_EmptySet
  <2> QED
    BY <1>1, <2>1 DEF Accounting
<1> QED
  BY <1>3, <1>4, <1>6 DEF CountInv

\* The counters differ by what is in the nozzle, short of mishaps.
LEMMA NextCounts == TypeInv /\ OnceInv /\ CountInv /\ [Next]_vars => CountInv'
<1> SUFFICES ASSUME TypeInv, OnceInv, CountInv, [Next]_vars
             PROVE  CountInv'
  OBVIOUS
<1>i. TypeInv' /\ ProxyInv
  BY NextTypeInv DEF TypeInv
\* A step without the nozzle, in which calls of others end.
<1>o. ASSUME NEW caller \in Callers \ Writers, UNCHANGED nozzleVars,
             mishaps \subseteq mishaps',
             Returns(caller) \/ Abandon(caller) \/ UNCHANGED handler
      PROVE  CountInv'
  <2>1. \A q \in Callers \ {caller} : Waits(q) => Waits(q)'
    <3>1. CASE Returns(caller) \/ Abandon(caller)
      BY <1>i, <3>1, ReturnDrops
    <3>2. CASE UNCHANGED handler
      BY <3>2 DEF Waits
    <3> QED
      BY <1>o, <3>1, <3>2
  <2>2. \A w \in Writers : w \in Callers \ {caller}
    BY <1>o, IngressConstants
  <2> QED
    BY <1>o, <2>1, <2>2, OtherCounts
<1>u. ASSUME UNCHANGED nozzleVars, mishaps \subseteq mishaps', UNCHANGED handler
      PROVE  CountInv'
  BY <1>u, OtherCounts DEF Waits
<1>c. \A p \in Peers : p \in Callers \ Writers
  BY IngressConstants, IngressAssumption
<1>s. Syslog \in Callers \ Writers
  BY IngressConstants, IngressAssumption
<1>1. CASE ReadStream
  BY <1>1, <1>i, ReadCounts
<1>2. ASSUME NEW b \in BOOLEAN, Batch(b)
      PROVE  CountInv'
  BY <1>2, <1>i, BatchCounts
<1>3. ASSUME NEW w \in Writers, Write(w) \/ Written(w) \/ WriteFails(w)
      PROVE  CountInv'
  BY <1>3, <1>i, WriteCounts, WrittenCounts, FailsCounts
<1>5. ASSUME NEW p \in Peers, NEW b \in BOOLEAN, BatchPeer(p, b)
      PROVE  CountInv'
  BY <1>5, <1>u DEF BatchPeer, BatchForPeer, history
<1>6. ASSUME NEW p \in Peers, WritePeer(p)
      PROVE  CountInv'
  <2>1. UNCHANGED <<nozzleVars, mishaps>>
    BY <1>6 DEF WritePeer, history
  <2>2. CASE CallPeer(p)
    BY <2>1, <2>2, CallWaits, OtherCounts, IngressConstants
  <2>3. CASE PeerReturns(p)
    BY <1>c, <1>o, <2>1, <2>3 DEF PeerReturns
  <2> QED
    BY <1>6, <2>2, <2>3 DEF WritePeer
<1>7. ASSUME NEW p \in Peers, PeerCallFails(p)
      PROVE  CountInv'
  BY <1>7, <1>c, <1>o DEF PeerCallFails, PeerFails
<1>8. CASE Parse
  BY <1>8, <1>u DEF Parse, proxyVars
<1>9. CASE Forward
  <2>1. UNCHANGED <<nozzleVars, mishaps>>
    BY <1>9 DEF Forward, history
  <2>2. \A q \in Callers : Waits(q) => Waits(q)'
    BY <1>9, <1>i, ForwardSends, EntryWaits
  <2> QED
    BY <2>1, <2>2, OtherCounts, IngressConstants
<1>10. CASE Forwarded
  BY <1>10, <1>o, <1>s DEF Forwarded, history
<1>11. CASE ForwardFails
  BY <1>11, <1>o, <1>s DEF ForwardFails
<1>12. ASSUME NEW h \in Handlers, Handle(h)
       PROVE  CountInv'
  <2>1. HandleSend(h) /\ UNCHANGED nozzleVars /\ mishaps \subseteq mishaps'
    BY <1>12 DEF Handle
  <2> QED
    BY <1>i, <2>1, HandleWaits, OtherCounts
<1>13. CASE ChangeRoutes
  BY <1>13, <1>u DEF ChangeRoutes
<1>14. CASE UNCHANGED vars
  BY <1>14, <1>u DEF vars, proxyVars, history
<1> QED
  BY <1>1, <1>2, <1>3, <1>5, <1>6, <1>7, <1>8, <1>9, <1>10, <1>11, <1>12, <1>13, <1>14
  DEF Next

\* nozzle_egress counts no envelope twice and none that is still in the nozzle, and
\* unless something is dropped or a call fails, what it lacks of nozzle_ingress is in
\* the nozzle: in the diode, the batch, the channel, or with a writer
\* (nozzle.go, envelopeReader, envelopeBatcher, envelopeWriter).
THEOREM NozzleAccounts == Spec => []Accounting
<1>1. CountInv => Accounting
  BY DEF CountInv
<1> QED
  BY <1>1, InitTypeInv, NextTypeInv, InitOnce, NextOnce, InitCounts, NextCounts, PTL
  DEF Spec
=============================================================================
