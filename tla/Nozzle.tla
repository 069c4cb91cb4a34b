------------------------------- MODULE Nozzle -------------------------------
(***************************************************************************)
(* The nozzle (src/internal/nozzle/nozzle.go): envelopes of a stream go    *)
(* through a diode, batches and a channel of batches to goroutines that    *)
(* Send them to Log Cache. Each of the three drops when it is full.        *)
(***************************************************************************)
EXTENDS Diode, Integers, SequencesExt

CONSTANTS
  Streamed,            \* what the stream has, 1 .. n, in this order
  Writers,             \* the goroutines that send
  StreamBufferSize,    \* 100000 in the code
  BATCH_CHANNEL_SIZE,  \* of a batch
  ChannelSize          \* of the channel: BATCH_CHANNEL_SIZE in the code

ASSUME NozzleAssumption ==
  /\ IsFiniteSet(Streamed) /\ Streamed = 1 .. Cardinality(Streamed)
  /\ StreamBufferSize \in Nat \ {0} /\ BATCH_CHANNEL_SIZE \in Nat \ {0}
  /\ ChannelSize \in Nat \ {0}

VARIABLES
  streamBuffer,
  ingressInc,   \* and the number of envelopes read from the stream
  egressInc,
  errInc,
  envelopes,    \* the batch envelopeBatcher collects
  ch,
  writer        \* writer -> the batch it is sending, or an empty one

nozzleVars ==
  <<streamBuffer, ingressInc, egressInc, errInc, envelopes, ch, writer>>

NozzleTypeOK ==
  /\ streamBuffer \in Diodes(StreamBufferSize, Streamed)
  /\ ingressInc \in 0 .. Cardinality(Streamed)
  /\ egressInc \in Nat /\ errInc \in Nat
  /\ envelopes \in Seq(Streamed) /\ Len(envelopes) < BATCH_CHANNEL_SIZE
  /\ ch \in Seq(Seq(Streamed)) /\ Len(ch) <= ChannelSize
  /\ writer \in [Writers -> Seq(Streamed)]

NozzleInit ==
  /\ streamBuffer = EmptyDiode(StreamBufferSize)
  /\ ingressInc = 0 /\ egressInc = 0 /\ errInc = 0
  /\ envelopes = <<>> /\ ch = <<>>
  /\ writer = [w \in Writers |-> <<>>]

\* envelopeReader, for the next envelope of the stream.
ReadEnvelope ==
  /\ ingressInc < Cardinality(Streamed)
  /\ ingressInc' = ingressInc + 1
  /\ streamBuffer' = Set(streamBuffer, ingressInc + 1)
  /\ UNCHANGED <<egressInc, errInc, envelopes, ch, writer>>

\* What the batch is after TryNext.
Collected ==
  IF Found(streamBuffer)
  THEN Append(envelopes, NextBucket(streamBuffer).data) ELSE envelopes

ChannelFull == Len(ch) = ChannelSize

\* Mutant: a timer that fires flushes full batches only.
Flushes_FullOnly(fired) == Len(Collected) >= BATCH_CHANNEL_SIZE

\* The batch is offered to the channel in this iteration.
Flushes(fired) ==
  \/ fired /\ Collected # <<>>
  \/ ~fired /\ Len(Collected) >= BATCH_CHANNEL_SIZE

\* Mutant: a batch that the timer has flushed is kept.
BatchEnvelopes_Kept(fired) ==
  /\ streamBuffer' = Read(streamBuffer)
  /\ ch' = IF Flushes(fired) /\ ~ChannelFull THEN Append(ch, Collected) ELSE ch
  /\ envelopes' = IF Flushes(fired) /\ (ChannelFull \/ ~fired) THEN <<>>
                  ELSE Collected
  /\ UNCHANGED <<ingressInc, egressInc, errInc, writer>>

\* One iteration of envelopeBatcher, whose timer has fired or not.
BatchEnvelopes(fired) ==
  /\ streamBuffer' = Read(streamBuffer)
  /\ ch' = IF Flushes(fired) /\ ~ChannelFull THEN Append(ch, Collected) ELSE ch
  /\ envelopes' = IF Flushes(fired) THEN <<>> ELSE Collected
  /\ UNCHANGED <<ingressInc, egressInc, errInc, writer>>

\* envelopeWriter begins to Send.
TakeBatch(w) ==
  /\ writer[w] = <<>> /\ ch # <<>>
  /\ writer' = [writer EXCEPT ![w] = Head(ch)]
  /\ ch' = Tail(ch)
  /\ UNCHANGED <<streamBuffer, ingressInc, egressInc, errInc, envelopes>>

\* Send returns.
SendReturns(w, err) ==
  /\ writer[w] # <<>>
  /\ writer' = [writer EXCEPT ![w] = <<>>]
  /\ \/ err /\ errInc' = errInc + 1 /\ UNCHANGED egressInc
     \/ ~err /\ egressInc' = egressInc + Len(writer[w]) /\ UNCHANGED errInc
  /\ UNCHANGED <<streamBuffer, ingressInc, envelopes, ch>>

\* The nozzle drops in this step.
Overruns == Overwrites(streamBuffer, streamBuffer.writeIndex)
ChannelDrops(fired) == Flushes(fired) /\ ChannelFull

InNozzle ==
  Contents(streamBuffer) \cup Range(envelopes)
    \cup UNION {Range(batch) : batch \in Range(ch) \cup Range(writer)}
=============================================================================
