--------------------------- MODULE DatagramProofs ---------------------------
(***************************************************************************)
(* The two directions of a datagram transport that loses, repeats and      *)
(* reorders.  Up: commands come out of the sequencer in order, and what is *)
(* acknowledged is kept, for any reorder window, any number of commands    *)
(* and attempts.  Down: an event batch the client has acknowledged is not  *)
(* lost behind its back and its stream does not rewind, for any number of  *)
(* batches, attempts and remembered messages.                              *)
(***************************************************************************)
EXTENDS MCDatagramTransport, FiniteSetTheorems, SequenceTheorems, TLAPS

\* How far the sequencer is.  Once the client is disconnected it has started
\* over, but nothing is handed to it any more.
CountsDelivered ==
  connected => Len(delivered) = IF nextExpected = 0 THEN MaxSequence ELSE nextExpected - 1

SequencerInv ==
  /\ SequencerTypeOK
  /\ DeliveredInOrder
  /\ CountsDelivered

\* The receive history is a part of what was acknowledged.
RememberedIsAcknowledged ==
  /\ received \in Seq(acks)
  /\ acks \subseteq Commands

AckInv ==
  /\ RememberedIsAcknowledged
  /\ AcknowledgedIsKept

-----------------------------------------------------------------------------
(* The ready run.                                                          *)

\* What leaves the buffer is an interval that starts at the gap.
LEMMA ReadyRunIsInterval ==
  ASSUME NEW pending \in SUBSET Sequences, NEW first \in Sequences
  PROVE  LET ready == ReadyRun(pending, first)
         IN  /\ IsFiniteSet(ready)
             /\ Cardinality(ready) \in Nat
             /\ ready = first .. first + Cardinality(ready) - 1
PROOF
<1> DEFINE ready == ReadyRun(pending, first)
           L == Cardinality(ready)
           span == first .. first + L - 1
<1> USE SequencerAssumption DEF Sequences
<1>1. IsFiniteSet(Sequences)
  BY FS_Interval
<1>2. ready \in SUBSET Sequences
  BY DEF ReadyRun
<1>3. IsFiniteSet(ready)
  BY <1>1, <1>2, FS_Subset, Zenon
<1>4. L \in Nat
  BY <1>3, FS_CardinalityType
<1>5. ASSUME NEW n \in ready PROVE n \in span
  <2>1. n \in Int /\ first <= n /\ first .. n \subseteq ready
    BY DEF ReadyRun
  <2>2. Cardinality(first .. n) = n - first + 1
    BY <2>1, FS_Interval
  <2>3. Cardinality(first .. n) <= L
    BY <1>3, <2>1, FS_Subset
  <2> QED BY <1>4, <2>1, <2>2, <2>3
<1>6. IsFiniteSet(span) /\ Cardinality(span) = L
  <2> HIDE DEF L
  <2> QED BY <1>4, FS_Interval
<1>7. ready = span
  <2> HIDE DEF ready, span
  <2>1. ready \in SUBSET span
    BY <1>5
  <2> QED BY <1>6, <2>1, FS_Subset
<1> QED BY <1>3, <1>4, <1>7

\* The interval is handed on in order.
LEMMA IntervalInOrder ==
  ASSUME NEW first \in Nat, NEW length \in Nat
  PROVE  InOrder(first .. first + length - 1) = [i \in 1 .. length |-> first + i - 1]
PROOF
<1> DEFINE S == first .. first + length - 1
<1>1. Cardinality(S) = length
  BY FS_Interval
<1>2. ASSUME NEW n \in S PROVE Cardinality({m \in S : m < n}) = n - first
  <2>1. n \in Int /\ first <= n /\ n <= first + length - 1
    OBVIOUS
  <2>2. {m \in S : m < n} = first .. n - 1
    BY <2>1
  <2>3. Cardinality(first .. n - 1) = n - 1 - first + 1
    <3> DEFINE last == n - 1
    <3>1. last \in Int /\ first \in Int /\ last - first + 1 = n - first
      BY <2>1
    <3>2. first <= last \/ first = n
      BY <2>1
    <3> HIDE DEF last
    <3>3. Cardinality(first .. last) = IF first > last THEN 0 ELSE last - first + 1
      BY <3>1, FS_Interval
    <3> QED BY <3>1, <3>2, <3>3, <2>1 DEF last
  <2>4. Cardinality({m \in S : m < n}) = Cardinality(first .. n - 1)
    BY <2>2, Zenon
  <2> HIDE DEF S
  <2> QED BY <2>1, <2>3, <2>4
<1>3. ASSUME NEW i \in 1 .. length PROVE Nth(S, i) = first + i - 1
  <2>1. first + i - 1 \in S
    OBVIOUS
  <2>2. Cardinality({m \in S : m < first + i - 1}) = i - 1
    BY <1>2, <2>1
  <2>3. \A n \in S : Cardinality({m \in S : m < n}) = i - 1 => n = first + i - 1
    BY <1>2
  <2> HIDE DEF S
  <2> QED BY <2>1, <2>2, <2>3 DEF Nth
<1> HIDE DEF S
<1>4. InOrder(S) = [i \in 1 .. length |-> first + i - 1]
  BY <1>1, <1>3 DEF InOrder
<1> QED BY <1>4 DEF S

-----------------------------------------------------------------------------
(* One command through the sequencer.                                      *)

\* What a step of Sequence does, with the ready run as an interval.
LEMMA SequenceStep ==
  ASSUME SequencerInv, connected,
         NEW seq \in Commands, Sequence(seq)
  PROVE  \/ /\ seq < nextExpected \/ seq \in reordered
            /\ UNCHANGED sequencerVars
         \/ \E length \in Nat :
              LET ready == nextExpected .. nextExpected + length - 1
              IN  /\ nextExpected \in Sequences
                  /\ seq \in Sequences
                  /\ ready \subseteq Sequences
                  /\ reordered' = (reordered \cup {seq}) \ ready
                  /\ nextExpected' = AfterRun(nextExpected, length)
                  /\ delivered' = delivered \o [i \in 1 .. length |-> nextExpected + i - 1]
PROOF
<1> USE SequencerAssumption, UplinkAssumption
<1> DEFINE pending == reordered \cup {seq}
           ready == ReadyRun(pending, nextExpected)
           length == Cardinality(ready)
<1>1. CASE seq < nextExpected \/ seq \in reordered
  BY <1>1 DEF Sequence
<1>2. CASE ~(seq < nextExpected \/ seq \in reordered)
  <2>1. nextExpected \in Sequences /\ seq \in Sequences /\ pending \in SUBSET Sequences
    BY DEF SequencerInv, SequencerTypeOK, Sequences, Sequence, Preflight, Commands
  <2>2. length \in Nat /\ ready = nextExpected .. nextExpected + length - 1
    BY <2>1, ReadyRunIsInterval
  <2>3. ready \subseteq Sequences
    BY <2>1 DEF ReadyRun
  <2>4. InOrder(ready) = [i \in 1 .. length |-> nextExpected + i - 1]
    <3>1. nextExpected \in Nat
      BY <2>1 DEF Sequences
    <3> HIDE DEF length, ready
    <3> QED BY <2>2, <3>1, IntervalInOrder
  <2>5. /\ reordered' = pending \ ready
        /\ nextExpected' = AfterRun(nextExpected, length)
        /\ delivered' = delivered \o InOrder(ready)
    BY <1>2 DEF Sequence
  <2> HIDE DEF length, ready
  <2> QED BY <2>1, <2>2, <2>3, <2>4, <2>5
<1> QED BY <1>1, <1>2

\* One run after another is still in order.
LEMMA AppendRun ==
  ASSUME SequencerInv, connected, nextExpected \in Sequences,
         NEW length \in Nat,
         nextExpected .. nextExpected + length - 1 \subseteq Sequences,
         NEW longer, longer = delivered \o [i \in 1 .. length |-> nextExpected + i - 1]
  PROVE  /\ longer \in Seq(Sequences)
         /\ Len(longer) = nextExpected + length - 1
         /\ \A i \in 1 .. Len(longer) : longer[i] = i
PROOF
<1> DEFINE run == [i \in 1 .. length |-> nextExpected + i - 1]
<1> USE DEF Sequences
<1>1. delivered \in Seq(Sequences) /\ Len(delivered) = nextExpected - 1
  BY DEF SequencerInv, SequencerTypeOK, CountsDelivered
<1>2. run \in Seq(Sequences) /\ Len(run) = length
  <2>1. \A i \in 1 .. length : nextExpected + i - 1 \in nextExpected .. nextExpected + length - 1
    OBVIOUS
  <2>2. run \in [1 .. length -> Sequences]
    BY <2>1
  <2> QED BY <2>2
<1>3. /\ longer \in Seq(Sequences)
      /\ Len(longer) = Len(delivered) + Len(run)
      /\ \A i \in 1 .. Len(delivered) + Len(run) :
           longer[i] = IF i <= Len(delivered) THEN delivered[i] ELSE run[i - Len(delivered)]
  <2> HIDE DEF run, Sequences
  <2>0. delivered \in Seq(Sequences) /\ run \in Seq(Sequences)
    BY <1>1, <1>2
  <2>1. longer = delivered \o run
    BY DEF run
  <2>2. /\ delivered \o run \in Seq(Sequences)
        /\ Len(delivered \o run) = Len(delivered) + Len(run)
        /\ \A i \in 1 .. Len(delivered) + Len(run) :
             (delivered \o run)[i] =
               IF i <= Len(delivered) THEN delivered[i] ELSE run[i - Len(delivered)]
    BY ONLY <2>0, ConcatProperties, ZenonT(40)
  <2> QED BY <2>1, <2>2, Zenon
<1>4. Len(longer) = nextExpected - 1 + length
  BY <1>1, <1>2, <1>3
<1>5. ASSUME NEW i \in 1 .. Len(longer) PROVE longer[i] = i
  <2>1. CASE i <= Len(delivered)
    BY <1>1, <1>2, <1>3, <2>1 DEF SequencerInv, DeliveredInOrder
  <2>2. CASE i > Len(delivered)
    <3>1. longer[i] = run[i - Len(delivered)]
      BY <1>1, <1>2, <1>3, <2>2
    <3>2. i - Len(delivered) \in 1 .. length
      BY <1>1, <1>4, <2>2
    <3> QED BY <1>1, <3>1, <3>2
  <2> QED BY <1>1, <2>1, <2>2
<1> QED BY <1>1, <1>3, <1>4, <1>5

LEMMA SequencePreserves ==
  ASSUME SequencerInv, connected, connected',
         NEW seq \in Commands, Sequence(seq)
  PROVE  SequencerInv'
PROOF
<1> USE SequencerAssumption
<1>1. CASE UNCHANGED sequencerVars
  BY <1>1 DEF SequencerInv, SequencerTypeOK, DeliveredInOrder, CountsDelivered, sequencerVars
<1>2. ASSUME NEW length \in Nat,
             nextExpected \in Sequences,
             seq \in Sequences,
             nextExpected .. nextExpected + length - 1 \subseteq Sequences,
             reordered' = (reordered \cup {seq}) \ (nextExpected .. nextExpected + length - 1),
             nextExpected' = AfterRun(nextExpected, length),
             delivered' = delivered \o [i \in 1 .. length |-> nextExpected + i - 1]
      PROVE  SequencerInv'
  <2>1. /\ delivered' \in Seq(Sequences)
        /\ Len(delivered') = nextExpected + length - 1
        /\ \A i \in 1 .. Len(delivered') : delivered'[i] = i
    BY <1>2, AppendRun
  <2>2. reordered' \in SUBSET Sequences
    BY <1>2 DEF SequencerInv, SequencerTypeOK
  <2>3. nextExpected + length - 1 <= MaxSequence
    <3>1. CASE length = 0
      BY <3>1, <1>2 DEF Sequences
    <3>2. CASE length > 0
      BY <3>2, <1>2 DEF Sequences
    <3> QED BY <3>1, <3>2
  <2>4. nextExpected' \in 0 .. MaxSequence
    BY <1>2, <2>3 DEF AfterRun, Sequences
  <2>5. Len(delivered') = IF nextExpected' = 0 THEN MaxSequence ELSE nextExpected' - 1
    BY <1>2, <2>1, <2>3 DEF AfterRun, Sequences
  <2> QED BY <2>1, <2>2, <2>4, <2>5
          DEF SequencerInv, SequencerTypeOK, DeliveredInOrder, CountsDelivered
<1> QED BY <1>1, <1>2, SequenceStep

LEMMA StepPreservesOrder ==
  SequencerInv /\ [Next]_vars => SequencerInv'
PROOF
<1> SUFFICES ASSUME SequencerInv, [Next]_vars PROVE SequencerInv'
  OBVIOUS
<1>1. CASE UNCHANGED <<sequencerVars, connected>>
  BY <1>1 DEF SequencerInv, SequencerTypeOK, DeliveredInOrder, CountsDelivered, sequencerVars
<1>2. CASE SendCommand
  BY <1>1, <1>2 DEF SendCommand
<1>3. ASSUME NEW expired \in (SUBSET DOMAIN attempts) \ {{}}, PollMaintenance(expired)
      PROVE  SequencerInv'
  BY <1>1, <1>3 DEF PollMaintenance
<1>4. ASSUME NEW expired \in (SUBSET DOMAIN attempts) \ {{}}, NEW sent \in SUBSET expired,
             PollFails(expired, sent)
      PROVE  SequencerInv'
  BY <1>1, <1>4 DEF PollFails
<1>5. ASSUME NEW seq \in Commands, ServerReceives(seq)
      PROVE  SequencerInv'
  <2>1. connected /\ UNCHANGED connected
    BY <1>5 DEF ServerReceives
  <2>2. CASE Sequence(seq)
    BY <2>1, <2>2, SequencePreserves
  <2>3. CASE UNCHANGED sequencerVars
    BY <1>1, <2>1, <2>3
  <2> QED BY <1>5, <2>2, <2>3 DEF ServerReceives
<1>6. ASSUME NEW seq \in Commands, ClientAcknowledged(seq)
      PROVE  SequencerInv'
  BY <1>1, <1>6 DEF ClientAcknowledged
<1>7. CASE DisconnectClient
  BY <1>7, SequencerAssumption
     DEF DisconnectClient, ClearSequencer, SequencerInv, SequencerTypeOK, DeliveredInOrder,
         CountsDelivered
<1>8. CASE UNCHANGED vars
  BY <1>1, <1>8 DEF vars
<1> QED BY <1>2, <1>3, <1>4, <1>5, <1>6, <1>7, <1>8 DEF Next

LEMMA InitIsInOrder == Init => SequencerInv
PROOF
BY SequencerAssumption
   DEF Init, SequencerInit, SequencerInv, SequencerTypeOK, DeliveredInOrder, CountsDelivered

\* The server hands the commands of a client to the dispatcher in the order of
\* their numbers, each once and none skipped, whatever the network does to the
\* datagrams, up to the last sequence number there is.
THEOREM SequencerOrder == Spec => []DeliveredInOrder
PROOF
<1>1. SequencerInv => DeliveredInOrder
  BY DEF SequencerInv
<1> QED BY <1>1, InitIsInOrder, StepPreservesOrder, PTL DEF Spec

-----------------------------------------------------------------------------
(* Acknowledgements.                                                       *)

\* A command that goes through the sequencer is kept, and so is all that was.
LEMMA SequenceKeeps ==
  ASSUME SequencerInv, connected,
         NEW seq \in Commands, Sequence(seq)
  PROVE  Taken \cup {seq} \subseteq Taken'
PROOF
<1> DEFINE Handed == {delivered[i] : i \in 1 .. Len(delivered)}
<1>1. delivered \in Seq(Sequences) /\ reordered \in SUBSET Sequences
  BY DEF SequencerInv, SequencerTypeOK
<1>2. CASE (seq < nextExpected \/ seq \in reordered) /\ UNCHANGED sequencerVars
  <2>1. Taken' = Taken
    BY <1>2 DEF Taken, sequencerVars
  <2>2. CASE seq \in reordered
    BY <2>1, <2>2 DEF Taken
  <2>3. CASE seq < nextExpected
    <3>1. nextExpected \in Nat /\ nextExpected # 0 /\ Len(delivered) = nextExpected - 1
      BY SequencerAssumption
         DEF SequencerInv, SequencerTypeOK, CountsDelivered, Sequence, Preflight
    <3>2. seq \in 1 .. Len(delivered) /\ delivered[seq] = seq
      BY <2>3, <3>1, UplinkAssumption, SequencerAssumption
         DEF Commands, SequencerInv, DeliveredInOrder
    <3>3. seq \in Taken
      BY <3>2 DEF Taken
    <3> QED BY <2>1, <3>3
  <2> QED BY <1>2, <2>2, <2>3
<1>3. ASSUME NEW length \in Nat,
             nextExpected \in Sequences,
             seq \in Sequences,
             nextExpected .. nextExpected + length - 1 \subseteq Sequences,
             reordered' = (reordered \cup {seq}) \ (nextExpected .. nextExpected + length - 1),
             delivered' = delivered \o [i \in 1 .. length |-> nextExpected + i - 1]
      PROVE  Taken \cup {seq} \subseteq Taken'
  <2>1. /\ Len(delivered') = nextExpected + length - 1
        /\ \A i \in 1 .. Len(delivered') : delivered'[i] = i
    BY <1>3, AppendRun
  <2>2. Len(delivered) = nextExpected - 1
    BY <1>3, SequencerAssumption DEF SequencerInv, CountsDelivered, Sequences
  <2>3. 1 .. nextExpected + length - 1 \subseteq Taken'
    BY <2>1 DEF Taken
  <2>4. Handed \subseteq 1 .. nextExpected + length - 1
    BY <1>3, <2>2, SequencerAssumption DEF SequencerInv, DeliveredInOrder, Sequences
  <2>5. reordered \cup {seq} \subseteq reordered' \cup (1 .. nextExpected + length - 1)
    BY <1>3, SequencerAssumption DEF Sequences
  <2>6. reordered' \subseteq Taken'
    BY DEF Taken
  <2>7. Taken = reordered \cup Handed
    BY DEF Taken
  <2> HIDE DEF Handed
  <2> QED BY <2>3, <2>4, <2>5, <2>6, <2>7
<1> QED BY <1>2, <1>3, SequenceStep

LEMMA StepPreservesAck ==
  SequencerInv /\ AckInv /\ [Next]_vars => AckInv'
PROOF
<1> SUFFICES ASSUME SequencerInv, AckInv, [Next]_vars PROVE AckInv'
  OBVIOUS
<1> USE DEF AckInv, RememberedIsAcknowledged, AcknowledgedIsKept
<1>1. ASSUME UNCHANGED <<acks, received, sequencerVars, connected>> PROVE AckInv'
  <2>1. Taken' = Taken
    BY <1>1 DEF Taken, sequencerVars
  <2> QED BY <1>1, <2>1
<1>2. CASE SendCommand
  BY <1>1, <1>2 DEF SendCommand, uplinkVars, Up!Send
<1>3. ASSUME NEW expired \in (SUBSET DOMAIN attempts) \ {{}}, PollMaintenance(expired)
      PROVE  AckInv'
  BY <1>1, <1>3 DEF PollMaintenance, Up!Poll
<1>4. ASSUME NEW expired \in (SUBSET DOMAIN attempts) \ {{}}, NEW sent \in SUBSET expired,
             PollFails(expired, sent)
      PROVE  AckInv'
  BY <1>1, <1>4 DEF PollFails, Up!PollFailing
<1>5. ASSUME NEW seq \in Commands, ServerReceives(seq)
      PROVE  AckInv'
  <2>1. connected /\ UNCHANGED connected
    BY <1>5 DEF ServerReceives
  <2>2. CASE Up!Discard(seq) /\ UNCHANGED sequencerVars
    BY <1>1, <2>1, <2>2 DEF Up!Discard
  <2>3. ASSUME Up!Accept(seq), Up!IsDuplicate(seq), UNCHANGED sequencerVars
        PROVE  AckInv'
    <3>1. seq \in acks
      BY <2>3 DEF Up!IsDuplicate
    <3>2. acks' = acks /\ received' = received
      BY <2>3, <3>1 DEF Up!Accept
    <3> QED BY <1>1, <2>1, <2>3, <3>2
  <2>4. ASSUME Up!Accept(seq), ~Up!IsDuplicate(seq), Sequence(seq)
        PROVE  AckInv'
    <3>1. acks' = acks \cup {seq} /\ received' = Up!Remember(seq)
      BY <2>4 DEF Up!Accept
    <3>2. Append(received, seq) \in Seq(acks')
      BY <3>1
    <3>3. Up!Remember(seq) \in Seq(acks')
      BY <3>2 DEF Up!Remember
    <3>4. Taken \cup {seq} \subseteq Taken'
      BY <2>1, <2>4, SequenceKeeps
    <3> QED BY <2>1, <3>1, <3>3, <3>4
  <2> QED BY <1>5, <2>2, <2>3, <2>4 DEF ServerReceives
<1>6. ASSUME NEW seq \in Commands, ClientAcknowledged(seq)
      PROVE  AckInv'
  BY <1>1, <1>6 DEF ClientAcknowledged, Up!AcceptAck
<1>7. CASE DisconnectClient
  BY <1>7 DEF DisconnectClient, uplinkVars
<1>8. CASE UNCHANGED vars
  BY <1>1, <1>8 DEF vars, uplinkVars
<1> QED BY <1>2, <1>3, <1>4, <1>5, <1>6, <1>7, <1>8 DEF Next

\* An acknowledged command is in the reorder buffer or handed on, as long as
\* the client is connected: the client may stop retrying it.
THEOREM AcknowledgedKept == Spec => []AcknowledgedIsKept
PROOF
<1>1. Init => AckInv
  BY DEF Init, Up!ChannelInit, AckInv, RememberedIsAcknowledged, AcknowledgedIsKept
<1>2. AckInv => AcknowledgedIsKept
  BY DEF AckInv
<1> QED BY <1>1, <1>2, InitIsInOrder, StepPreservesOrder, StepPreservesAck, PTL DEF Spec
-----------------------------------------------------------------------------
(* The types of a channel's variables, for either direction.               *)

\* What ChannelTypeOK says, with the receive history a part of what was
\* acknowledged, element by element.
ChannelTypes(tracked, inFlight, acknowledged, history, lost, messages) ==
  /\ DOMAIN tracked \subseteq messages
  /\ Cardinality(DOMAIN tracked) <= MaxInFlight
  /\ \A m \in DOMAIN tracked : tracked[m] \in 1 .. MaxAttempts
  /\ Up!IsABag(inFlight)
  /\ DOMAIN inFlight \subseteq messages
  /\ acknowledged \subseteq messages
  /\ history \in Seq(acknowledged)
  /\ Len(history) <= MaxTrackedReceived
  /\ lost \subseteq messages

LEMMA SameCardinality ==
  \A S : Up!Cardinality(S) = Cardinality(S) /\ Down!Cardinality(S) = Cardinality(S)
  BY Zenon DEF Up!Cardinality, Down!Cardinality, Cardinality

LEMMA SendTypes ==
  ASSUME NEW a, NEW d, NEW k, NEW r, NEW x, NEW M,
         ChannelTypes(a, d, k, r, x, M), IsFiniteSet(M),
         NEW m \in M, m \notin DOMAIN a, Cardinality(DOMAIN a) < MaxInFlight
  PROVE  ChannelTypes([n \in DOMAIN a \cup {m} |-> IF n = m THEN 1 ELSE a[n]],
                      Up!BagAdd(d, m), k, r, x, M)
<1> DEFINE a2 == [n \in DOMAIN a \cup {m} |-> IF n = m THEN 1 ELSE a[n]]
           d2 == Up!BagAdd(d, m)
<1>1. IsFiniteSet(DOMAIN a)
  BY FS_Subset DEF ChannelTypes
<1>2. Cardinality(DOMAIN a2) = Cardinality(DOMAIN a) + 1 /\ Cardinality(DOMAIN a) \in Nat
  BY <1>1, FS_AddElement, FS_CardinalityType
<1>3. Up!IsABag(d2) /\ DOMAIN d2 = DOMAIN d \cup {m}
  BY DEF ChannelTypes, Up!IsABag, Up!BagAdd
<1>4. \A n \in DOMAIN a2 : a2[n] \in 1 .. MaxAttempts
  BY ReliabilityAssumption DEF ChannelTypes
<1>5. DOMAIN a2 \subseteq M
  BY DEF ChannelTypes
<1> HIDE DEF a2, d2
<1>6. ChannelTypes(a2, d2, k, r, x, M)
  BY <1>2, <1>3, <1>4, <1>5, ReliabilityAssumption DEF ChannelTypes
<1>7. QED
  BY <1>6 DEF a2, d2

LEMMA PollTypes ==
  ASSUME NEW a, NEW d, NEW k, NEW r, NEW x, NEW M,
         ChannelTypes(a, d, k, r, x, M), IsFiniteSet(M),
         NEW e \in SUBSET DOMAIN a,
         NEW spent, spent = {n \in e : a[n] >= MaxAttempts},
         NEW sent \in SUBSET e, NEW a2, NEW d2, NEW x2,
         a2 = [n \in DOMAIN a \ spent |-> IF n \in e THEN a[n] + 1 ELSE a[n]],
         d2 = Up!(+)(d, Up!SetToBag(sent)),
         x2 \subseteq x \cup e
  PROVE  ChannelTypes(a2, d2, k, r, x2, M)
<1>1. IsFiniteSet(DOMAIN a) /\ Cardinality(DOMAIN a) \in Nat
  BY FS_Subset, FS_CardinalityType DEF ChannelTypes
<1>2. Cardinality(DOMAIN a2) <= Cardinality(DOMAIN a) /\ Cardinality(DOMAIN a2) \in Nat
  BY <1>1, FS_Subset, FS_CardinalityType, DOMAIN a2 \subseteq DOMAIN a
<1>3. Up!IsABag(d2) /\ DOMAIN d2 = DOMAIN d \cup sent
  BY DEF ChannelTypes, Up!IsABag, Up!(+), Up!SetToBag
<1>4. \A n \in DOMAIN a2 : a2[n] \in 1 .. MaxAttempts
  BY ReliabilityAssumption DEF ChannelTypes
<1>5. DOMAIN a \subseteq M /\ DOMAIN a2 \subseteq M /\ e \subseteq M
  BY DEF ChannelTypes
<1>6. QED
  BY ONLY <1>1, <1>2, <1>3, <1>4, <1>5, ReliabilityAssumption, x2 \subseteq x \cup e,
     ChannelTypes(a, d, k, r, x, M) DEF ChannelTypes

LEMMA AckTypes ==
  ASSUME NEW a, NEW d, NEW k, NEW r, NEW x, NEW M,
         ChannelTypes(a, d, k, r, x, M), IsFiniteSet(M), NEW m
  PROVE  ChannelTypes(Up!Restrict(a, DOMAIN a \ {m}), d, k, r, x, M)
<1> DEFINE a2 == Up!Restrict(a, DOMAIN a \ {m})
<1>1. IsFiniteSet(DOMAIN a) /\ Cardinality(DOMAIN a) \in Nat
  BY FS_Subset, FS_CardinalityType DEF ChannelTypes
<1>2. DOMAIN a2 \subseteq DOMAIN a /\ \A n \in DOMAIN a2 : a2[n] = a[n]
  BY DEF Up!Restrict
<1>3. Cardinality(DOMAIN a2) <= Cardinality(DOMAIN a) /\ Cardinality(DOMAIN a2) \in Nat
  BY <1>1, <1>2, FS_Subset, FS_CardinalityType
<1> HIDE DEF a2
<1>4. ChannelTypes(a2, d, k, r, x, M)
  BY <1>1, <1>2, <1>3, ReliabilityAssumption DEF ChannelTypes
<1>5. QED
  BY <1>4 DEF a2

LEMMA RemoveTypes ==
  ASSUME NEW a, NEW d, NEW k, NEW r, NEW x, NEW M,
         ChannelTypes(a, d, k, r, x, M), NEW m, Up!BagIn(m, d)
  PROVE  ChannelTypes(a, Up!BagRemove(d, m), k, r, x, M) /\ m \in M
<1> DEFINE d2 == Up!BagRemove(d, m)
<1>1. m \in DOMAIN d
  BY DEF Up!BagIn, Up!BagToSet
<1>2. Up!IsABag(d2) /\ DOMAIN d2 \subseteq DOMAIN d
  BY <1>1 DEF ChannelTypes, Up!IsABag, Up!BagRemove
<1> HIDE DEF d2
<1>3. ChannelTypes(a, d2, k, r, x, M) /\ m \in M
  BY <1>1, <1>2 DEF ChannelTypes
<1>4. QED
  BY <1>3 DEF d2

LEMMA AcceptTypes ==
  ASSUME NEW a, NEW d, NEW k, NEW r, NEW x, NEW M,
         ChannelTypes(a, d, k, r, x, M), NEW m \in M
  PROVE  /\ ChannelTypes(a, d, k \cup {m}, r, x, M)
         /\ LET longer == Append(r, m)
            IN  ChannelTypes(a, d, k \cup {m},
                             IF Len(longer) > MaxTrackedReceived THEN Tail(longer) ELSE longer,
                             x, M)
<1> DEFINE k2 == k \cup {m}
           longer == Append(r, m)
           r2 == IF Len(longer) > MaxTrackedReceived THEN Tail(longer) ELSE longer
<1>1. r \in Seq(k2) /\ k2 \subseteq M /\ Len(r) \in Nat /\ Len(r) <= MaxTrackedReceived
  BY DEF ChannelTypes
<1>2. longer \in Seq(k2) /\ Len(longer) = Len(r) + 1
  BY <1>1
<1>3. r2 \in Seq(k2) /\ Len(r2) <= MaxTrackedReceived
  <2> HIDE DEF longer
  <2>1. CASE Len(longer) > MaxTrackedReceived
    <3>1. longer # <<>>
      BY <1>1, <1>2, <2>1
    <3>2. Tail(longer) \in Seq(k2) /\ Len(Tail(longer)) = Len(longer) - 1
      BY <1>2, <3>1
    <3>3. QED
      BY <1>1, <1>2, <2>1, <3>2, ReliabilityAssumption
  <2>2. CASE ~(Len(longer) > MaxTrackedReceived)
    BY <1>1, <1>2, <2>2, ReliabilityAssumption
  <2>3. QED
    BY <2>1, <2>2
<1> HIDE DEF r2, k2
<1>4. ChannelTypes(a, d, k2, r, x, M) /\ ChannelTypes(a, d, k2, r2, x, M)
  BY <1>1, <1>3 DEF ChannelTypes
<1>5. QED
  BY <1>4 DEF k2, r2, longer

LEMMA UplinkChannelTypes ==
  ASSUME NEW M, IsFiniteSet(M), ChannelTypes(attempts, datagrams, acks, received, dropped, M),
         NEW m \in M,
         \/ Up!Send(m)
         \/ \E e \in SUBSET DOMAIN attempts :
              Up!Poll(e) \/ \E sent \in SUBSET e : Up!PollFailing(e, sent)
         \/ Up!AcceptAck(m) \/ Up!Accept(m) \/ Up!Discard(m)
  PROVE  ChannelTypes(attempts', datagrams', acks', received', dropped', M)
<1>0. \A e : Up!Spent(e) = {n \in e : attempts[n] >= MaxAttempts}
  BY DEF Up!Spent
<1>1. CASE Up!Send(m)
  <2>2. m \notin DOMAIN attempts /\ Cardinality(DOMAIN attempts) < MaxInFlight
    <3>1. Up!Cardinality(DOMAIN attempts) = Cardinality(DOMAIN attempts)
      BY SameCardinality
    <3>2. QED
      BY <1>1, <3>1 DEF Up!Send, Up!CanTrack
  <2>3. ChannelTypes([n \in DOMAIN attempts \cup {m} |-> IF n = m THEN 1 ELSE attempts[n]],
                     Up!BagAdd(datagrams, m), acks, received, dropped, M)
    BY ONLY <2>2, SendTypes, IsFiniteSet(M), m \in M,
       ChannelTypes(attempts, datagrams, acks, received, dropped, M)
  <2>4. QED
    BY <1>1, <2>3 DEF Up!Send
<1>2. ASSUME NEW e \in SUBSET DOMAIN attempts, Up!Poll(e)
      PROVE  ChannelTypes(attempts', datagrams', acks', received', dropped', M)
  <2> DEFINE spent == Up!Spent(e)
             sent == e \ spent
  <2>1. spent = {n \in e : attempts[n] >= MaxAttempts} /\ sent \in SUBSET e
    BY <1>0
  <2>2. /\ attempts' = [n \in DOMAIN attempts \ spent |-> IF n \in e THEN attempts[n] + 1 ELSE attempts[n]]
        /\ datagrams' = Up!(+)(datagrams, Up!SetToBag(sent))
        /\ dropped' \subseteq dropped \cup e /\ UNCHANGED <<acks, received>>
    BY <1>2, <2>1 DEF Up!Poll, Up!CountPoll
  <2> HIDE DEF spent, sent
  <2>3. ChannelTypes(attempts', datagrams', acks, received, dropped', M)
    BY ONLY <2>1, <2>2, PollTypes, IsFiniteSet(M), e \in SUBSET DOMAIN attempts,
       ChannelTypes(attempts, datagrams, acks, received, dropped, M)
  <2>4. QED
    BY <2>2, <2>3
<1>3. ASSUME NEW e \in SUBSET DOMAIN attempts, NEW sent \in SUBSET e, Up!PollFailing(e, sent)
      PROVE  ChannelTypes(attempts', datagrams', acks', received', dropped', M)
  <2> DEFINE spent == Up!Spent(e)
  <2>1. spent = {n \in e : attempts[n] >= MaxAttempts} /\ sent \in SUBSET e
    BY <1>0
  <2>2. /\ attempts' = [n \in DOMAIN attempts \ spent |-> IF n \in e THEN attempts[n] + 1 ELSE attempts[n]]
        /\ datagrams' = Up!(+)(datagrams, Up!SetToBag(sent))
        /\ dropped' \subseteq dropped \cup e /\ UNCHANGED <<acks, received>>
    BY <1>3, <2>1 DEF Up!PollFailing, Up!CountPoll
  <2> HIDE DEF spent
  <2>3. ChannelTypes(attempts', datagrams', acks, received, dropped', M)
    BY ONLY <2>1, <2>2, PollTypes, IsFiniteSet(M), e \in SUBSET DOMAIN attempts,
       ChannelTypes(attempts, datagrams, acks, received, dropped, M)
  <2>4. QED
    BY <2>2, <2>3
<1>4. CASE Up!AcceptAck(m)
  BY <1>4, AckTypes DEF Up!AcceptAck, Up!Restrict
<1>5. ASSUME Up!BagIn(m, datagrams)
      PROVE  ChannelTypes(attempts, Up!BagRemove(datagrams, m), acks, received, dropped, M)
  BY <1>5, RemoveTypes DEF Up!BagIn, Up!BagToSet, Up!BagRemove
<1>6. CASE Up!Accept(m)
  <2> DEFINE d2 == Up!BagRemove(datagrams, m)
  <2>1. ChannelTypes(attempts, d2, acks, received, dropped, M)
    BY <1>5, <1>6 DEF Up!Accept
  <2> HIDE DEF d2
  <2>2. /\ ChannelTypes(attempts, d2, acks \cup {m}, received, dropped, M)
        /\ ChannelTypes(attempts, d2, acks \cup {m}, Up!Remember(m), dropped, M)
    BY <2>1, AcceptTypes DEF Up!Remember
  <2>3. datagrams' = d2
    BY <1>6 DEF Up!Accept, d2
  <2>4. QED
    BY <1>6, <2>2, <2>3 DEF Up!Accept
<1>7. CASE Up!Discard(m)
  BY <1>5, <1>7 DEF Up!Discard
<1>8. QED
  BY <1>1, <1>2, <1>3, <1>4, <1>6, <1>7

LEMMA DownlinkChannelTypes ==
  ASSUME NEW M, IsFiniteSet(M), ChannelTypes(downAttempts, downDatagrams, downAcks, downReceived, downDropped, M),
         NEW m \in M,
         \/ Down!Send(m)
         \/ \E e \in SUBSET DOMAIN downAttempts :
              Down!Poll(e) \/ \E sent \in SUBSET e : Down!PollFailing(e, sent)
         \/ Down!AcceptAck(m) \/ Down!Accept(m) \/ Down!Discard(m)
  PROVE  ChannelTypes(downAttempts', downDatagrams', downAcks', downReceived', downDropped', M)
<1>0. \A e : Down!Spent(e) = {n \in e : downAttempts[n] >= MaxAttempts}
  BY DEF Down!Spent
<1>1. CASE Down!Send(m)
  <2>1. Down!BagAdd(downDatagrams, m) = Up!BagAdd(downDatagrams, m)
    BY DEF Down!BagAdd, Up!BagAdd
  <2>2. m \notin DOMAIN downAttempts /\ Cardinality(DOMAIN downAttempts) < MaxInFlight
    <3>1. Down!Cardinality(DOMAIN downAttempts) = Cardinality(DOMAIN downAttempts)
      BY SameCardinality
    <3>2. QED
      BY <1>1, <3>1 DEF Down!Send, Down!CanTrack
  <2>3. ChannelTypes([n \in DOMAIN downAttempts \cup {m} |-> IF n = m THEN 1 ELSE downAttempts[n]],
                     Up!BagAdd(downDatagrams, m), downAcks, downReceived, downDropped, M)
    BY ONLY <2>2, SendTypes, IsFiniteSet(M), m \in M,
       ChannelTypes(downAttempts, downDatagrams, downAcks, downReceived, downDropped, M)
  <2>4. QED
    BY <1>1, <2>1, <2>3 DEF Down!Send
<1>2. ASSUME NEW e \in SUBSET DOMAIN downAttempts, Down!Poll(e)
      PROVE  ChannelTypes(downAttempts', downDatagrams', downAcks', downReceived', downDropped', M)
  <2> DEFINE spent == Down!Spent(e)
             sent == e \ spent
  <2>0. Down!(+)(downDatagrams, Down!SetToBag(sent)) = Up!(+)(downDatagrams, Up!SetToBag(sent))
    BY DEF Down!(+), Up!(+), Down!SetToBag, Up!SetToBag
  <2>1. spent = {n \in e : downAttempts[n] >= MaxAttempts} /\ sent \in SUBSET e
    BY <1>0
  <2>2. /\ downAttempts' = [n \in DOMAIN downAttempts \ spent |-> IF n \in e THEN downAttempts[n] + 1 ELSE downAttempts[n]]
        /\ downDatagrams' = Up!(+)(downDatagrams, Up!SetToBag(sent))
        /\ downDropped' \subseteq downDropped \cup e /\ UNCHANGED <<downAcks, downReceived>>
    BY <1>2, <2>0, <2>1 DEF Down!Poll, Down!CountPoll
  <2> HIDE DEF spent, sent
  <2>3. ChannelTypes(downAttempts', downDatagrams', downAcks, downReceived, downDropped', M)
    BY ONLY <2>1, <2>2, PollTypes, IsFiniteSet(M), e \in SUBSET DOMAIN downAttempts,
       ChannelTypes(downAttempts, downDatagrams, downAcks, downReceived, downDropped, M)
  <2>4. QED
    BY <2>2, <2>3
<1>3. ASSUME NEW e \in SUBSET DOMAIN downAttempts, NEW sent \in SUBSET e, Down!PollFailing(e, sent)
      PROVE  ChannelTypes(downAttempts', downDatagrams', downAcks', downReceived', downDropped', M)
  <2> DEFINE spent == Down!Spent(e)
  <2>0. Down!(+)(downDatagrams, Down!SetToBag(sent)) = Up!(+)(downDatagrams, Up!SetToBag(sent))
    BY DEF Down!(+), Up!(+), Down!SetToBag, Up!SetToBag
  <2>1. spent = {n \in e : downAttempts[n] >= MaxAttempts} /\ sent \in SUBSET e
    BY <1>0
  <2>2. /\ downAttempts' = [n \in DOMAIN downAttempts \ spent |-> IF n \in e THEN downAttempts[n] + 1 ELSE downAttempts[n]]
        /\ downDatagrams' = Up!(+)(downDatagrams, Up!SetToBag(sent))
        /\ downDropped' \subseteq downDropped \cup e /\ UNCHANGED <<downAcks, downReceived>>
    BY <1>3, <2>0, <2>1 DEF Down!PollFailing, Down!CountPoll
  <2> HIDE DEF spent
  <2>3. ChannelTypes(downAttempts', downDatagrams', downAcks, downReceived, downDropped', M)
    BY ONLY <2>1, <2>2, PollTypes, IsFiniteSet(M), e \in SUBSET DOMAIN downAttempts,
       ChannelTypes(downAttempts, downDatagrams, downAcks, downReceived, downDropped, M)
  <2>4. QED
    BY <2>2, <2>3
<1>4. CASE Down!AcceptAck(m)
  BY <1>4, AckTypes DEF Down!AcceptAck, Down!Restrict, Up!Restrict
<1>5. ASSUME Down!BagIn(m, downDatagrams)
      PROVE  ChannelTypes(downAttempts, Down!BagRemove(downDatagrams, m), downAcks, downReceived, downDropped, M)
  BY <1>5, RemoveTypes DEF Down!BagIn, Down!BagToSet, Down!BagRemove, Up!BagIn, Up!BagToSet, Up!BagRemove
<1>6. CASE Down!Accept(m)
  <2> DEFINE d2 == Down!BagRemove(downDatagrams, m)
  <2>1. ChannelTypes(downAttempts, d2, downAcks, downReceived, downDropped, M)
    BY <1>5, <1>6 DEF Down!Accept
  <2> HIDE DEF d2
  <2>2. /\ ChannelTypes(downAttempts, d2, downAcks \cup {m}, downReceived, downDropped, M)
        /\ ChannelTypes(downAttempts, d2, downAcks \cup {m}, Down!Remember(m), downDropped, M)
    BY <2>1, AcceptTypes DEF Down!Remember
  <2>3. downDatagrams' = d2
    BY <1>6 DEF Down!Accept, d2
  <2>4. QED
    BY <1>6, <2>2, <2>3 DEF Down!Accept
<1>7. CASE Down!Discard(m)
  BY <1>5, <1>7 DEF Down!Discard
<1>8. QED
  BY <1>1, <1>2, <1>3, <1>4, <1>6, <1>7

-----------------------------------------------------------------------------
(* The types of the uplink.                                                *)

UplinkTypes ==
  /\ ChannelTypes(attempts, datagrams, acks, received, dropped, Commands)
  /\ connected \in BOOLEAN
  /\ nextCommand \in 1 .. LastCommand + 1
  /\ lastSent \in 0 .. LastCommand
  /\ refused \subseteq Commands
  /\ halted \in BOOLEAN

LEMMA CommandsAreFinite == IsFiniteSet(Commands) /\ LastCommand \in Nat
  BY FS_Interval, UplinkAssumption, SequencerAssumption DEF Commands

LEMMA InitialChannel ==
  ASSUME NEW M
  PROVE  ChannelTypes(<<>>, Up!EmptyBag, {}, <<>>, {}, M)
<1>1. DOMAIN <<>> = {} /\ Cardinality({}) = 0
  BY FS_EmptySet
<1>2. Up!IsABag(Up!EmptyBag) /\ DOMAIN Up!EmptyBag = {}
  BY DEF Up!IsABag, Up!EmptyBag, Up!SetToBag
<1>3. <<>> \in Seq({}) /\ Len(<<>>) = 0
  OBVIOUS
<1>4. QED
  BY ONLY <1>1, <1>2, <1>3, ReliabilityAssumption DEF ChannelTypes

LEMMA UplinkStepTypes ==
  UplinkTypes /\ [Next]_vars => UplinkTypes'
<1> SUFFICES ASSUME UplinkTypes, [Next]_vars PROVE UplinkTypes'
  OBVIOUS
<1> DEFINE Channel == ChannelTypes(attempts, datagrams, acks, received, dropped, Commands)
<1>1. Channel /\ IsFiniteSet(Commands) /\ LastCommand \in Nat
  BY CommandsAreFinite DEF UplinkTypes
<1>2. UNCHANGED uplinkVars => Channel'
  BY <1>1 DEF uplinkVars
<1> HIDE DEF Channel
<1>3. CASE SendCommand
  <2>1. nextCommand \in Commands
    BY <1>1, <1>3 DEF SendCommand, UplinkTypes, Commands
  <2>2. Up!Send(nextCommand) \/ UNCHANGED uplinkVars
    BY <1>3 DEF SendCommand
  <2>3. Channel'
    BY <1>1, <1>2, <2>1, <2>2, UplinkChannelTypes DEF Channel
  <2>4. nextCommand' = nextCommand + 1 /\ lastSent' \in {lastSent, nextCommand}
    BY <1>3 DEF SendCommand, uplinkVars
  <2>5. /\ refused' \subseteq refused \cup {nextCommand}
        /\ connected' = connected /\ halted' = halted
    BY <1>3 DEF SendCommand, uplinkVars
  <2>6. QED
    BY <1>1, <2>1, <2>3, <2>4, <2>5 DEF UplinkTypes, Commands, Channel
<1>4. ASSUME Channel', UNCHANGED <<connected, nextCommand, lastSent, refused>>,
             halted' \in BOOLEAN
      PROVE  UplinkTypes'
  BY <1>4 DEF UplinkTypes, Commands, Channel
<1>5. ASSUME NEW expired \in (SUBSET DOMAIN attempts) \ {{}},
             \/ PollMaintenance(expired)
             \/ \E sent \in SUBSET expired : PollFails(expired, sent)
      PROVE  UplinkTypes'
  <2>1. Up!Poll(expired) \/ \E sent \in SUBSET expired : Up!PollFailing(expired, sent)
    BY <1>5 DEF PollMaintenance, PollFails
  <2>2. PICK m \in expired : TRUE
    OBVIOUS
  <2>3. m \in Commands
    BY <1>1, <2>2 DEF Channel, ChannelTypes
  <2>4. Channel'
    BY <1>1, <2>1, <2>3, UplinkChannelTypes DEF Channel
  <2>5. UNCHANGED <<connected, nextCommand, lastSent, refused>> /\ halted' \in BOOLEAN
    BY <1>5 DEF PollMaintenance, PollFails, UplinkTypes
  <2>6. QED
    BY <1>4, <2>4, <2>5
<1>6. ASSUME NEW seq \in Commands, ServerReceives(seq) \/ ClientAcknowledged(seq)
      PROVE  UplinkTypes'
  <2>1. Up!AcceptAck(seq) \/ Up!Accept(seq) \/ Up!Discard(seq)
    BY <1>6 DEF ServerReceives, ClientAcknowledged
  <2>2. Channel'
    BY <1>1, <2>1, UplinkChannelTypes DEF Channel
  <2>3. UNCHANGED <<connected, nextCommand, lastSent, refused, halted>>
    BY <1>6 DEF ServerReceives, ClientAcknowledged
  <2>4. QED
    BY <1>4, <2>2, <2>3 DEF UplinkTypes
<1>7. CASE DisconnectClient
  BY <1>2, <1>7 DEF DisconnectClient, UplinkTypes, Commands, Channel
<1>8. CASE UNCHANGED vars
  BY <1>2, <1>4, <1>8 DEF vars, UplinkTypes
<1>9. QED
  BY <1>3, <1>5, <1>6, <1>7, <1>8 DEF Next
-----------------------------------------------------------------------------
(* The downlink.                                                           *)

\* What the server may have sent so far.
Produced ==
  {Welcome, DisconnectNotice}
    \cup {WorldEvents(n) : n \in 1 .. commits}
    \cup {Delta(n) : n \in 1 .. commits}

DownlinkTypes ==
  /\ ClientTypeOK
  /\ link \in {"new", "up", "down"}
  /\ commits \in 0 .. MaxOutput
  /\ materialized \subseteq 1 .. commits
  /\ taken \subseteq 1 .. commits
  /\ ChannelTypes(downAttempts, downDatagrams, downAcks, downReceived, downDropped, Produced)
  /\ pendingOutbound \in Seq(Produced)
  /\ arrived \in Seq(Produced)
  /\ drained \in Seq(Produced)

\* The receive loop is the client's, and what its session has queued is taken.
LoopAgrees ==
  /\ receiver \in {NoClient, Client}
  /\ receiver = NoClient => drained = <<>>
  /\ replicationBatches[Client] \subseteq taken

DownlinkInv ==
  /\ DownlinkTypes
  /\ LoopAgrees
  /\ AcknowledgedEventsAreTaken

LEMMA ClientIsClient == Client \in Clients /\ Client # NoClient /\ MaxOutput \in Nat
  BY DownlinkAssumption, MaxClientIdAssumption DEF Client, Clients, FirstClientId, NoClient

LEMMA ProducedIsFinite ==
  ASSUME commits \in Nat
  PROVE  IsFiniteSet(Produced)
<1> DEFINE events == {WorldEvents(n) : n \in 1 .. commits}
           deltas == {Delta(n) : n \in 1 .. commits}
           f == [n \in 1 .. commits |-> WorldEvents(n)]
           g == [n \in 1 .. commits |-> Delta(n)]
<1>1. IsFiniteSet(1 .. commits)
  BY FS_Interval
<1>2. f \in Surjection(1 .. commits, events) /\ g \in Surjection(1 .. commits, deltas)
  BY DEF Surjection
<1> HIDE DEF f, g, events, deltas
<1>3. IsFiniteSet(events) /\ IsFiniteSet(deltas)
  BY <1>1, <1>2, FS_Surjection
<1>4. IsFiniteSet({Welcome} \cup {DisconnectNotice})
  BY FS_Singleton, FS_Union
<1>5. Produced = (({Welcome} \cup {DisconnectNotice}) \cup events) \cup deltas
  BY DEF Produced, events, deltas
<1>6. QED
  BY <1>3, <1>4, <1>5, FS_Union

LEMMA ProducedAreMessages ==
  ASSUME commits \in Nat
  PROVE  /\ Produced \subseteq Message
         /\ \A m \in Produced : m.kind = "world_events" => m.sequence \in 1 .. commits
         /\ \A m \in Produced : m.kind = "world_events" => m = WorldEvents(m.sequence)
  BY DEF Produced, Message, MessageKinds, ControlKinds, Welcome, DisconnectNotice,
         WorldEvents, Delta

LEMMA ChannelTypesGrow ==
  ASSUME NEW a, NEW d, NEW k, NEW r, NEW x, NEW M, NEW N,
         ChannelTypes(a, d, k, r, x, M), M \subseteq N
  PROVE  ChannelTypes(a, d, k, r, x, N)
  BY DEF ChannelTypes

\* Steps of the server which commit nothing.
LEMMA ServerStepKeeps ==
  ASSUME DownlinkInv,
         UNCHANGED <<clientVars, arrived, taken, downAcks, commits, materialized>>,
         ChannelTypes(downAttempts', downDatagrams', downAcks', downReceived', downDropped',
                      Produced),
         link' \in {"new", "up", "down"}, pendingOutbound' \in Seq(Produced)
  PROVE  DownlinkInv'
<1>1. Produced' = Produced
  BY DEF Produced
<1>2. DownlinkTypes'
  BY <1>1 DEF DownlinkInv, DownlinkTypes, ClientTypeOK, clientVars
<1>3. LoopAgrees'
  BY DEF DownlinkInv, LoopAgrees, clientVars
<1>4. AcknowledgedEventsAreTaken'
  BY DEF DownlinkInv, AcknowledgedEventsAreTaken, Waiting, clientVars
<1>5. QED
  BY <1>2, <1>3, <1>4 DEF DownlinkInv

LEMMA ServerStepsKeep ==
  ASSUME DownlinkInv,
         \/ ConnectClient \/ NotifyDisconnect \/ FlushSend
         \/ \E m \in DOMAIN downAttempts : PollDownlink({m})
         \/ \E m \in Messages : ServerAcknowledged(m)
  PROVE  DownlinkInv'
<1> DEFINE Channel == ChannelTypes(downAttempts, downDatagrams, downAcks, downReceived,
                                   downDropped, Produced)
           Channel2 == ChannelTypes(downAttempts', downDatagrams', downAcks', downReceived',
                                    downDropped', Produced)
<1>1. /\ Channel /\ commits \in Nat /\ pendingOutbound \in Seq(Produced)
      /\ link \in {"new", "up", "down"}
  BY ClientIsClient DEF DownlinkInv, DownlinkTypes
<1>2. IsFiniteSet(Produced)
  BY <1>1, ProducedIsFinite
<1>3. UNCHANGED channelVars => Channel2
  BY <1>1 DEF channelVars
<1>4. ASSUME NEW m \in Produced, Down!Send(m) PROVE Channel2 /\ downAcks' = downAcks
  BY <1>1, <1>2, <1>4, DownlinkChannelTypes DEF Down!Send
<1>5. ASSUME NEW e \in SUBSET DOMAIN downAttempts, e # {}, Down!Poll(e)
      PROVE  Channel2 /\ downAcks' = downAcks
  <2>1. PICK m \in e : TRUE
    BY <1>5
  <2>2. m \in Produced
    BY <1>1, <2>1 DEF ChannelTypes
  <2>3. QED
    BY <1>1, <1>2, <1>5, <2>2, DownlinkChannelTypes DEF Down!Poll
<1>6. ASSUME NEW m \in Produced, Down!AcceptAck(m) PROVE Channel2 /\ downAcks' = downAcks
  BY <1>1, <1>2, <1>6, DownlinkChannelTypes DEF Down!AcceptAck
<1>7. Welcome \in Produced /\ DisconnectNotice \in Produced
  BY DEF Produced
<1>8. CASE ConnectClient
  <2>1. Channel2 /\ downAcks' = downAcks
    BY <1>4, <1>7, <1>8 DEF ConnectClient
  <2>2. QED
    BY <1>1, <1>8, <2>1, ServerStepKeeps DEF ConnectClient
<1>9. CASE NotifyDisconnect
  <2>1. Channel2 /\ downAcks' = downAcks
    BY <1>3, <1>4, <1>7, <1>9 DEF NotifyDisconnect, channelVars
  <2>2. <<>> \in Seq(Produced)
    OBVIOUS
  <2>3. QED
    BY <1>9, <2>1, <2>2, ServerStepKeeps DEF NotifyDisconnect
<1>10. CASE FlushSend
  <2>1. Head(pendingOutbound) \in Produced /\ Tail(pendingOutbound) \in Seq(Produced)
    BY <1>1, <1>10 DEF FlushSend
  <2>2. Channel2 /\ downAcks' = downAcks
    BY <1>4, <1>10, <2>1 DEF FlushSend
  <2>3. QED
    BY <1>1, <1>10, <2>1, <2>2, ServerStepKeeps DEF FlushSend
<1>11. ASSUME NEW m \in DOMAIN downAttempts, PollDownlink({m}) PROVE DownlinkInv'
  <2>1. Channel2 /\ downAcks' = downAcks
    BY <1>5, <1>11 DEF PollDownlink
  <2>2. QED
    BY <1>1, <1>11, <2>1, ServerStepKeeps DEF PollDownlink, serverVars
<1>12. ASSUME NEW m \in Messages, ServerAcknowledged(m) PROVE DownlinkInv'
  <2>1. m \in Produced
    BY <1>1, <1>12 DEF ServerAcknowledged, Down!AcceptAck, ChannelTypes
  <2>2. Channel2 /\ downAcks' = downAcks
    BY <1>6, <1>12, <2>1 DEF ServerAcknowledged
  <2>3. QED
    BY <1>1, <1>12, <2>2, ServerStepKeeps DEF ServerAcknowledged, serverVars
<1>13. QED
  BY <1>8, <1>9, <1>10, <1>11, <1>12

LEMMA CommitKeeps ==
  ASSUME DownlinkInv, NEW withDelta \in BOOLEAN, Commit(withDelta)
  PROVE  DownlinkInv'
<1>1. commits \in Nat /\ commits' = commits + 1
  BY ClientIsClient DEF DownlinkInv, DownlinkTypes, Commit
<1>2. commits' <= MaxOutput
  <2>1. materialized \subseteq 1 .. commits
    BY DEF DownlinkInv, DownlinkTypes
  <2>2. Cardinality(materialized) \in Nat
    <3>1. IsFiniteSet(1 .. commits)
      BY <1>1, FS_Interval
    <3>2. QED
      BY <2>1, <3>1, FS_Subset, FS_CardinalityType
  <2>3. QED
    BY <1>1, <2>2, ClientIsClient DEF Commit
<1>3. Produced \subseteq Produced'
  BY <1>1 DEF Produced
<1>4. \A q \in Seq(Produced) : q \in Seq(Produced')
  BY <1>3
<1>5. WorldEvents(commits') \in Produced' /\ Delta(commits') \in Produced'
  BY <1>1 DEF Produced
<1>6. pendingOutbound' \in Seq(Produced')
  BY <1>5 DEF Commit
<1>7. ChannelTypes(downAttempts, downDatagrams, downAcks, downReceived, downDropped, Produced')
  BY <1>3, ChannelTypesGrow DEF DownlinkInv, DownlinkTypes
<1>8. DownlinkTypes'
  <2>1. /\ UNCHANGED <<clientVars, channelVars, link, arrived, taken>>
        /\ materialized' \subseteq materialized \cup {commits'}
    BY DEF Commit
  <2>2. /\ materialized' \subseteq 1 .. commits' /\ taken' \subseteq 1 .. commits'
        /\ commits' \in 0 .. MaxOutput
    BY <1>1, <1>2, <2>1, ClientIsClient DEF DownlinkInv, DownlinkTypes
  <2>3. arrived' \in Seq(Produced') /\ drained' \in Seq(Produced')
    BY <1>4, <2>1 DEF DownlinkInv, DownlinkTypes, clientVars
  <2>4. ClientTypeOK'
    BY <2>1 DEF DownlinkInv, DownlinkTypes, ClientTypeOK, clientVars
  <2>5. QED
    BY <1>6, <1>7, <2>1, <2>2, <2>3, <2>4 DEF DownlinkInv, DownlinkTypes, channelVars
<1>9. LoopAgrees'
  BY DEF DownlinkInv, LoopAgrees, Commit, clientVars
<1>10. AcknowledgedEventsAreTaken'
  BY DEF DownlinkInv, AcknowledgedEventsAreTaken, Waiting, Commit, clientVars, channelVars
<1>11. QED
  BY <1>8, <1>9, <1>10 DEF DownlinkInv

\* A message is acknowledged when it arrives: a new one joins the vector, one
\* still remembered has been acknowledged before.
LEMMA ClientReceivesKeeps ==
  ASSUME DownlinkInv, NEW m \in Messages, ClientReceives(m)
  PROVE  DownlinkInv'
<1>1. /\ Down!Accept(m) /\ UNCHANGED <<clientVars, serverVars, taken>>
      /\ arrived' = IF Down!IsDuplicate(m) THEN arrived ELSE Append(arrived, m)
  BY DEF ClientReceives
<1>2. Produced' = Produced /\ commits \in Nat
  BY <1>1, ClientIsClient DEF Produced, serverVars, DownlinkInv, DownlinkTypes
<1>3. /\ ChannelTypes(downAttempts, downDatagrams, downAcks, downReceived, downDropped, Produced)
      /\ arrived \in Seq(Produced)
  BY DEF DownlinkInv, DownlinkTypes
<1>4. m \in Produced
  BY <1>1, <1>3 DEF Down!Accept, Down!BagIn, Down!BagToSet, ChannelTypes
<1>5. ChannelTypes(downAttempts', downDatagrams', downAcks', downReceived', downDropped', Produced)
  BY <1>1, <1>2, <1>3, <1>4, ProducedIsFinite, DownlinkChannelTypes
<1>6. arrived' \in Seq(Produced)
  BY <1>1, <1>3, <1>4
<1>7. DownlinkTypes'
  BY <1>1, <1>2, <1>5, <1>6
     DEF DownlinkInv, DownlinkTypes, ClientTypeOK, clientVars, serverVars
<1>8. LoopAgrees'
  BY <1>1 DEF DownlinkInv, LoopAgrees, clientVars
<1>9. AcknowledgedEventsAreTaken'
  <2>1. Waiting \subseteq Waiting' /\ (~Down!IsDuplicate(m) => m \in Waiting')
    <3>1. drained' = drained
      BY <1>1 DEF clientVars
    <3>2. CASE Down!IsDuplicate(m)
      BY <1>1, <3>1, <3>2 DEF Waiting
    <3>3. CASE ~Down!IsDuplicate(m)
      <4>1. /\ DOMAIN arrived' = DOMAIN arrived \cup {Len(arrived) + 1}
            /\ \A i \in DOMAIN arrived : arrived'[i] = arrived[i]
            /\ arrived'[Len(arrived) + 1] = m
        BY <1>1, <1>3, <3>3
      <4>2. QED
        BY <3>1, <4>1 DEF Waiting
    <3>4. QED
      BY <3>2, <3>3
  <2>2. Down!IsDuplicate(m) => m \in downAcks
    BY <1>3 DEF Down!IsDuplicate, ChannelTypes
  <2>3. downAcks' = downAcks \cup {m} /\ taken' = taken /\ faulted' = faulted
    BY <1>1 DEF Down!Accept, clientVars
  <2>4. QED
    BY <2>1, <2>2, <2>3 DEF DownlinkInv, AcknowledgedEventsAreTaken
<1>10. QED
  BY <1>7, <1>8, <1>9 DEF DownlinkInv

LEMMA PumpClientKeeps ==
  ASSUME DownlinkInv, PumpClient
  PROVE  DownlinkInv'
<1>1. /\ receiver = NoClient /\ drained = <<>> /\ receiver' = Client
      /\ drained' = arrived /\ arrived' = <<>>
      /\ UNCHANGED <<channelVars, serverVars, taken, faulted, replicationBatches>>
      /\ UNCHANGED <<sessionState, nextCommandSequence, pendingCommands,
                     lastReplicationSequence, replicationMessages, discardedDeltas>>
  BY DEF DownlinkInv, LoopAgrees, PumpClient, BeginReceive
<1>2. Produced' = Produced /\ commits \in Nat /\ arrived \in Seq(Produced)
  BY <1>1, ClientIsClient DEF Produced, serverVars, DownlinkInv, DownlinkTypes
<1>3. arrived \in Seq(Message) /\ <<>> \in Seq(Produced)
  BY <1>2, ProducedAreMessages
<1>4. DownlinkTypes'
  BY <1>1, <1>2, <1>3, ClientIsClient
     DEF DownlinkInv, DownlinkTypes, ClientTypeOK, serverVars, channelVars
<1>5. LoopAgrees'
  BY <1>1, ClientIsClient DEF DownlinkInv, LoopAgrees
<1>6. AcknowledgedEventsAreTaken'
  <2>1. Waiting' = Waiting
    BY <1>1 DEF Waiting
  <2>2. QED
    BY <1>1, <2>1 DEF DownlinkInv, AcknowledgedEventsAreTaken, channelVars
<1>7. QED
  BY <1>4, <1>5, <1>6 DEF DownlinkInv

\* What the receive loop does to the message queue and to what is taken.
LEMMA ReceiveKeeps ==
  ASSUME DownlinkInv, ReceiveMessage,
         taken' = taken \cup (replicationBatches'[Client] \ replicationBatches[Client]),
         UNCHANGED <<channelVars, serverVars, arrived>>
  PROVE  DownlinkInv'
<1> DEFINE m == Head(drained)
<1>1. receiver = Client /\ drained # <<>> /\ drained \in Seq(Produced) /\ commits \in Nat
  BY ClientIsClient DEF ReceiveMessage, DownlinkInv, DownlinkTypes, LoopAgrees
<1>2. /\ m \in Produced /\ Tail(drained) \in Seq(Produced)
      /\ \A i \in DOMAIN drained : drained[i] = m \/ \E j \in DOMAIN Tail(drained) :
           Tail(drained)[j] = drained[i]
  <2>1. \A i \in DOMAIN drained : i # 1 =>
          i - 1 \in DOMAIN Tail(drained) /\ Tail(drained)[i - 1] = drained[i]
    BY <1>1
  <2>2. m = drained[1] /\ m \in Produced /\ Tail(drained) \in Seq(Produced)
    BY <1>1
  <2>3. QED
    BY <2>1, <2>2
<1>3. /\ m \in Message /\ m.sequence \in Nat
      /\ m.kind = "world_events" => m.sequence \in 1 .. commits /\ m = WorldEvents(m.sequence)
      /\ Tail(drained) \in Seq(Message)
  <2>1. m \in Message /\ Produced \subseteq Message
    BY <1>1, <1>2, ProducedAreMessages
  <2>2. m.kind = "world_events" => m.sequence \in 1 .. commits /\ m = WorldEvents(m.sequence)
    BY <1>1, <1>2, ProducedAreMessages
  <2>3. m.sequence \in Nat
    BY <2>1 DEF Message
  <2>4. \A q \in Seq(Produced) : q \in Seq(Message)
    BY <2>1
  <2>5. QED
    BY <1>2, <2>1, <2>2, <2>3, <2>4
<1>4. ClientTypeOK /\ Client \in Clients
  BY ClientIsClient DEF DownlinkInv, DownlinkTypes
<1>5. /\ drained' = Tail(drained)
      /\ UNCHANGED <<nextCommandSequence, receiver, faulted, discardedDeltas>>
      /\ \/ ReceiveWelcome(Client) \/ ReceiveCommandResult(Client)
         \/ ReceiveWorldEvents(Client) \/ ReceiveDelta(Client) \/ ReceiveDisconnect(Client)
  BY <1>1 DEF ReceiveMessage
<1> HIDE DEF m
<1>6. /\ sessionState' \in [Clients -> {"disconnected", "connected"}]
      /\ pendingCommands' \in [Clients -> SUBSET Nat]
      /\ lastReplicationSequence' \in [Clients -> Nat]
      /\ replicationBatches' \in [Clients -> SUBSET Nat]
      /\ replicationMessages' \in [Clients -> Seq(Nat)]
      /\ \/ replicationBatches'[Client] = {}
         \/ replicationBatches'[Client] = replicationBatches[Client]
         \/ /\ m.kind = "world_events"
            /\ replicationBatches'[Client] = replicationBatches[Client] \cup {m.sequence}
      /\ m.kind = "world_events" => m.sequence \in replicationBatches'[Client]
  <2>1. CASE ReceiveWelcome(Client)
    BY <1>4, <2>1 DEF ReceiveWelcome, ClientTypeOK, m
  <2>2. CASE ReceiveCommandResult(Client)
    BY <1>4, <2>2 DEF ReceiveCommandResult, ClientTypeOK, m
  <2>3. CASE ReceiveWorldEvents(Client)
    BY <1>3, <1>4, <2>3 DEF ReceiveWorldEvents, ClientTypeOK, m
  <2>4. CASE ReceiveDelta(Client)
    <3>1. Append(replicationMessages[Client], m.sequence) \in Seq(Nat)
      BY <1>3, <1>4 DEF ClientTypeOK
    <3>2. QED
      BY <1>4, <2>4, <3>1 DEF ReceiveDelta, ClientTypeOK, m
  <2>5. CASE ReceiveDisconnect(Client)
    BY <1>4, <2>5 DEF ReceiveDisconnect, ClientTypeOK, m
  <2>6. QED
    BY <1>5, <2>1, <2>2, <2>3, <2>4, <2>5
<1>7. Produced' = Produced
  BY DEF Produced, serverVars
<1>8. DownlinkTypes'
  <2>1. ClientTypeOK'
    BY <1>3, <1>4, <1>5, <1>6 DEF ClientTypeOK
  <2>2. taken' \subseteq 1 .. commits
    BY <1>3, <1>6 DEF DownlinkInv, DownlinkTypes
  <2>3. QED
    BY <1>2, <1>5, <1>7, <2>1, <2>2
       DEF DownlinkInv, DownlinkTypes, channelVars, serverVars
<1>9. LoopAgrees'
  BY <1>1, <1>5, ClientIsClient DEF DownlinkInv, LoopAgrees
<1>10. AcknowledgedEventsAreTaken'
  <2> SUFFICES ASSUME NEW n \in 1 .. MaxOutput, WorldEvents(n) \in downAcks,
                      n \notin taken', ~faulted[Client]
               PROVE  WorldEvents(n) \in Waiting'
    BY <1>5 DEF AcknowledgedEventsAreTaken, channelVars
  <2>1. WorldEvents(n) \in Waiting
    BY DEF DownlinkInv, AcknowledgedEventsAreTaken
  <2>2. WorldEvents(n) # m
    <3>1. SUFFICES ASSUME WorldEvents(n) = m PROVE FALSE
      OBVIOUS
    <3>2. m.kind = "world_events" /\ m.sequence = n
      BY <3>1 DEF WorldEvents
    <3>3. n \in replicationBatches'[Client] /\ replicationBatches[Client] \subseteq taken
      BY <1>6, <3>2 DEF DownlinkInv, LoopAgrees
    <3>4. QED
      BY <3>3
  <2>3. QED
    BY <1>2, <1>5, <2>1, <2>2 DEF Waiting
<1>11. QED
  BY <1>8, <1>9, <1>10 DEF DownlinkInv

LEMMA LoopEndKeeps ==
  ASSUME DownlinkInv, RejectMessage \/ Synchronize,
         taken' = taken \cup (replicationBatches'[Client] \ replicationBatches[Client]),
         UNCHANGED <<channelVars, serverVars, arrived>>
  PROVE  DownlinkInv'
<1>1. /\ receiver = Client /\ drained \in Seq(Produced) /\ commits \in Nat
      /\ ClientTypeOK /\ Client \in Clients /\ Produced' = Produced
  BY ClientIsClient
     DEF RejectMessage, Synchronize, DownlinkInv, DownlinkTypes, LoopAgrees, Produced, serverVars
<1>2. /\ receiver' = NoClient /\ drained' = <<>>
      /\ UNCHANGED <<sessionState, nextCommandSequence, pendingCommands,
                     lastReplicationSequence>>
  BY DEF RejectMessage, Synchronize
<1>3. /\ faulted' \in [Clients -> BOOLEAN]
      /\ replicationBatches' \in [Clients -> SUBSET Nat]
      /\ replicationMessages' \in [Clients -> Seq(Nat)]
      /\ discardedDeltas' \in [Clients -> SUBSET Nat]
      /\ replicationBatches'[Client] \subseteq replicationBatches[Client]
      /\ faulted'[Client] \/ drained = <<>>
      /\ faulted[Client] => faulted'[Client]
  <2>1. CASE RejectMessage
    BY <1>1, <2>1 DEF RejectMessage, ClientTypeOK
  <2>2. CASE Synchronize
    <3>1. QueuedDeltas(Client) \subseteq Nat
      BY <1>1 DEF QueuedDeltas, ClientTypeOK
    <3>2. <<>> \in Seq(Nat)
      OBVIOUS
    <3>3. drained = <<>> /\ replicationMessages' \in [Clients -> Seq(Nat)]
      BY <1>1, <2>2, <3>2 DEF Synchronize, ClientTypeOK
    <3>4. CASE HasDuplicateDelta(Client)
      BY <1>1, <2>2, <3>3, <3>4 DEF Synchronize, ClientTypeOK
    <3>5. CASE ~HasDuplicateDelta(Client)
      <4>1. /\ replicationBatches' = [replicationBatches EXCEPT ![Client] = {}]
            /\ discardedDeltas' = [discardedDeltas EXCEPT ![Client] =
                  @ \cup (QueuedDeltas(Client) \ replicationBatches[Client])]
            /\ faulted' = faulted
        BY <1>1, <2>2, <3>5 DEF Synchronize
      <4>2. replicationBatches' \in [Clients -> SUBSET Nat] /\ replicationBatches'[Client] = {}
        BY <1>1, <4>1 DEF ClientTypeOK
      <4>3. discardedDeltas' \in [Clients -> SUBSET Nat]
        BY <1>1, <3>1, <4>1 DEF ClientTypeOK
      <4>4. QED
        BY <1>1, <3>3, <4>1, <4>2, <4>3 DEF ClientTypeOK
    <3>6. QED
      BY <3>4, <3>5
  <2>3. QED
    BY <2>1, <2>2
<1>4. taken' = taken
  BY <1>3
<1>5. DownlinkTypes'
  <2>1. <<>> \in Seq(Produced) /\ <<>> \in Seq(Message)
    OBVIOUS
  <2>2. ClientTypeOK'
    BY <1>1, <1>2, <1>3, <2>1 DEF ClientTypeOK
  <2>3. QED
    BY <1>1, <1>2, <1>4, <2>1, <2>2
       DEF DownlinkInv, DownlinkTypes, channelVars, serverVars
<1>6. LoopAgrees'
  BY <1>2, <1>3, <1>4 DEF DownlinkInv, LoopAgrees
<1>7. AcknowledgedEventsAreTaken'
  <2>1. drained = <<>> => Waiting' = Waiting
    BY <1>2 DEF Waiting
  <2>2. QED
    BY <1>3, <1>4, <2>1 DEF DownlinkInv, AcknowledgedEventsAreTaken, channelVars
<1>8. QED
  BY <1>5, <1>6, <1>7 DEF DownlinkInv

LEMMA DownlinkStep == DownlinkInv /\ [DownlinkNext]_downlinkVars => DownlinkInv'
<1> SUFFICES ASSUME DownlinkInv, [DownlinkNext]_downlinkVars PROVE DownlinkInv'
  OBVIOUS
<1>1. CASE UNCHANGED downlinkVars
  <2>1. UNCHANGED <<clientVars, channelVars, serverVars, arrived, taken>>
    BY <1>1 DEF downlinkVars
  <2>2. ChannelTypes(downAttempts', downDatagrams', downAcks', downReceived', downDropped',
                     Produced)
    BY <2>1 DEF channelVars, DownlinkInv, DownlinkTypes
  <2>3. QED
    BY <2>1, <2>2, ServerStepKeeps DEF channelVars, serverVars, DownlinkInv, DownlinkTypes
<1>2. CASE ReceiveStep
  BY <1>2, ReceiveKeeps, LoopEndKeeps DEF ReceiveStep
<1>3. QED
  BY <1>1, <1>2, ServerStepsKeep, CommitKeeps, ClientReceivesKeeps, PumpClientKeeps
     DEF DownlinkNext

LEMMA DownlinkInitial == DownlinkInit => DownlinkInv
<1> SUFFICES ASSUME DownlinkInit PROVE DownlinkInv
  OBVIOUS
<1> USE DEF DownlinkInit, ClientInit, Down!ChannelInit
<1>1. Down!EmptyBag = Up!EmptyBag
  BY DEF Down!EmptyBag, Up!EmptyBag, Down!SetToBag, Up!SetToBag
<1>2. ChannelTypes(downAttempts, downDatagrams, downAcks, downReceived, downDropped, Produced)
  BY <1>1, InitialChannel
<1>3. ClientTypeOK
  BY DEF ClientTypeOK
<1>4. DownlinkTypes
  BY <1>2, <1>3, ClientIsClient DEF DownlinkTypes
<1>5. LoopAgrees /\ AcknowledgedEventsAreTaken
  BY ClientIsClient DEF LoopAgrees, AcknowledgedEventsAreTaken
<1>6. QED
  BY <1>4, <1>5 DEF DownlinkInv

-----------------------------------------------------------------------------
(* The theorems.                                                           *)

LEMMA ChannelTypesOK ==
  ASSUME NEW M
  PROVE  /\ ChannelTypes(attempts, datagrams, acks, received, dropped, M)
              => Up!ChannelTypeOK(M)
         /\ ChannelTypes(downAttempts, downDatagrams, downAcks, downReceived, downDropped, M)
              => Down!ChannelTypeOK(M)
<1>1. \A B : Down!IsABag(B) <=> Up!IsABag(B)
  BY DEF Down!IsABag, Up!IsABag
<1>2. \A r, k : r \in Seq(k) => Up!Range(r) \subseteq k /\ Down!Range(r) \subseteq k
  BY DEF Up!Range, Down!Range
<1>3. QED
  BY <1>1, <1>2, SameCardinality
     DEF ChannelTypes, Up!ChannelTypeOK, Down!ChannelTypeOK, Up!BagToSet, Down!BagToSet

LEMMA DownlinkTypesOK == DownlinkInv => DownlinkTypeOK
<1> SUFFICES ASSUME DownlinkInv PROVE DownlinkTypeOK
  OBVIOUS
<1>1. DownlinkTypes /\ Produced \subseteq Messages
  BY ClientIsClient DEF DownlinkInv, DownlinkTypes, Produced, Messages
<1>2. Down!ChannelTypeOK(Messages)
  BY <1>1, ChannelTypesGrow, ChannelTypesOK DEF DownlinkTypes
<1>3. \A q \in Seq(Produced) : q \in Seq(Messages)
  BY <1>1
<1>4. QED
  BY <1>1, <1>2, <1>3 DEF DownlinkTypes, DownlinkTypeOK

\* The variables of both directions keep their types: the channels track,
\* deliver and remember only what was sent, within their limits.
THEOREM TransportTypeCorrect == MCSpec => []TransportTypeOK
<1> DEFINE Inv == SequencerInv /\ UplinkTypes /\ DownlinkInv
<1>1. MCInit => Inv
  <2>1. ASSUME Init
        PROVE  UplinkTypes
    <3>1. ChannelTypes(attempts, datagrams, acks, received, dropped, Commands)
      BY <2>1, InitialChannel DEF Init, Up!ChannelInit
    <3>2. /\ nextCommand \in 1 .. LastCommand + 1 /\ lastSent \in 0 .. LastCommand
          /\ refused \subseteq Commands
      BY <2>1, CommandsAreFinite DEF Init
    <3>3. connected \in BOOLEAN /\ halted \in BOOLEAN
      BY <2>1 DEF Init
    <3>4. QED
      BY <3>1, <3>2, <3>3 DEF UplinkTypes
  <2>2. QED
    BY <2>1, InitIsInOrder, DownlinkInitial DEF MCInit
<1>2. Inv /\ [MCNext]_<<vars, downlinkVars, direction>> => Inv'
  <2>1. [MCNext]_<<vars, downlinkVars, direction>>
          => [Next]_vars /\ [DownlinkNext]_downlinkVars
    BY DEF MCNext
  <2>2. QED
    BY <2>1, StepPreservesOrder, UplinkStepTypes, DownlinkStep
<1>3. Inv => TransportTypeOK
  BY ChannelTypesOK, DownlinkTypesOK
     DEF UplinkTypes, SequencerInv, TypeOK, TransportTypeOK
<1>4. QED
  BY <1>1, <1>2, <1>3, PTL DEF MCSpec

\* A live client has no silent gap behind an acknowledgement: whatever is lost,
\* repeated or reordered, an event batch the client has acknowledged is taken
\* by its session or about to be, or the session has faulted.
THEOREM AcknowledgedEvents == DownlinkSpec => []AcknowledgedEventsAreTaken
<1>1. DownlinkInv => AcknowledgedEventsAreTaken
  BY DEF DownlinkInv
<1>2. QED
  BY <1>1, DownlinkInitial, DownlinkStep, PTL DEF DownlinkSpec

\* The client's replication stream goes backwards only when a disconnected
\* session starts over.
THEOREM StreamIsMonotone == DownlinkSpec => StreamNeverRewinds
<1> DEFINE Rewinds(c) == lastReplicationSequence'[c] < lastReplicationSequence[c]
           Restarts(c) == sessionState[c] = "disconnected" /\ sessionState'[c] = "connected"
           NoRewind == \A c \in Clients : Rewinds(c) => Restarts(c)
<1>1. DownlinkInv /\ [DownlinkNext]_downlinkVars => [NoRewind]_downlinkVars
  <2> SUFFICES ASSUME DownlinkInv, DownlinkNext, NEW c \in Clients, Rewinds(c)
               PROVE  Restarts(c)
    OBVIOUS
  <2>1. ClientTypeOK /\ Client \in Clients /\ receiver \in {NoClient, Client}
    BY ClientIsClient DEF DownlinkInv, DownlinkTypes, LoopAgrees
  <2>2. lastReplicationSequence' # lastReplicationSequence
    BY <2>1 DEF ClientTypeOK
  <2>3. ReceiveMessage
    BY <2>2
       DEF DownlinkNext, ConnectClient, NotifyDisconnect, Commit, FlushSend, PollDownlink,
           ServerAcknowledged, ClientReceives, PumpClient, BeginReceive, ReceiveStep,
           RejectMessage, Synchronize, clientVars
  <2>4. receiver = Client /\ Acceptable(Client, Head(drained))
    BY <2>1, <2>3 DEF ReceiveMessage
  <2>5. \/ ReceiveWelcome(Client) \/ ReceiveCommandResult(Client)
        \/ ReceiveWorldEvents(Client) \/ ReceiveDelta(Client) \/ ReceiveDisconnect(Client)
    BY <2>3, <2>4 DEF ReceiveMessage
  <2>6. CASE ReceiveWelcome(Client)
    BY <2>1, <2>4, <2>6 DEF ReceiveWelcome, Acceptable, ClientTypeOK
  <2>7. CASE ReceiveWorldEvents(Client)
    <3>1. /\ Head(drained).sequence > lastReplicationSequence[Client]
          /\ lastReplicationSequence' =
               [lastReplicationSequence EXCEPT ![Client] = Head(drained).sequence]
      BY <2>4, <2>7 DEF ReceiveWorldEvents, Acceptable
    <3>2. drained # <<>> /\ drained \in Seq(Message)
      BY <2>1, <2>3 DEF ReceiveMessage, ClientTypeOK
    <3>3. Head(drained).sequence \in Nat
      <4>1. Head(drained) \in Message
        BY <3>2
      <4>2. QED
        BY <4>1 DEF Message
    <3>4. lastReplicationSequence'[c] >= lastReplicationSequence[c]
      BY <2>1, <3>1, <3>3 DEF ClientTypeOK
    <3>5. lastReplicationSequence'[c] \in Nat /\ lastReplicationSequence[c] \in Nat
      BY <2>1, <3>1, <3>3 DEF ClientTypeOK
    <3>6. QED
      BY <3>4, <3>5
  <2>8. QED
    BY <2>2, <2>5, <2>6, <2>7
       DEF ReceiveCommandResult, ReceiveDelta, ReceiveDisconnect
<1>2. QED
  BY <1>1, DownlinkInitial, DownlinkStep, PTL DEF DownlinkSpec, StreamNeverRewinds
=============================================================================
