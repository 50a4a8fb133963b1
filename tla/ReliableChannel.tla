-------------------------- MODULE ReliableChannel --------------------------
(***************************************************************************)
(* One direction of the datagram transport for one client: the sender's    *)
(* TransportReliabilityTracker (pending_), the receiver's (received_,      *)
(* received_order_) and the network between them.                          *)
(*                                                                         *)
(* The network delivers datagrams in any order, late or never; duplicates  *)
(* are the copies that retransmission makes.  An acknowledgement once sent *)
(* may arrive at any later time, several times or never (a second one has  *)
(* no effect).  Retry timers are abstracted: any tracked message may have  *)
(* outlived its retry delay when the tracker is polled.                    *)
(***************************************************************************)
EXTENDS BagsExt, Bags, Functions, Naturals, Sequences, FiniteSets

CONSTANTS
  MaxAttempts,        \* TransportReliabilityConfig::max_attempts
  MaxInFlight,        \* max_in_flight
  MaxTrackedReceived  \* max_tracked_received_messages

VARIABLES
  attempts,           \* tracked message -> times sent
  datagrams,          \* bag of messages sent and not yet arrived
  acks,               \* messages acknowledged so far
  received,           \* received_order_, oldest first
  dropped             \* history: messages poll gave up and reported

channelVars == <<attempts, datagrams, acks, received, dropped>>

ChannelTypeOK(messages) ==
  /\ DOMAIN attempts \subseteq messages
  /\ Cardinality(DOMAIN attempts) <= MaxInFlight
  /\ \A m \in DOMAIN attempts : attempts[m] \in 1 .. MaxAttempts
  /\ IsABag(datagrams)
  /\ BagToSet(datagrams) \subseteq messages
  /\ acks \subseteq messages
  /\ Range(received) \subseteq acks
  /\ Len(received) <= MaxTrackedReceived
  /\ dropped \subseteq messages

ChannelInit ==
  /\ attempts = <<>>
  /\ datagrams = EmptyBag
  /\ acks = {}
  /\ received = <<>>
  /\ dropped = {}

-----------------------------------------------------------------------------
(* The sender.                                                             *)

\* track_send: refused while the message is pending or the window is full.
CanTrack(m) ==
  /\ m \notin DOMAIN attempts
  /\ Cardinality(DOMAIN attempts) < MaxInFlight

\* track_send and the first datagram.  A send that fails is rolled back, which
\* leaves the channel as it was.
Send(m) ==
  /\ CanTrack(m)
  /\ attempts' = [k \in DOMAIN attempts \cup {m} |-> IF k = m THEN 1 ELSE attempts[k]]
  /\ datagrams' = BagAdd(datagrams, m)
  /\ UNCHANGED <<acks, received, dropped>>

\* poll with `expired' past their retry delay: what has been sent max_attempts
\* times is dropped and reported, the rest is sent once more.
Spent(expired) == {m \in expired : attempts[m] >= MaxAttempts}

CountPoll(expired) ==
  attempts' = [m \in DOMAIN attempts \ Spent(expired) |->
                 IF m \in expired THEN attempts[m] + 1 ELSE attempts[m]]

Poll(expired) ==
  /\ CountPoll(expired)
  /\ datagrams' = datagrams (+) SetToBag(expired \ Spent(expired))
  /\ dropped' = dropped \cup Spent(expired)
  /\ UNCHANGED <<acks, received>>

\* The same with a retransmission that fails: those before it are sent, those
\* after it are not, and the drop reports are lost with the result.
PollFailing(expired, sent) ==
  /\ sent \subseteq expired \ Spent(expired)
  /\ sent # expired \ Spent(expired)
  /\ CountPoll(expired)
  /\ datagrams' = datagrams (+) SetToBag(sent)
  /\ UNCHANGED <<acks, received, dropped>>

\* accept_acknowledgement: the message is no longer tracked, if it still was.
AcceptAck(m) ==
  /\ m \in acks
  /\ attempts' = Restrict(attempts, DOMAIN attempts \ {m})
  /\ UNCHANGED <<datagrams, acks, received, dropped>>

-----------------------------------------------------------------------------
(* The receiver.                                                           *)

IsDuplicate(m) == \E i \in 1 .. Len(received) : received[i] = m

\* Faulty variant: the receive history is never trimmed.
RememberAll(m) == Append(received, m)

\* remember_received: the oldest entry makes room.
Remember(m) ==
  LET longer == Append(received, m)
  IN  IF Len(longer) > MaxTrackedReceived THEN Tail(longer) ELSE longer

\* accept_reliable_message: acknowledged in any case, a duplicate is remembered
\* no second time.
Accept(m) ==
  /\ BagIn(m, datagrams)
  /\ datagrams' = BagRemove(datagrams, m)
  /\ acks' = acks \cup {m}
  /\ received' = IF IsDuplicate(m) THEN received ELSE Remember(m)
  /\ UNCHANGED <<attempts, dropped>>

\* A datagram the receiver discards without a reply.
Discard(m) ==
  /\ BagIn(m, datagrams)
  /\ datagrams' = BagRemove(datagrams, m)
  /\ UNCHANGED <<attempts, acks, received, dropped>>
=============================================================================
