------------------------ MODULE ReplicationDownlink ------------------------
(***************************************************************************)
(* What the server sends to one client, over the datagram transport        *)
(* (PosixDatagramTransportHost) instead of the in-memory one: the host's   *)
(* queue for that client, the server's tracker for it, the client's        *)
(* duplicate suppression, and the client session that receives messages in *)
(* the order their datagrams arrive.  Commands and their results are left  *)
(* out: the batches and deltas here are those of other players' commands.  *)
(*                                                                         *)
(* The server's tick and the client's receive loop run on one thread, so   *)
(* none of the other steps happens while the loop runs, and an error in it *)
(* stops the server too (RuntimeSession::fault_frame).                     *)
(***************************************************************************)
EXTENDS ClientSession, TransportConfig, FiniteSets

CONSTANT
  MaxOutput           \* bound: event batches and deltas of the server together

ASSUME DownlinkAssumption == FirstClientId <= MaxClientId /\ MaxOutput \in Nat

VARIABLES
  downAttempts, downDatagrams, downAcks, downReceived, downDropped,    \* of the channel
  link,               \* "new", "up" or "down": the server's end
  pendingOutbound,    \* the host's queue for the client
  commits,            \* event batches committed
  materialized,       \* those a typed delta was made of
  arrived,            \* the vector drain_client_messages fills
  taken               \* history: event batches the session accepted

Down == INSTANCE ReliableChannel WITH
          attempts <- downAttempts, datagrams <- downDatagrams, acks <- downAcks,
          received <- downReceived, dropped <- downDropped

channelVars == <<downAttempts, downDatagrams, downAcks, downReceived, downDropped>>
serverVars == <<link, pendingOutbound, commits, materialized>>
downlinkVars == <<clientVars, channelVars, serverVars, arrived, taken>>

Client == FirstClientId

Quiescent == receiver = NoClient /\ ~faulted[Client]

DownlinkInit ==
  /\ ClientInit
  /\ Down!ChannelInit
  /\ link = "new"
  /\ pendingOutbound = <<>>
  /\ commits = 0
  /\ materialized = {}
  /\ arrived = <<>>
  /\ taken = {}

-----------------------------------------------------------------------------
(* The server.                                                             *)

\* HostSession::connect_client.  A client whose welcome cannot be sent is
\* disconnected again and its number never comes back.
ConnectClient ==
  /\ link = "new"
  /\ Down!Send(Welcome)
  /\ link' = "up"
  /\ UNCHANGED <<clientVars, pendingOutbound, commits, materialized, arrived, taken>>

\* HostSession::disconnect_client: one attempt at a notice, then the server's
\* end is gone and with it the queue and all retransmission.
NotifyDisconnect ==
  /\ link = "up"
  /\ link' = "down"
  /\ pendingOutbound' = <<>>
  /\ \/ Down!Send(DisconnectNotice)
     \/ SendsMayFail /\ UNCHANGED channelVars
  /\ UNCHANGED <<clientVars, commits, materialized, arrived, taken>>

\* A command of another client commits: the event batch joins the queue, then
\* the typed delta if one can be materialized.  A tick with output still
\* blocked dispatches nothing (HostSession::tick).
Commit(withDelta) ==
  /\ link = "up"
  /\ pendingOutbound = <<>>
  /\ commits + Cardinality(materialized) + (IF withDelta THEN 2 ELSE 1) <= MaxOutput
  /\ commits' = commits + 1
  /\ materialized' = IF withDelta THEN materialized \cup {commits'} ELSE materialized
  /\ pendingOutbound' = <<WorldEvents(commits')>>
                          \o (IF withDelta THEN <<Delta(commits')>> ELSE <<>>)
  /\ UNCHANGED <<clientVars, channelVars, link, arrived, taken>>

\* flush_pending_outbound, one message; one that cannot be tracked or sent
\* stays where it is.
FlushSend ==
  /\ link = "up"
  /\ pendingOutbound # <<>>
  /\ Down!Send(Head(pendingOutbound))
  /\ pendingOutbound' = Tail(pendingOutbound)
  /\ UNCHANGED <<clientVars, link, commits, materialized, arrived, taken>>

\* poll_maintenance, for the server's tracker.
PollDownlink(expired) ==
  /\ link = "up"
  /\ Down!Poll(expired)
  /\ UNCHANGED <<clientVars, serverVars, arrived, taken>>

\* drain_server_messages, one acknowledgement of a connected client.
ServerAcknowledged(m) ==
  /\ link = "up"
  /\ Down!AcceptAck(m)
  /\ UNCHANGED <<clientVars, serverVars, arrived, taken>>

-----------------------------------------------------------------------------
(* The client.                                                             *)

\* drain_client_messages, one datagram: acknowledged, and handed on unless its
\* key is still remembered.  Nothing puts messages back in order.
ClientReceives(m) ==
  /\ Down!Accept(m)
  /\ arrived' = IF Down!IsDuplicate(m) THEN arrived ELSE Append(arrived, m)
  /\ UNCHANGED <<clientVars, serverVars, taken>>

\* RuntimeSession::pump_client_messages hands the vector to the receive loop.
PumpClient ==
  /\ arrived # <<>>
  /\ BeginReceive(Client, arrived)
  /\ arrived' = <<>>
  /\ UNCHANGED <<channelVars, serverVars, taken>>

ReceiveStep ==
  /\ ReceiveMessage \/ RejectMessage \/ Synchronize
  /\ taken' = taken \cup (replicationBatches'[Client] \ replicationBatches[Client])
  /\ UNCHANGED <<channelVars, serverVars, arrived>>

-----------------------------------------------------------------------------
Messages ==
  {Welcome, DisconnectNotice}
    \cup {WorldEvents(n) : n \in 1 .. MaxOutput}
    \cup {Delta(n) : n \in 1 .. MaxOutput}

DownlinkNext ==
  \/ /\ Quiescent
     /\ \/ ConnectClient
        \/ NotifyDisconnect
        \/ \E withDelta \in BOOLEAN : Commit(withDelta)
        \/ FlushSend
        \/ \E m \in DOMAIN downAttempts : PollDownlink({m})
        \/ \E m \in Messages : ServerAcknowledged(m) \/ ClientReceives(m)
        \/ PumpClient
  \/ ReceiveStep

DownlinkSpec == DownlinkInit /\ [][DownlinkNext]_downlinkVars

-----------------------------------------------------------------------------
(* Properties.                                                             *)

DownlinkTypeOK ==
  /\ ClientTypeOK
  /\ Down!ChannelTypeOK(Messages)
  /\ link \in {"new", "up", "down"}
  /\ pendingOutbound \in Seq(Messages)
  /\ commits \in 0 .. MaxOutput
  /\ materialized \subseteq 1 .. commits
  /\ arrived \in Seq(Messages)
  /\ taken \subseteq 1 .. commits

\* However datagrams are reordered, retransmitted and forgotten by the
\* duplicate filter, the client's replication stream goes backwards only when
\* a disconnected session starts over.
StreamNeverRewinds ==
  [][\A c \in Clients :
       lastReplicationSequence'[c] < lastReplicationSequence[c]
         => sessionState[c] = "disconnected" /\ sessionState'[c] = "connected"]_downlinkVars

\* An event batch the client has acknowledged, which the server will therefore
\* not send again, has been taken by the client's session or is about to be -
\* or the session has faulted, which ends the program's session: a live client
\* has no silent gap behind an acknowledgement.
Waiting == {arrived[i] : i \in DOMAIN arrived} \cup {drained[i] : i \in DOMAIN drained}

AcknowledgedEventsAreTaken ==
  \A n \in 1 .. MaxOutput :
    WorldEvents(n) \in downAcks =>
      \/ n \in taken
      \/ WorldEvents(n) \in Waiting
      \/ faulted[Client]
=============================================================================
