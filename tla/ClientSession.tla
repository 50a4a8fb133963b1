--------------------------- MODULE ClientSession ---------------------------
(***************************************************************************)
(* The client half of the protocol: net::ClientSession (what a client      *)
(* knows about its connection, its commands and the replication stream)    *)
(* and game::ClientRuntime, which feeds it the drained messages and then   *)
(* matches typed deltas with event batches.                                *)
(*                                                                         *)
(* One receive loop runs at a time: RuntimeSession::run_frame drains the   *)
(* client's inbox into a vector, receives the messages one by one and      *)
(* synchronizes, all on the thread that also runs the server tick.         *)
(* `receiver' is the client whose loop runs, `drained' the vector's rest.  *)
(***************************************************************************)
EXTENDS NetMessages

CONSTANT MaxCommands          \* bound: commands one client creates

ASSUME MaxCommandsAssumption == MaxCommands \in Nat

VARIABLES
  sessionState,             \* ClientSessionState of each client
  nextCommandSequence,      \* the sequence create_command uses next
  pendingCommands,          \* sequences created and not yet answered
  lastReplicationSequence,  \* newest event batch accepted, 0 when none
  replicationBatches,       \* event batches queued for synchronize
  replicationMessages,      \* typed deltas queued for synchronize
  receiver,                 \* the client whose receive loop runs
  drained,                  \* messages of that loop not yet received
  faulted,                  \* receive or synchronize returned an error
  discardedDeltas           \* history: deltas drained without their batch

clientVars == <<sessionState, nextCommandSequence, pendingCommands,
                lastReplicationSequence, replicationBatches,
                replicationMessages, receiver, drained, faulted,
                discardedDeltas>>

NoClient == 0                 \* receiver while no receive loop runs

ClientTypeOK ==
  /\ sessionState \in [Clients -> {"disconnected", "connected"}]
  /\ nextCommandSequence \in [Clients -> Nat \ {0}]
  /\ pendingCommands \in [Clients -> SUBSET Nat]
  /\ lastReplicationSequence \in [Clients -> Nat]
  /\ replicationBatches \in [Clients -> SUBSET Nat]
  /\ replicationMessages \in [Clients -> Seq(Nat)]
  /\ receiver \in Clients \cup {NoClient}
  /\ drained \in Seq(Message)
  /\ faulted \in [Clients -> BOOLEAN]
  /\ discardedDeltas \in [Clients -> SUBSET Nat]

ClientInit ==
  /\ sessionState = [c \in Clients |-> "disconnected"]
  /\ nextCommandSequence = [c \in Clients |-> 1]
  /\ pendingCommands = [c \in Clients |-> {}]
  /\ lastReplicationSequence = [c \in Clients |-> 0]
  /\ replicationBatches = [c \in Clients |-> {}]
  /\ replicationMessages = [c \in Clients |-> <<>>]
  /\ receiver = NoClient
  /\ drained = <<>>
  /\ faulted = [c \in Clients |-> FALSE]
  /\ discardedDeltas = [c \in Clients |-> {}]

\* The client endpoints die with the session that owns them
\* (RuntimeSession::shutdown resets client_ and server_ together).
ClientReset ==
  /\ sessionState' = [c \in Clients |-> "disconnected"]
  /\ nextCommandSequence' = [c \in Clients |-> 1]
  /\ pendingCommands' = [c \in Clients |-> {}]
  /\ lastReplicationSequence' = [c \in Clients |-> 0]
  /\ replicationBatches' = [c \in Clients |-> {}]
  /\ replicationMessages' = [c \in Clients |-> <<>>]
  /\ receiver' = NoClient
  /\ drained' = <<>>
  /\ faulted' = [c \in Clients |-> FALSE]
  /\ discardedDeltas' = [c \in Clients |-> {}]

-----------------------------------------------------------------------------
(* create_command: refuse unless connected, number the command, remember   *)
(* it as pending.                                                          *)
CreateCommand(c) ==
  /\ sessionState[c] = "connected"
  /\ ~faulted[c]
  /\ nextCommandSequence[c] <= MaxCommands
  /\ nextCommandSequence[c] \notin pendingCommands[c]
  /\ pendingCommands' = [pendingCommands EXCEPT ![c] = @ \cup {nextCommandSequence[c]}]
  /\ nextCommandSequence' = [nextCommandSequence EXCEPT ![c] = @ + 1]
  /\ UNCHANGED <<sessionState, lastReplicationSequence, replicationBatches,
                 replicationMessages, receiver, drained, faulted, discardedDeltas>>

-----------------------------------------------------------------------------
(* The receive loop takes the vector that drain_client_messages returned.  *)
BeginReceive(c, messages) ==
  /\ receiver = NoClient
  /\ ~faulted[c]
  /\ receiver' = c
  /\ drained' = messages
  /\ UNCHANGED <<sessionState, nextCommandSequence, pendingCommands,
                 lastReplicationSequence, replicationBatches,
                 replicationMessages, faulted, discardedDeltas>>

\* Faulty variant: a replayed event batch is taken like a new one.
AcceptableReplayed(c, m) ==
  \/ sessionState[c] = "disconnected" /\ m.kind = "welcome"
  \/ /\ sessionState[c] = "connected"
     /\ \/ m.kind \in {"disconnect", "delta", "world_events"}
        \/ m.kind = "command_result" /\ m.sequence \in pendingCommands[c]

\* What receive_server_message takes without an error in the present state.
Acceptable(c, m) ==
  \/ sessionState[c] = "disconnected" /\ m.kind = "welcome"
  \/ /\ sessionState[c] = "connected"
     /\ \/ m.kind \in {"disconnect", "delta"}
        \/ m.kind = "command_result" /\ m.sequence \in pendingCommands[c]
        \/ m.kind = "world_events" /\ m.sequence > lastReplicationSequence[c]

\* accept_welcome: the session starts over.
ReceiveWelcome(c) ==
  /\ Head(drained).kind = "welcome"
  /\ sessionState' = [sessionState EXCEPT ![c] = "connected"]
  /\ pendingCommands' = [pendingCommands EXCEPT ![c] = {}]
  /\ lastReplicationSequence' = [lastReplicationSequence EXCEPT ![c] = 0]
  /\ replicationBatches' = [replicationBatches EXCEPT ![c] = {}]
  /\ replicationMessages' = [replicationMessages EXCEPT ![c] = <<>>]

\* receive_command_result: the command is answered.
ReceiveCommandResult(c) ==
  /\ Head(drained).kind = "command_result"
  /\ pendingCommands' = [pendingCommands EXCEPT ![c] = @ \ {Head(drained).sequence}]
  /\ UNCHANGED <<sessionState, lastReplicationSequence, replicationBatches,
                 replicationMessages>>

\* receive_replication, event batch: queue it and advance the stream.
ReceiveWorldEvents(c) ==
  /\ Head(drained).kind = "world_events"
  /\ lastReplicationSequence' =
       [lastReplicationSequence EXCEPT ![c] = Head(drained).sequence]
  /\ replicationBatches' =
       [replicationBatches EXCEPT ![c] = @ \cup {Head(drained).sequence}]
  /\ UNCHANGED <<sessionState, pendingCommands, replicationMessages>>

\* receive_replication, any other payload: queue the raw envelope.
ReceiveDelta(c) ==
  /\ Head(drained).kind = "delta"
  /\ replicationMessages' =
       [replicationMessages EXCEPT ![c] = Append(@, Head(drained).sequence)]
  /\ UNCHANGED <<sessionState, pendingCommands, lastReplicationSequence,
                 replicationBatches>>

\* receive_server_disconnect: pending commands are given up.
ReceiveDisconnect(c) ==
  /\ Head(drained).kind = "disconnect"
  /\ sessionState' = [sessionState EXCEPT ![c] = "disconnected"]
  /\ pendingCommands' = [pendingCommands EXCEPT ![c] = {}]
  /\ UNCHANGED <<lastReplicationSequence, replicationBatches, replicationMessages>>

\* One iteration of ClientRuntime::receive whose message is accepted.
ReceiveMessage ==
  /\ receiver # NoClient
  /\ drained # <<>>
  /\ Acceptable(receiver, Head(drained))
  /\ \/ ReceiveWelcome(receiver)
     \/ ReceiveCommandResult(receiver)
     \/ ReceiveWorldEvents(receiver)
     \/ ReceiveDelta(receiver)
     \/ ReceiveDisconnect(receiver)
  /\ drained' = Tail(drained)
  /\ UNCHANGED <<nextCommandSequence, receiver, faulted, discardedDeltas>>

\* Faulty variant: the loop ends without the session's fault.
RejectMessageQuietly ==
  /\ receiver # NoClient
  /\ drained # <<>>
  /\ ~Acceptable(receiver, Head(drained))
  /\ receiver' = NoClient
  /\ drained' = <<>>
  /\ UNCHANGED <<sessionState, nextCommandSequence, pendingCommands,
                 lastReplicationSequence, replicationBatches,
                 replicationMessages, faulted, discardedDeltas>>

\* The first message with an error ends the loop, the rest of the vector is
\* lost and the session faults (RuntimeSession::fault_frame).
RejectMessage ==
  /\ receiver # NoClient
  /\ drained # <<>>
  /\ ~Acceptable(receiver, Head(drained))
  /\ faulted' = [faulted EXCEPT ![receiver] = TRUE]
  /\ receiver' = NoClient
  /\ drained' = <<>>
  /\ UNCHANGED <<sessionState, nextCommandSequence, pendingCommands,
                 lastReplicationSequence, replicationBatches,
                 replicationMessages, discardedDeltas>>

-----------------------------------------------------------------------------
QueuedDeltas(c) == {replicationMessages[c][i] : i \in DOMAIN replicationMessages[c]}

HasDuplicateDelta(c) ==
  \E i, j \in DOMAIN replicationMessages[c] :
    i < j /\ replicationMessages[c][i] = replicationMessages[c][j]

\* apply_client_queued_replication_deltas: both queues are drained whole; a
\* batch without its delta and a delta without its batch are dropped.  Two
\* deltas with one sequence are an error, found before the batches are drained.
Synchronize ==
  /\ receiver # NoClient
  /\ drained = <<>>
  /\ replicationMessages' = [replicationMessages EXCEPT ![receiver] = <<>>]
  /\ \/ /\ ~HasDuplicateDelta(receiver)
        /\ replicationBatches' = [replicationBatches EXCEPT ![receiver] = {}]
        /\ discardedDeltas' = [discardedDeltas EXCEPT ![receiver] =
                                 @ \cup (QueuedDeltas(receiver) \ replicationBatches[receiver])]
        /\ faulted' = faulted
     \/ /\ HasDuplicateDelta(receiver)
        /\ faulted' = [faulted EXCEPT ![receiver] = TRUE]
        /\ UNCHANGED <<replicationBatches, discardedDeltas>>
  /\ receiver' = NoClient
  /\ UNCHANGED <<sessionState, nextCommandSequence, pendingCommands,
                 lastReplicationSequence, drained>>
=============================================================================
