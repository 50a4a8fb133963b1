---------------------------- MODULE HostSession ----------------------------
(***************************************************************************)
(* The server half: net::InMemoryTransportHost, net::HostSession and the   *)
(* replication phase of game::ServerRuntime::run_tick that follows         *)
(* HostSession::tick.                                                      *)
(*                                                                         *)
(* A tick is one call on one thread; its loops are unrolled into steps and *)
(* `phase' says which loop runs.  No other operation of the host happens   *)
(* unless phase is "idle":                                                 *)
(*   retry      flush_pending_outbound, before anything else               *)
(*   dispatch   the for loop over the drained inbound messages             *)
(*   deliver    flush_pending_outbound again                               *)
(*   replicate  send_replication_delta_snapshots_for_tick                  *)
(***************************************************************************)
EXTENDS NetMessages, FiniteSets

CONSTANTS
  MaxClients,             \* InMemoryTransportHostConfig::max_clients
  MaxReplicationSequence, \* bound: stands for the largest uint64
  SendsMayFail            \* whether the transport may refuse a valid send

ASSUME HostAssumption ==
  /\ MaxClients \in Nat
  /\ MaxReplicationSequence \in Nat \ {0}
  /\ SendsMayFail \in BOOLEAN

VARIABLES
  \* InMemoryTransportHost
  connected,                \* clients_ entries whose connected flag is set
  nextClientId,             \* next_client_id_
  lastCommandSequence,      \* last_reliable_command_sequence, 0 when none
  serverInbox,              \* server_inbox_
  clientInbox,              \* ClientQueues::inbox
  \* HostSession
  hostState,                \* HostSessionState
  pendingOutbound,          \* pending_outbound_, <<>> when no entry
  nextReplicationSequence,  \* next_replication_sequence_, 0 once exhausted
  \* the running tick
  phase,                    \* which loop of the tick runs, "idle" for none
  inbound,                  \* messages of the dispatch loop not yet visited
  toFlush,                  \* entries of pending_outbound_ not yet visited
  outgoingDeltas,           \* deltas of this tick's reports not yet sent
  \* history
  handled,                  \* newest command of each client dispatched or refused
  commits                   \* world mutations committed

transportVars == <<connected, nextClientId, lastCommandSequence, serverInbox,
                   clientInbox>>
tickVars == <<phase, inbound, toFlush, outgoingDeltas>>
hostVars == <<transportVars, hostState, pendingOutbound,
              nextReplicationSequence, tickVars, handled, commits>>

Phases == {"idle", "retry", "dispatch", "deliver", "replicate"}

HostTypeOK ==
  /\ connected \in SUBSET Clients
  /\ nextClientId \in Nat
  /\ lastCommandSequence \in [Clients -> Nat]
  /\ serverInbox \in Seq(Command)
  /\ clientInbox \in [Clients -> Seq(Message)]
  /\ hostState \in {"stopped", "running"}
  /\ pendingOutbound \in [Clients -> Seq(Message)]
  /\ nextReplicationSequence \in 0 .. MaxReplicationSequence
  /\ phase \in Phases
  /\ inbound \in Seq(Command)
  /\ toFlush \in SUBSET Clients
  /\ outgoingDeltas \in [Clients -> Seq(Nat)]
  /\ handled \in [Clients -> Nat]
  /\ commits \in Nat

\* A transport host as its constructor leaves it.
FreshTransport ==
  /\ connected' = {}
  /\ nextClientId' = FirstClientId
  /\ lastCommandSequence' = [c \in Clients |-> 0]
  /\ serverInbox' = <<>>
  /\ clientInbox' = [c \in Clients |-> <<>>]

HostInit ==
  /\ connected = {}
  /\ nextClientId = FirstClientId
  /\ lastCommandSequence = [c \in Clients |-> 0]
  /\ serverInbox = <<>>
  /\ clientInbox = [c \in Clients |-> <<>>]
  /\ hostState = "stopped"
  /\ pendingOutbound = [c \in Clients |-> <<>>]
  /\ nextReplicationSequence = 1
  /\ phase = "idle"
  /\ inbound = <<>>
  /\ toFlush = {}
  /\ outgoingDeltas = [c \in Clients |-> <<>>]
  /\ handled = [c \in Clients |-> 0]
  /\ commits = 0

-----------------------------------------------------------------------------
(* Session lifetime.                                                       *)

Idle == hostState = "running" /\ phase = "idle"

Start ==
  /\ hostState = "stopped"
  /\ hostState' = "running"
  /\ FreshTransport
  /\ pendingOutbound' = [c \in Clients |-> <<>>]
  /\ nextReplicationSequence' = 1
  /\ handled' = [c \in Clients |-> 0]
  /\ commits' = 0
  /\ UNCHANGED tickVars

Stop ==
  /\ Idle
  /\ hostState' = "stopped"
  /\ FreshTransport
  /\ pendingOutbound' = [c \in Clients |-> <<>>]
  /\ handled' = [c \in Clients |-> 0]
  /\ UNCHANGED <<nextReplicationSequence, tickVars, commits>>

\* connect_client: the transport allots the next id, the welcome follows; a
\* client whose welcome cannot be sent is disconnected again.
Connect ==
  /\ Idle
  /\ Cardinality(connected) < MaxClients
  /\ nextClientId \in Clients
  /\ nextClientId' = nextClientId + 1
  /\ \/ /\ connected' = connected \cup {nextClientId}
        /\ clientInbox' = [clientInbox EXCEPT ![nextClientId] = Append(@, Welcome)]
     \/ /\ SendsMayFail
        /\ UNCHANGED <<connected, clientInbox>>
  /\ UNCHANGED <<lastCommandSequence, serverInbox, hostState, pendingOutbound,
                 nextReplicationSequence, tickVars, handled, commits>>

\* disconnect_client: a best-effort notice, straight to the transport and
\* past whatever is still pending, which is then discarded.  What the client
\* had already sent stays in server_inbox_.
Disconnect(c) ==
  /\ Idle
  /\ c \in connected
  /\ connected' = connected \ {c}
  /\ \/ clientInbox' = [clientInbox EXCEPT ![c] = Append(@, DisconnectNotice)]
     \/ SendsMayFail /\ clientInbox' = clientInbox
  /\ pendingOutbound' = [pendingOutbound EXCEPT ![c] = <<>>]
  /\ UNCHANGED <<nextClientId, lastCommandSequence, serverInbox, hostState,
                 nextReplicationSequence, tickVars, handled, commits>>

\* send_client_command with a command create_command numbered `seq'.
SendClientCommand(c, seq) ==
  /\ Idle
  /\ \/ /\ c \in connected
        /\ seq > lastCommandSequence[c]
        /\ lastCommandSequence' = [lastCommandSequence EXCEPT ![c] = seq]
        /\ serverInbox' = Append(serverInbox, [sender |-> c, sequence |-> seq])
     \/ /\ c \notin connected \/ seq <= lastCommandSequence[c]
        /\ UNCHANGED <<lastCommandSequence, serverInbox>>
  /\ UNCHANGED <<connected, nextClientId, clientInbox, hostState, pendingOutbound,
                 nextReplicationSequence, tickVars, handled, commits>>

\* drain_client_messages; it also serves a client that was disconnected.
DrainClient(c) ==
  /\ Idle
  /\ clientInbox[c] # <<>>
  /\ clientInbox' = [clientInbox EXCEPT ![c] = <<>>]
  /\ UNCHANGED <<connected, nextClientId, lastCommandSequence, serverInbox,
                 hostState, pendingOutbound, nextReplicationSequence, tickVars,
                 handled, commits>>

-----------------------------------------------------------------------------
(* HostSession::tick.                                                      *)

Blocked == {c \in Clients : pendingOutbound[c] # <<>>}

TickBegin ==
  /\ Idle
  /\ phase' = "retry"
  /\ toFlush' = Blocked
  /\ UNCHANGED <<transportVars, hostState, pendingOutbound, inbound,
                 nextReplicationSequence, outgoingDeltas, handled, commits>>

\* flush_pending_outbound visits the map in client order.
FlushTurn(c) ==
  /\ phase \in {"retry", "deliver"}
  /\ c \in toFlush
  /\ \A d \in toFlush : c <= d
  /\ pendingOutbound[c] # <<>>

\* Faulty variant: the delivered front is not popped, so the retry sends it again.
FlushSendKeepingFront(c) ==
  /\ FlushTurn(c)
  /\ c \in connected
  /\ clientInbox' = [clientInbox EXCEPT ![c] = Append(@, Head(pendingOutbound[c]))]
  /\ toFlush' = toFlush \ {c}
  /\ UNCHANGED <<connected, nextClientId, lastCommandSequence, serverInbox,
                 hostState, pendingOutbound, nextReplicationSequence, phase,
                 inbound, outgoingDeltas, handled, commits>>

\* The front message goes out; an emptied entry is erased.
FlushSend(c) ==
  /\ FlushTurn(c)
  /\ c \in connected
  /\ clientInbox' = [clientInbox EXCEPT ![c] = Append(@, Head(pendingOutbound[c]))]
  /\ pendingOutbound' = [pendingOutbound EXCEPT ![c] = Tail(@)]
  /\ toFlush' = IF Tail(pendingOutbound[c]) = <<>> THEN toFlush \ {c} ELSE toFlush
  /\ UNCHANGED <<connected, nextClientId, lastCommandSequence, serverInbox,
                 hostState, nextReplicationSequence, phase, inbound,
                 outgoingDeltas, handled, commits>>

\* Faulty variant: the message whose send failed is popped all the same.
FlushFailLosingFront(c) ==
  /\ FlushTurn(c)
  /\ c \notin connected \/ SendsMayFail
  /\ pendingOutbound' = [pendingOutbound EXCEPT ![c] = Tail(@)]
  /\ toFlush' = toFlush \ {c}
  /\ UNCHANGED <<transportVars, hostState, phase, inbound,
                 nextReplicationSequence, outgoingDeltas, handled, commits>>

\* The send fails, always so for a client the transport no longer serves: the
\* rest of that client's queue waits for the next flush.
FlushFail(c) ==
  /\ FlushTurn(c)
  /\ c \notin connected \/ SendsMayFail
  /\ toFlush' = toFlush \ {c}
  /\ UNCHANGED <<transportVars, hostState, pendingOutbound, phase, inbound,
                 nextReplicationSequence, outgoingDeltas, handled, commits>>

\* Faulty variant: the drained messages also stay in the transport.
TickDrainKeepingInbox ==
  /\ phase = "retry"
  /\ toFlush = {}
  /\ Blocked = {}
  /\ inbound' = serverInbox
  /\ phase' = "dispatch"
  /\ UNCHANGED <<transportVars, hostState, pendingOutbound,
                 nextReplicationSequence, toFlush, outgoingDeltas, handled, commits>>

\* With everything delivered the inbound messages are drained ...
TickDrain ==
  /\ phase = "retry"
  /\ toFlush = {}
  /\ Blocked = {}
  /\ inbound' = serverInbox
  /\ serverInbox' = <<>>
  /\ phase' = "dispatch"
  /\ UNCHANGED <<connected, nextClientId, lastCommandSequence, clientInbox,
                 hostState, pendingOutbound, nextReplicationSequence, toFlush,
                 outgoingDeltas, handled, commits>>

\* ... and otherwise they stay in the transport and the tick returns.
TickBlocked ==
  /\ phase = "retry"
  /\ toFlush = {}
  /\ Blocked # {}
  /\ phase' = "idle"
  /\ UNCHANGED <<transportVars, hostState, pendingOutbound, inbound, toFlush,
                 nextReplicationSequence, outgoingDeltas, handled, commits>>

\* Faulty variants: no end of the sequence space, or a wrap to 1.
NextSequenceUnbounded(seq) == seq + 1
NextSequenceWrapping(seq) == IF seq = MaxReplicationSequence THEN 1 ELSE seq + 1

\* next_replication_sequence_ after one has been assigned.
NextSequence(seq) == IF seq = MaxReplicationSequence THEN 0 ELSE seq + 1

\* Faulty variant: output overtakes what is already queued.
QueueOutputInFront(c, seq, relevant) ==
  pendingOutbound' = [d \in Clients |->
      (IF d = c THEN <<CommandResult(seq)>> ELSE <<>>)
      \o (IF d \in relevant THEN <<WorldEvents(nextReplicationSequence)>> ELSE <<>>)
      \o pendingOutbound[d]]

\* queue_command_response and queue_replication of one report: `relevant' are
\* the clients that get its event batch (none when nothing was committed).
QueueOutput(c, seq, relevant) ==
  pendingOutbound' = [d \in Clients |->
    pendingOutbound[d]
      \o (IF d = c THEN <<CommandResult(seq)>> ELSE <<>>)
      \o (IF d \in relevant THEN <<WorldEvents(nextReplicationSequence)>> ELSE <<>>)]

\* dispatch_report rejects the command or runs one that commits nothing.
DispatchWithoutCommit ==
  /\ phase = "dispatch"
  /\ inbound # <<>>
  /\ nextReplicationSequence # 0
  /\ LET c   == Head(inbound).sender
         seq == Head(inbound).sequence
     IN  /\ QueueOutput(c, seq, {})
         /\ handled' = [handled EXCEPT ![c] = seq]
  /\ inbound' = Tail(inbound)
  /\ UNCHANGED <<transportVars, hostState, nextReplicationSequence, phase,
                 toFlush, outgoingDeltas, commits>>

\* dispatch_report commits a mutation with events; the batch goes to the
\* relevant connected clients, a typed delta later to those that need no
\* snapshot resync.
DispatchCommit(relevant, materialized) ==
  /\ phase = "dispatch"
  /\ inbound # <<>>
  /\ nextReplicationSequence # 0
  /\ relevant \subseteq connected
  /\ materialized \subseteq relevant
  /\ LET c   == Head(inbound).sender
         seq == Head(inbound).sequence
     IN  /\ QueueOutput(c, seq, relevant)
         /\ handled' = [handled EXCEPT ![c] = seq]
  /\ outgoingDeltas' = [d \in Clients |->
       IF d \in materialized THEN Append(outgoingDeltas[d], nextReplicationSequence)
                             ELSE outgoingDeltas[d]]
  /\ nextReplicationSequence' = NextSequence(nextReplicationSequence)
  /\ commits' = commits + 1
  /\ inbound' = Tail(inbound)
  /\ UNCHANGED <<transportVars, hostState, phase, toFlush>>

\* The sequence space is used up: the command is answered with an error and
\* never reaches the dispatcher.
RefuseExhausted ==
  /\ phase = "dispatch"
  /\ inbound # <<>>
  /\ nextReplicationSequence = 0
  /\ QueueOutput(Head(inbound).sender, Head(inbound).sequence, {})
  /\ handled' = [handled EXCEPT ![Head(inbound).sender] = Head(inbound).sequence]
  /\ inbound' = Tail(inbound)
  /\ UNCHANGED <<transportVars, hostState, nextReplicationSequence, phase,
                 toFlush, outgoingDeltas, commits>>

DispatchDone ==
  /\ phase = "dispatch"
  /\ inbound = <<>>
  /\ phase' = "deliver"
  /\ toFlush' = Blocked
  /\ UNCHANGED <<transportVars, hostState, pendingOutbound, inbound,
                 nextReplicationSequence, outgoingDeltas, handled, commits>>

DeliverDone ==
  /\ phase = "deliver"
  /\ toFlush = {}
  /\ phase' = "replicate"
  /\ UNCHANGED <<transportVars, hostState, pendingOutbound, inbound, toFlush,
                 nextReplicationSequence, outgoingDeltas, handled, commits>>

-----------------------------------------------------------------------------
(* The replication phase: send_replication_message of each typed delta.    *)

\* Faulty variant: a delta goes out past the client's queue.
SendDeltaDirectly(c) ==
  /\ phase = "replicate"
  /\ c \in connected
  /\ outgoingDeltas[c] # <<>>
  /\ outgoingDeltas' = [outgoingDeltas EXCEPT ![c] = Tail(@)]
  /\ clientInbox' = [clientInbox EXCEPT ![c] = Append(@, Delta(Head(outgoingDeltas[c])))]
  /\ UNCHANGED <<connected, nextClientId, lastCommandSequence, serverInbox,
                 hostState, pendingOutbound, nextReplicationSequence, phase,
                 inbound, toFlush, handled, commits>>

\* A message joins the client's queue when that is not empty or when the send
\* fails, and is never reported as failed.
SendDelta(c) ==
  /\ phase = "replicate"
  /\ c \in connected
  /\ outgoingDeltas[c] # <<>>
  /\ outgoingDeltas' = [outgoingDeltas EXCEPT ![c] = Tail(@)]
  /\ LET message == Delta(Head(outgoingDeltas[c]))
     IN  \/ /\ pendingOutbound[c] = <<>>
            /\ clientInbox' = [clientInbox EXCEPT ![c] = Append(@, message)]
            /\ UNCHANGED pendingOutbound
         \/ /\ pendingOutbound[c] # <<>> \/ SendsMayFail
            /\ pendingOutbound' = [pendingOutbound EXCEPT ![c] = Append(@, message)]
            /\ UNCHANGED clientInbox
  /\ UNCHANGED <<connected, nextClientId, lastCommandSequence, serverInbox,
                 hostState, nextReplicationSequence, phase, inbound, toFlush,
                 handled, commits>>

TickEnd ==
  /\ phase = "replicate"
  /\ \A c \in Clients : outgoingDeltas[c] = <<>>
  /\ phase' = "idle"
  /\ UNCHANGED <<transportVars, hostState, pendingOutbound, inbound, toFlush,
                 nextReplicationSequence, outgoingDeltas, handled, commits>>

\* The steps of a tick that has begun.
TickStep ==
  \/ \E c \in Clients : FlushSend(c) \/ FlushFail(c)
  \/ TickDrain
  \/ TickBlocked
  \/ DispatchWithoutCommit
  \/ \E relevant, materialized \in SUBSET connected :
       DispatchCommit(relevant, materialized)
  \/ RefuseExhausted
  \/ DispatchDone
  \/ DeliverDone
  \/ \E c \in Clients : SendDelta(c)
  \/ TickEnd
=============================================================================
