---------------------------- MODULE CommandLoop ----------------------------
(***************************************************************************)
(* A host session, its in-memory transport and the in-process clients      *)
(* (game::RuntimeSession): commands go up, results and replication come    *)
(* down.  Everything runs on one thread, so an operation starts only when  *)
(* neither a tick nor a receive loop is under way.                         *)
(***************************************************************************)
EXTENDS HostSession, ClientSession

vars == <<hostVars, clientVars>>

Init == HostInit /\ ClientInit

Quiescent == receiver = NoClient

\* RuntimeSession::initialize, and HostSession::start before it.
StartSession ==
  /\ Quiescent
  /\ Start
  /\ UNCHANGED clientVars

\* RuntimeSession::shutdown drops the clients with the server.
StopSession ==
  /\ Quiescent
  /\ Stop
  /\ ClientReset

ConnectClient ==
  /\ Quiescent
  /\ Connect
  /\ UNCHANGED clientVars

DisconnectClient ==
  /\ Quiescent
  /\ \E c \in Clients : Disconnect(c)
  /\ UNCHANGED clientVars

\* RuntimeSession::submit_command: create_command, then send_client_command.
\* A send that fails leaves the command created.
SubmitCommand ==
  /\ Quiescent
  /\ \E c \in Clients :
       /\ CreateCommand(c)
       /\ SendClientCommand(c, nextCommandSequence[c])

\* RuntimeSession::pump_client_messages up to the receive loop.
PumpClient(c) ==
  /\ BeginReceive(c, clientInbox[c])
  /\ DrainClient(c)

ReceiveStep ==
  /\ ReceiveMessage \/ RejectMessage \/ Synchronize
  /\ UNCHANGED hostVars

RunTick ==
  /\ Quiescent
  /\ TickBegin
  /\ UNCHANGED clientVars

ContinueTick ==
  /\ TickStep
  /\ UNCHANGED clientVars

Next ==
  \/ StartSession
  \/ StopSession
  \/ ConnectClient
  \/ DisconnectClient
  \/ SubmitCommand
  \/ \E c \in Clients : PumpClient(c)
  \/ ReceiveStep
  \/ RunTick
  \/ ContinueTick

Spec == Init /\ [][Next]_vars

\* RuntimeSession::run_frame runs a tick and then pumps the client, over and
\* over; both calls run to their end.  A send to a connected client does not
\* fail for ever.
Fairness ==
  /\ SF_vars(RunTick)
  /\ WF_vars(ContinueTick)
  /\ WF_vars(ReceiveStep)
  /\ \A c \in Clients :
       /\ SF_vars(PumpClient(c))
       /\ SF_vars(FlushSend(c) /\ UNCHANGED clientVars)

FairSpec == Spec /\ Fairness

\* The same program used so that a client is disconnected only when the server
\* has drained everything the client sent.
NothingInFlight(c) == \A i \in DOMAIN serverInbox : serverInbox[i].sender # c

NextClean ==
  Next /\ (\A c \in connected \ connected' : NothingInFlight(c) \/ hostState' = "stopped")

CleanFairSpec == Init /\ [][NextClean]_vars /\ Fairness

-----------------------------------------------------------------------------
(* Properties.                                                             *)

TypeOK == HostTypeOK /\ ClientTypeOK

\* What is on its way to a client, oldest first: the vector being received,
\* the transport inbox and, while the client is connected, the host's queue.
Downstream(c) ==
  (IF receiver = c THEN drained ELSE <<>>)
    \o clientInbox[c]
    \o (IF c \in connected THEN pendingOutbound[c] ELSE <<>>)

\* Commands on their way to the dispatcher, oldest first.
Upstream == inbound \o serverInbox

\* The receive loop never meets a message it must reject: no replayed event
\* batch, no result of an unknown command, nothing before the welcome or after
\* the disconnect notice, no second delta of one commit.  A fault would stop
\* the whole runtime session (RuntimeSession::fault_frame).
NoClientFault == \A c \in Clients : ~faulted[c]

\* Event batches reach a client in commit order, each once, whatever sends
\* failed and were retried in between (pending_outbound_ is a FIFO).
EventsInCommitOrder ==
  \A c \in Clients : \A i, j \in DOMAIN Downstream(c) :
    /\ i < j
    /\ Downstream(c)[i].kind = "world_events"
    /\ Downstream(c)[j].kind = "world_events"
    => Downstream(c)[i].sequence < Downstream(c)[j].sequence

\* A typed delta never overtakes the event batch it belongs to, though deltas
\* are sent directly and batches through the queue (send_replication_message).
DeltaAfterItsEvents ==
  \A c \in Clients : \A i, j \in DOMAIN Downstream(c) :
    /\ Downstream(c)[i].kind = "delta"
    /\ Downstream(c)[j].kind = "world_events"
    /\ Downstream(c)[i].sequence = Downstream(c)[j].sequence
    => j < i

\* Every command a connected client waits for is in exactly one place: on its
\* way to the dispatcher, or answered by one result on its way back.  So none
\* is lost, executed twice or answered twice by the retries.
CommandInOnePlace ==
  \A c \in connected : \A seq \in pendingCommands[c] :
    Cardinality({i \in DOMAIN Upstream :
                   Upstream[i] = [sender |-> c, sequence |-> seq]})
      + Cardinality({i \in DOMAIN Downstream(c) :
                       Downstream(c)[i] = CommandResult(seq)}) = 1

\* The dispatch loop takes each client's commands once, in the order they were
\* created and without a gap, whatever ticks were blocked in between: the next
\* one is always the successor of the last one handled.
CommandsHandledInOrder ==
  inbound # <<>> => Head(inbound).sequence = handled[Head(inbound).sender] + 1

\* Every committed mutation has a stream sequence of its own, the last one
\* included: when the 64-bit space is used up commits stop, and the counter
\* never wraps around to numbers already sent.
OneSequencePerCommit ==
  commits = IF nextReplicationSequence = 0 THEN MaxReplicationSequence
                                           ELSE nextReplicationSequence - 1

\* A connected client's command is answered in the end, whatever sends fail on
\* the way.
CommandAnswered ==
  \A c \in Clients : \A seq \in 1 .. MaxCommands :
    (c \in connected /\ seq \in pendingCommands[c])
      ~> (c \notin connected \/ seq \notin pendingCommands[c])

\* No typed delta is thrown away by the client that received it: it finds its
\* event batch waiting.
NoDeltaDiscarded == \A c \in Clients : discardedDeltas[c] = {}
=============================================================================
