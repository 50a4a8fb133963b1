--------------------------- MODULE CommandUplink ---------------------------
(***************************************************************************)
(* Commands of one client on their way to the server through the datagram  *)
(* transport (PosixDatagramTransportHost): the client's tracker, the       *)
(* server's duplicate suppression and its command sequencer.               *)
(***************************************************************************)
EXTENDS CommandSequencer, TransportConfig

CONSTANT
  LastCommand         \* bound: the last command the client creates

ASSUME UplinkAssumption == LastCommand \in 0 .. MaxSequence

VARIABLES
  attempts, datagrams, acks, received, dropped,    \* of the channel
  connected,          \* ClientEndpoint::connected
  nextCommand,        \* the number create_command uses next
  lastSent,           \* last_sent_reliable_command_sequence, 0 when none
  refused,            \* history: the commands whose send failed
  halted              \* RuntimeSession::fault_ is set: no frame runs any more

Up == INSTANCE ReliableChannel

uplinkVars == <<attempts, datagrams, acks, received, dropped>>
vars == <<sequencerVars, uplinkVars, connected, nextCommand, lastSent, refused, halted>>

Commands == 1 .. LastCommand

Init ==
  /\ SequencerInit
  /\ Up!ChannelInit
  /\ connected = TRUE
  /\ nextCommand = 1
  /\ lastSent = 0
  /\ refused = {}
  /\ halted = FALSE

\* send_client_to_server with the next command.  One that cannot be tracked or
\* sent has used up its number: create_command came first.
SendCommand ==
  /\ nextCommand <= LastCommand
  /\ nextCommand' = nextCommand + 1
  /\ \/ /\ connected
        /\ nextCommand > lastSent
        /\ Up!Send(nextCommand)
        /\ lastSent' = nextCommand
        /\ UNCHANGED refused
     \/ /\ \/ ~connected
           \/ nextCommand <= lastSent
           \/ ~Up!CanTrack(nextCommand)
           \/ SendsMayFail
        /\ refused' = refused \cup {nextCommand}
        /\ UNCHANGED <<uplinkVars, lastSent>>
  /\ UNCHANGED <<sequencerVars, connected, halted>>

\* poll_maintenance, for the client's tracker.
PollMaintenance(expired) ==
  /\ connected
  /\ Up!Poll(expired)
  /\ UNCHANGED <<sequencerVars, connected, nextCommand, lastSent, refused, halted>>

\* Faulty variant: the tick goes on with what poll_maintenance did.
PollFailsQuietly(expired, sent) ==
  /\ SendsMayFail
  /\ connected
  /\ Up!PollFailing(expired, sent)
  /\ UNCHANGED <<sequencerVars, connected, nextCommand, lastSent, refused, halted>>

\* A retransmission that cannot be sent ends poll_maintenance in the middle:
\* HostSession::tick fails and with it the frame and the session.
PollFails(expired, sent) ==
  /\ SendsMayFail
  /\ connected
  /\ Up!PollFailing(expired, sent)
  /\ halted' = TRUE
  /\ UNCHANGED <<sequencerVars, connected, nextCommand, lastSent, refused>>

\* Faulty variant: the acknowledgement goes out before preflight has its say.
ServerReceivesUnchecked(seq) ==
  /\ connected
  /\ Up!Accept(seq)
  /\ IF ~Up!IsDuplicate(seq) /\ Preflight(seq)
       THEN Sequence(seq)
       ELSE UNCHANGED sequencerVars
  /\ UNCHANGED <<connected, nextCommand, lastSent, refused, halted>>

\* drain_server_messages, one datagram of a connected client: a command the
\* sequencer cannot place is discarded without an acknowledgement, a duplicate
\* is acknowledged and discarded.
ServerReceives(seq) ==
  /\ connected
  /\ \/ /\ ~Preflight(seq)
        /\ Up!Discard(seq)
        /\ UNCHANGED sequencerVars
     \/ /\ Preflight(seq)
        /\ Up!Accept(seq)
        /\ IF Up!IsDuplicate(seq) THEN UNCHANGED sequencerVars ELSE Sequence(seq)
  /\ UNCHANGED <<connected, nextCommand, lastSent, refused, halted>>

\* drain_client_messages, one acknowledgement.
ClientAcknowledged(seq) ==
  /\ Up!AcceptAck(seq)
  /\ UNCHANGED <<sequencerVars, connected, nextCommand, lastSent, refused, halted>>

\* disconnect_client
DisconnectClient ==
  /\ connected
  /\ connected' = FALSE
  /\ ClearSequencer
  /\ UNCHANGED <<uplinkVars, nextCommand, lastSent, refused, halted>>

Next ==
  /\ ~halted
  /\ \/ SendCommand
     \/ \E expired \in (SUBSET DOMAIN attempts) \ {{}} :
          \/ PollMaintenance(expired)
          \/ \E sent \in SUBSET expired : PollFails(expired, sent)
     \/ \E seq \in Commands : ServerReceives(seq) \/ ClientAcknowledged(seq)
     \/ DisconnectClient

Spec == Init /\ [][Next]_vars

\* poll_maintenance runs in every tick of a session that has not failed, and
\* every retry delay ends.  Nothing is
\* assumed of the network.
Fairness == WF_vars(~halted /\ attempts # <<>> /\ PollMaintenance(DOMAIN attempts))

FairSpec == Spec /\ Fairness

-----------------------------------------------------------------------------
(* Properties.                                                             *)

TypeOK ==
  /\ SequencerTypeOK
  /\ Up!ChannelTypeOK(Commands)
  /\ connected \in BOOLEAN
  /\ nextCommand \in 1 .. LastCommand + 1
  /\ lastSent \in 0 .. LastCommand
  /\ refused \subseteq Commands
  /\ halted \in BOOLEAN

\* Commands the server has taken over, in the reorder buffer or for good.
Taken == reordered \cup {delivered[i] : i \in 1 .. Len(delivered)}

\* The server acknowledges a command only once it is certain to deliver it:
\* were a command the reorder window has no room for acknowledged, the client
\* would stop retrying and the gap would never close.
AcknowledgedIsKept == connected => acks \subseteq Taken

\* Every command the transport took is handed on by the server, unless it or
\* one before it is reported as dropped or could not be sent at all, or a failed
\* retransmission has ended the session: however many datagrams and
\* acknowledgements are lost, no command is lost in silence.
CommandSettled ==
  \A seq \in Commands :
    lastSent = seq ~> \/ \E i \in DOMAIN delivered : delivered[i] = seq
                      \/ \E lost \in dropped \cup refused : lost <= seq
                      \/ ~connected \/ halted
=============================================================================
