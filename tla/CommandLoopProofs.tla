------------------------- MODULE CommandLoopProofs -------------------------
(***************************************************************************)
(* Theorems about CommandLoop for every number of clients, commands and    *)
(* replication sequences.                                                  *)
(***************************************************************************)
EXTENDS CommandLoop, SequenceTheorems, FiniteSetTheorems, TLAPS

-----------------------------------------------------------------------------
(* Type correctness.                                                       *)

LEMMA ClientsAreNaturals ==
  /\ Clients \subseteq Nat \ {0}
  /\ FirstClientId \in Nat
  /\ NoClient \notin Clients
BY MaxClientIdAssumption DEF Clients, FirstClientId, NoClient

LEMMA MessageTypes ==
  /\ Welcome \in Message
  /\ DisconnectNotice \in Message
  /\ \A seq \in Nat : /\ CommandResult(seq) \in Message
                      /\ WorldEvents(seq) \in Message
                      /\ Delta(seq) \in Message
BY DEF Message, MessageKinds, ControlKinds, Welcome, DisconnectNotice,
       CommandResult, WorldEvents, Delta

LEMMA QueueOutputType ==
  ASSUME pendingOutbound \in [Clients -> Seq(Message)],
         nextReplicationSequence \in 0 .. MaxReplicationSequence,
         NEW c, NEW seq \in Nat, NEW relevant, QueueOutput(c, seq, relevant)
  PROVE  pendingOutbound' \in [Clients -> Seq(Message)]
<1>1. nextReplicationSequence \in Nat
  BY HostAssumption
<1>2. CommandResult(seq) \in Message /\ WorldEvents(nextReplicationSequence) \in Message
  BY <1>1, MessageTypes
<1>3. ASSUME NEW d \in Clients
      PROVE  pendingOutbound[d]
               \o (IF d = c THEN <<CommandResult(seq)>> ELSE <<>>)
               \o (IF d \in relevant THEN <<WorldEvents(nextReplicationSequence)>>
                                     ELSE <<>>) \in Seq(Message)
  <2>1. pendingOutbound[d] \in Seq(Message)
    OBVIOUS
  <2>2. (IF d = c THEN <<CommandResult(seq)>> ELSE <<>>) \in Seq(Message)
    BY <1>2
  <2>3. (IF d \in relevant THEN <<WorldEvents(nextReplicationSequence)>> ELSE <<>>)
          \in Seq(Message)
    BY <1>2
  <2>4. QED
    BY <2>1, <2>2, <2>3, ConcatProperties
<1>4. QED
  BY <1>3 DEF QueueOutput

\* What a step of the host alone preserves.
LEMMA HostStepType ==
  ASSUME HostTypeOK,
         \/ Start \/ Stop \/ Connect \/ TickBegin \/ TickStep
         \/ \E c \in Clients : Disconnect(c) \/ DrainClient(c)
         \/ \E c \in Clients, seq \in Nat : SendClientCommand(c, seq)
  PROVE  HostTypeOK'
<1> USE DEF HostTypeOK, transportVars, tickVars, Phases
<1>1. CASE Start
  BY <1>1, HostAssumption, ClientsAreNaturals DEF Start, FreshTransport
<1>2. CASE Stop
  BY <1>2, ClientsAreNaturals DEF Stop, FreshTransport
<1>3. CASE Connect
  <2>1. Append(clientInbox[nextClientId], Welcome) \in Seq(Message)
    BY <1>3, MessageTypes, AppendProperties DEF Connect
  <2>2. clientInbox' \in [Clients -> Seq(Message)]
    BY <1>3, <2>1 DEF Connect
  <2>3. connected' \in SUBSET Clients
    BY <1>3 DEF Connect
  <2>4. QED
    BY <1>3, <2>2, <2>3, SMTT(30) DEF Connect
<1>4. CASE TickBegin
  BY <1>4 DEF TickBegin, Blocked
<1>5. ASSUME NEW c \in Clients, Disconnect(c)
      PROVE  HostTypeOK'
  <2>1. Append(clientInbox[c], DisconnectNotice) \in Seq(Message)
    BY MessageTypes, AppendProperties
  <2>2. clientInbox' \in [Clients -> Seq(Message)]
    BY <1>5, <2>1 DEF Disconnect
  <2>3. connected' \in SUBSET Clients
    BY <1>5 DEF Disconnect
  <2>4. pendingOutbound' \in [Clients -> Seq(Message)]
    BY <1>5 DEF Disconnect
  <2>5. QED
    BY <1>5, <2>2, <2>3, <2>4 DEF Disconnect
<1>6. ASSUME NEW c \in Clients, DrainClient(c)
      PROVE  HostTypeOK'
  <2>1. <<>> \in Seq(Message)
    OBVIOUS
  <2>2. clientInbox' \in [Clients -> Seq(Message)]
    BY <1>6, <2>1 DEF DrainClient
  <2>3. QED
    BY <1>6, <2>2 DEF DrainClient
<1>7. ASSUME NEW c \in Clients, NEW seq \in Nat, SendClientCommand(c, seq)
      PROVE  HostTypeOK'
  <2>1. Append(serverInbox, [sender |-> c, sequence |-> seq]) \in Seq(Command)
    BY AppendProperties DEF Command
  <2>2. QED
    BY <1>7, <2>1 DEF SendClientCommand
<1>8. CASE TickStep
  <2>1. ASSUME NEW c \in Clients, FlushSend(c)
        PROVE  HostTypeOK'
    <3>1. pendingOutbound[c] # <<>>
      BY <2>1 DEF FlushSend, FlushTurn
    <3>2. /\ Head(pendingOutbound[c]) \in Message
          /\ Tail(pendingOutbound[c]) \in Seq(Message)
      BY <3>1, HeadTailProperties
    <3>3. clientInbox' \in [Clients -> Seq(Message)]
      BY <2>1, <3>2, AppendProperties DEF FlushSend
    <3>4. pendingOutbound' \in [Clients -> Seq(Message)]
      BY <2>1, <3>2 DEF FlushSend
    <3>5. toFlush' \in SUBSET Clients
      BY <2>1 DEF FlushSend
    <3>6. QED
      BY <2>1, <3>3, <3>4, <3>5 DEF FlushSend
  <2>2. ASSUME NEW c \in Clients, FlushFail(c)
        PROVE  HostTypeOK'
    BY <2>2 DEF FlushFail
  <2>3. CASE TickDrain
    BY <2>3 DEF TickDrain
  <2>4. CASE TickBlocked
    BY <2>4 DEF TickBlocked
  <2>5. ASSUME inbound # <<>>
        PROVE  /\ Head(inbound).sender \in Clients
               /\ Head(inbound).sequence \in Nat
               /\ Tail(inbound) \in Seq(Command)
    <3>1. Head(inbound) \in Command /\ Tail(inbound) \in Seq(Command)
      BY <2>5, HeadTailProperties
    <3>2. QED
      BY <3>1 DEF Command
  <2>6. CASE DispatchWithoutCommit
    <3>1. pendingOutbound' \in [Clients -> Seq(Message)]
      BY <2>5, <2>6, QueueOutputType DEF DispatchWithoutCommit
    <3>2. QED
      BY <2>5, <2>6, <3>1 DEF DispatchWithoutCommit
  <2>7. ASSUME NEW relevant \in SUBSET connected, NEW materialized \in SUBSET connected,
               DispatchCommit(relevant, materialized)
        PROVE  HostTypeOK'
    <3>1. pendingOutbound' \in [Clients -> Seq(Message)]
      BY <2>5, <2>7, QueueOutputType DEF DispatchCommit
    <3>2. nextReplicationSequence' \in 0 .. MaxReplicationSequence
      BY <2>7, HostAssumption DEF DispatchCommit, NextSequence
    <3>3. outgoingDeltas' \in [Clients -> Seq(Nat)]
      BY <2>7, AppendProperties DEF DispatchCommit
    <3>4. /\ handled' \in [Clients -> Nat]
          /\ commits' \in Nat
          /\ inbound' \in Seq(Command)
      BY <2>5, <2>7 DEF DispatchCommit
    <3>5. QED
      BY <2>7, <3>1, <3>2, <3>3, <3>4 DEF DispatchCommit
  <2>8. CASE RefuseExhausted
    <3>1. pendingOutbound' \in [Clients -> Seq(Message)]
      BY <2>5, <2>8, QueueOutputType DEF RefuseExhausted
    <3>2. QED
      BY <2>5, <2>8, <3>1 DEF RefuseExhausted
  <2>9. CASE DispatchDone
    BY <2>9 DEF DispatchDone, Blocked
  <2>10. CASE DeliverDone
    BY <2>10 DEF DeliverDone
  <2>11. ASSUME NEW c \in Clients, SendDelta(c)
         PROVE  HostTypeOK'
    <3> DEFINE message == Delta(Head(outgoingDeltas[c]))
    <3>1. message \in Message /\ Tail(outgoingDeltas[c]) \in Seq(Nat)
      BY <2>11, HeadTailProperties, MessageTypes DEF SendDelta
    <3>2. /\ Append(clientInbox[c], message) \in Seq(Message)
          /\ Append(pendingOutbound[c], message) \in Seq(Message)
      BY <3>1, AppendProperties
    <3> HIDE DEF message
    <3>3. clientInbox' \in [Clients -> Seq(Message)]
      BY <2>11, <3>2 DEF SendDelta, message
    <3>4. pendingOutbound' \in [Clients -> Seq(Message)]
      BY <2>11, <3>2 DEF SendDelta, message
    <3>5. QED
      BY <2>11, <3>1, <3>3, <3>4 DEF SendDelta
  <2>12. CASE TickEnd
    BY <2>12 DEF TickEnd
  <2>13. QED
    BY <1>8, <2>1, <2>2, <2>3, <2>4, <2>6, <2>7, <2>8, <2>9, <2>10, <2>11, <2>12
    DEF TickStep
<1>9. QED
  BY <1>1, <1>2, <1>3, <1>4, <1>5, <1>6, <1>7, <1>8

\* What a step of the client endpoints alone preserves.
LEMMA ClientStepType ==
  ASSUME ClientTypeOK,
         \/ ClientReset \/ ReceiveMessage \/ RejectMessage \/ Synchronize
         \/ \E c \in Clients : CreateCommand(c)
         \/ \E c \in Clients, messages \in Seq(Message) : BeginReceive(c, messages)
  PROVE  ClientTypeOK'
<1> USE DEF ClientTypeOK
<1>1. CASE ClientReset
  BY <1>1 DEF ClientReset
<1>2. CASE \E c \in Clients : CreateCommand(c)
  BY <1>2, SMTT(30) DEF CreateCommand
<1>3. CASE \E c \in Clients, messages \in Seq(Message) : BeginReceive(c, messages)
  BY <1>3 DEF BeginReceive
<1>4. CASE ReceiveMessage
  <2>1. /\ Head(drained).sequence \in Nat
        /\ Tail(drained) \in Seq(Message)
        /\ receiver \in Clients
    <3>1. receiver \in Clients /\ drained # <<>>
      BY <1>4 DEF ReceiveMessage
    <3>2. Head(drained) \in Message /\ Tail(drained) \in Seq(Message)
      BY <3>1, HeadTailProperties
    <3>3. QED
      BY <3>1, <3>2 DEF Message
  <2>2. CASE ReceiveWelcome(receiver)
    BY <1>4, <2>1, <2>2 DEF ReceiveMessage, ReceiveWelcome
  <2>3. CASE ReceiveCommandResult(receiver)
    BY <1>4, <2>1, <2>3 DEF ReceiveMessage, ReceiveCommandResult
  <2>4. CASE ReceiveWorldEvents(receiver)
    BY <1>4, <2>1, <2>4 DEF ReceiveMessage, ReceiveWorldEvents
  <2>5. CASE ReceiveDelta(receiver)
    BY <1>4, <2>1, <2>5 DEF ReceiveMessage, ReceiveDelta
  <2>6. CASE ReceiveDisconnect(receiver)
    BY <1>4, <2>1, <2>6 DEF ReceiveMessage, ReceiveDisconnect
  <2>7. QED
    BY <1>4, <2>2, <2>3, <2>4, <2>5, <2>6 DEF ReceiveMessage
<1>5. CASE RejectMessage
  BY <1>5 DEF RejectMessage
<1>6. CASE Synchronize
  <2>1. receiver \in Clients
    BY <1>6 DEF Synchronize
  <2>2. QueuedDeltas(receiver) \subseteq Nat
    BY <2>1, ElementOfSeq, LenProperties DEF QueuedDeltas
  <2>3. discardedDeltas[receiver]
          \cup (QueuedDeltas(receiver) \ replicationBatches[receiver]) \in SUBSET Nat
    BY <2>1, <2>2
  <2>4. discardedDeltas' \in [Clients -> SUBSET Nat]
    BY <1>6, <2>1, <2>3 DEF Synchronize
  <2>5. replicationMessages' \in [Clients -> Seq(Nat)]
    BY <1>6, <2>1 DEF Synchronize
  <2>6. replicationBatches' \in [Clients -> SUBSET Nat]
    BY <1>6, <2>1 DEF Synchronize
  <2>7. faulted' \in [Clients -> BOOLEAN]
    BY <1>6, <2>1 DEF Synchronize
  <2>8. QED
    BY <1>6, <2>4, <2>5, <2>6, <2>7 DEF Synchronize
<1>7. QED
  BY <1>1, <1>2, <1>3, <1>4, <1>5, <1>6

LEMMA TypeInit == Init => TypeOK
BY HostAssumption, ClientsAreNaturals
   DEF Init, HostInit, ClientInit, TypeOK, HostTypeOK, ClientTypeOK, Phases

LEMMA TypeStep == TypeOK /\ [Next]_vars => TypeOK'
<1> SUFFICES ASSUME TypeOK, [Next]_vars
             PROVE  TypeOK'
  OBVIOUS
<1> USE DEF TypeOK
<1>1. CASE StartSession
  BY <1>1, HostStepType DEF StartSession, clientVars, ClientTypeOK
<1>2. CASE StopSession
  BY <1>2, HostStepType, ClientStepType DEF StopSession
<1>3. CASE ConnectClient
  BY <1>3, HostStepType DEF ConnectClient, clientVars, ClientTypeOK
<1>4. CASE DisconnectClient
  BY <1>4, HostStepType DEF DisconnectClient, clientVars, ClientTypeOK
<1>5. CASE SubmitCommand
  BY <1>5, HostStepType, ClientStepType DEF SubmitCommand, ClientTypeOK
<1>6. CASE \E c \in Clients : PumpClient(c)
  BY <1>6, HostStepType, ClientStepType DEF PumpClient, HostTypeOK
<1>7. CASE ReceiveStep
  BY <1>7, ClientStepType DEF ReceiveStep, hostVars, transportVars, tickVars, HostTypeOK
<1>8. CASE RunTick
  BY <1>8, HostStepType DEF RunTick, clientVars, ClientTypeOK
<1>9. CASE ContinueTick
  BY <1>9, HostStepType DEF ContinueTick, clientVars, ClientTypeOK
<1>10. CASE UNCHANGED vars
  BY <1>10 DEF vars, hostVars, transportVars, tickVars, clientVars, HostTypeOK,
               ClientTypeOK, Phases
<1>11. QED
  BY <1>1, <1>2, <1>3, <1>4, <1>5, <1>6, <1>7, <1>8, <1>9, <1>10 DEF Next

\* Every variable keeps its type: in particular the replication sequence stays
\* within its width and every queue holds messages.
THEOREM TypeCorrect == Spec => []TypeOK
BY TypeInit, TypeStep, PTL DEF Spec

-----------------------------------------------------------------------------
(* One sequence per commit.                                                *)

LEMMA OneSequenceInit == Init => OneSequencePerCommit
BY DEF Init, HostInit, OneSequencePerCommit

LEMMA OneSequenceStep ==
  TypeOK /\ OneSequencePerCommit /\ [Next]_vars => OneSequencePerCommit'
<1> SUFFICES ASSUME TypeOK, OneSequencePerCommit, [Next]_vars
             PROVE  OneSequencePerCommit'
  OBVIOUS
<1>1. CASE StartSession
  BY <1>1 DEF StartSession, Start, OneSequencePerCommit
<1>2. ASSUME NEW relevant \in SUBSET connected, NEW materialized \in SUBSET connected,
             DispatchCommit(relevant, materialized)
      PROVE  OneSequencePerCommit'
  BY <1>2, HostAssumption
  DEF DispatchCommit, NextSequence, OneSequencePerCommit, TypeOK, HostTypeOK
<1>3. CASE UNCHANGED <<commits, nextReplicationSequence>>
  BY <1>3 DEF OneSequencePerCommit
<1>4. CASE ContinueTick
  <2>1. ASSUME NEW c \in Clients, FlushSend(c) \/ FlushFail(c) \/ SendDelta(c)
        PROVE  UNCHANGED <<commits, nextReplicationSequence>>
    BY <2>1 DEF FlushSend, FlushFail, SendDelta
  <2>2. CASE \/ TickDrain \/ TickBlocked \/ DispatchWithoutCommit \/ RefuseExhausted
             \/ DispatchDone \/ DeliverDone \/ TickEnd
    BY <2>2, <1>3 DEF TickDrain, TickBlocked, DispatchWithoutCommit, RefuseExhausted,
                      DispatchDone, DeliverDone, TickEnd
  <2>3. QED
    BY <1>2, <1>3, <1>4, <2>1, <2>2 DEF ContinueTick, TickStep
<1>5. CASE \/ StopSession \/ ConnectClient \/ DisconnectClient \/ SubmitCommand
           \/ \E c \in Clients : PumpClient(c)
           \/ ReceiveStep \/ RunTick \/ UNCHANGED vars
  BY <1>3, <1>5 DEF StopSession, Stop, ConnectClient, Connect, DisconnectClient,
     Disconnect, SubmitCommand, SendClientCommand, PumpClient, DrainClient,
     ReceiveStep, RunTick, TickBegin, vars, hostVars
<1>6. QED
  BY <1>1, <1>4, <1>5 DEF Next

\* However many mutations are committed, each has a stream sequence of its own
\* and none is reused when the sequence space ends.
THEOREM SequencesAreNotReused == Spec => []OneSequencePerCommit
BY TypeCorrect, OneSequenceInit, OneSequenceStep, PTL DEF Spec

-----------------------------------------------------------------------------
(***************************************************************************)
(* The dispatch loop handles every client's commands once, in order and    *)
(* without a gap.                                                          *)
(*                                                                         *)
(* The inductive invariant says of the commands on their way (Upstream)    *)
(* that each client's are numbered handled + 1 .. lastCommandSequence,     *)
(* increasing from the front.  To extend that run by a new command the     *)
(* client's own counter must be one ahead of the transport's while the     *)
(* client is connected, and a client id that was not yet handed out must   *)
(* have no past.                                                           *)
(***************************************************************************)

\* The commands in `queue' are, client by client, the run from h + 1 to l.
UnbrokenRun(queue, h, l) ==
  /\ \A c \in Clients : h[c] <= l[c]
  /\ \A i \in 1 .. Len(queue) :
       h[queue[i].sender] < queue[i].sequence /\ queue[i].sequence <= l[queue[i].sender]
  /\ \A i, j \in 1 .. Len(queue) :
       i < j /\ queue[i].sender = queue[j].sender => queue[i].sequence < queue[j].sequence
  /\ \A c \in Clients : \A n \in Nat :
       h[c] < n /\ n <= l[c] =>
         \E i \in 1 .. Len(queue) : queue[i].sender = c /\ queue[i].sequence = n

NewSession(c) ==              \* the state of a client that has no past
  /\ sessionState[c] = "disconnected"
  /\ nextCommandSequence[c] = 1
  /\ lastCommandSequence[c] = 0
  /\ clientInbox[c] = <<>>
  /\ receiver # c

OrderInv ==
  /\ phase # "dispatch" => inbound = <<>>
  /\ hostState = "stopped" =>
       /\ phase = "idle"
       /\ connected = {}
       /\ receiver = NoClient
       /\ \A c \in Clients : NewSession(c)
  /\ \A c \in connected : c < nextClientId
  /\ \A c \in Clients : c >= nextClientId => NewSession(c)
  /\ \A c \in Clients : lastCommandSequence[c] < nextCommandSequence[c]
  /\ \A c \in connected : nextCommandSequence[c] = lastCommandSequence[c] + 1
  /\ UnbrokenRun(Upstream, handled, lastCommandSequence)

-----------------------------------------------------------------------------
LEMMA CommandFields ==
  ASSUME NEW queue \in Seq(Command), NEW i \in 1 .. Len(queue)
  PROVE  queue[i].sender \in Clients /\ queue[i].sequence \in Nat
<1>1. queue[i] \in Command
  BY ElementOfSeq
<1>2. QED
  BY <1>1 DEF Command

LEMMA TailOfRun ==
  ASSUME NEW queue \in Seq(Command), queue # <<>>,
         NEW h \in [Clients -> Nat], NEW l \in [Clients -> Nat],
         UnbrokenRun(queue, h, l)
  PROVE  /\ Head(queue).sequence = h[Head(queue).sender] + 1
         /\ UnbrokenRun(Tail(queue), [h EXCEPT ![Head(queue).sender] = Head(queue).sequence], l)
<1> DEFINE c == Head(queue).sender
           n == Head(queue).sequence
<1>1. /\ Len(queue) \in Nat /\ Len(queue) > 0
      /\ Head(queue) = queue[1]
      /\ Len(Tail(queue)) = Len(queue) - 1
      /\ \A i \in 1 .. Len(Tail(queue)) : Tail(queue)[i] = queue[i + 1]
  BY HeadTailProperties, EmptySeq, LenProperties
<1>2. c \in Clients /\ n \in Nat
  BY <1>1, CommandFields
<1>3. \A i \in 1 .. Len(queue) : queue[i].sender \in Clients /\ queue[i].sequence \in Nat
  BY CommandFields
<1> HIDE DEF c, n
<1>4. queue[1].sender = c /\ queue[1].sequence = n
  BY <1>1 DEF c, n
<1>5. n = h[c] + 1
  <2>1. h[c] < n /\ n <= l[c]
    BY <1>1, <1>4 DEF UnbrokenRun
  <2>2. PICK i \in 1 .. Len(queue) : queue[i].sender = c /\ queue[i].sequence = h[c] + 1
    BY <1>2, <2>1 DEF UnbrokenRun
  <2>3. 1 < i => n < h[c] + 1
    BY <1>1, <1>4, <2>2 DEF UnbrokenRun
  <2>4. QED
    BY <1>1, <1>2, <1>4, <2>1, <2>2, <2>3
<1>6. UnbrokenRun(Tail(queue), [h EXCEPT ![c] = n], l)
  <2> DEFINE g == [h EXCEPT ![c] = n]
  <2>0. /\ g[c] = n
        /\ \A d \in Clients : d # c => g[d] = h[d]
    BY <1>2
  <2> HIDE DEF g
  <2>1. ASSUME NEW d \in Clients
        PROVE  g[d] <= l[d]
    BY <1>1, <1>4, <2>0 DEF UnbrokenRun
  <2>2. ASSUME NEW i \in 1 .. Len(Tail(queue))
        PROVE  /\ g[Tail(queue)[i].sender] < Tail(queue)[i].sequence
               /\ Tail(queue)[i].sequence <= l[Tail(queue)[i].sender]
    <3>1. i + 1 \in 1 .. Len(queue) /\ Tail(queue)[i] = queue[i + 1]
      BY <1>1
    <3>2. queue[i + 1].sender = c => n < queue[i + 1].sequence
      BY <1>1, <1>4, <3>1 DEF UnbrokenRun
    <3>3. QED
      BY <1>3, <2>0, <3>1, <3>2 DEF UnbrokenRun
  <2>3. ASSUME NEW i \in 1 .. Len(Tail(queue)), NEW j \in 1 .. Len(Tail(queue)),
               i < j, Tail(queue)[i].sender = Tail(queue)[j].sender
        PROVE  Tail(queue)[i].sequence < Tail(queue)[j].sequence
    <3>1. /\ i + 1 \in 1 .. Len(queue) /\ Tail(queue)[i] = queue[i + 1]
          /\ j + 1 \in 1 .. Len(queue) /\ Tail(queue)[j] = queue[j + 1]
          /\ i + 1 < j + 1
      BY <1>1, <2>3
    <3>2. QED
      BY <2>3, <3>1 DEF UnbrokenRun
  <2>4. ASSUME NEW d \in Clients, NEW k \in Nat, g[d] < k, k <= l[d]
        PROVE  \E i \in 1 .. Len(Tail(queue)) :
                 Tail(queue)[i].sender = d /\ Tail(queue)[i].sequence = k
    <3>1. h[d] < k
      BY <1>2, <1>5, <2>0, <2>4
    <3>2. PICK i \in 1 .. Len(queue) : queue[i].sender = d /\ queue[i].sequence = k
      BY <2>4, <3>1 DEF UnbrokenRun
    <3>3. i # 1
      BY <1>2, <1>4, <2>0, <2>4, <3>2
    <3>4. i - 1 \in 1 .. Len(Tail(queue)) /\ Tail(queue)[i - 1] = queue[i]
      BY <1>1, <3>3
    <3>5. QED
      BY <3>2, <3>4
  <2>5. QED
    BY <2>1, <2>2, <2>3, <2>4 DEF UnbrokenRun, g
<1>7. QED
  BY <1>5, <1>6 DEF c, n

LEMMA ExtensionOfRun ==
  ASSUME NEW queue \in Seq(Command), NEW c \in Clients,
         NEW h \in [Clients -> Nat], NEW l \in [Clients -> Nat],
         UnbrokenRun(queue, h, l)
  PROVE  UnbrokenRun(Append(queue, [sender |-> c, sequence |-> l[c] + 1]),
                     h, [l EXCEPT ![c] = l[c] + 1])
<1> DEFINE command == [sender |-> c, sequence |-> l[c] + 1]
           longer == Append(queue, command)
           m == [l EXCEPT ![c] = l[c] + 1]
<1>1. command \in Command
  BY DEF Command
<1>2. /\ Len(queue) \in Nat
      /\ Len(longer) = Len(queue) + 1
      /\ \A i \in 1 .. Len(queue) : longer[i] = queue[i]
      /\ longer[Len(queue) + 1] = command
  BY <1>1, AppendProperties, LenProperties
<1>3. /\ command.sender = c
      /\ command.sequence = l[c] + 1
      /\ m[c] = l[c] + 1
      /\ \A d \in Clients : d # c => m[d] = l[d]
      /\ \A d \in Clients : l[d] \in Nat /\ h[d] \in Nat /\ m[d] \in Nat /\ l[d] <= m[d]
  OBVIOUS
<1>4. \A i \in 1 .. Len(queue) : queue[i].sender \in Clients /\ queue[i].sequence \in Nat
  BY CommandFields
<1> HIDE DEF command, longer, m
<1>5. ASSUME NEW d \in Clients
      PROVE  h[d] <= m[d]
  BY <1>3 DEF UnbrokenRun
<1>6. ASSUME NEW i \in 1 .. Len(longer)
      PROVE  h[longer[i].sender] < longer[i].sequence /\ longer[i].sequence <= m[longer[i].sender]
  <2>1. CASE i \in 1 .. Len(queue)
    <3>1. longer[i] = queue[i] /\ queue[i].sender \in Clients
      BY <1>2, <1>4, <2>1
    <3>2. h[queue[i].sender] < queue[i].sequence /\ queue[i].sequence <= l[queue[i].sender]
      BY <2>1 DEF UnbrokenRun
    <3>3. l[queue[i].sender] <= m[queue[i].sender] /\ queue[i].sequence \in Nat
      BY <1>3, <1>4, <2>1, <3>1
    <3>4. QED
      BY <1>3, <3>1, <3>2, <3>3
  <2>2. CASE i = Len(queue) + 1
    BY <1>2, <1>3, <2>2 DEF UnbrokenRun
  <2>3. QED
    BY <1>2, <2>1, <2>2
<1>7. ASSUME NEW i \in 1 .. Len(longer), NEW j \in 1 .. Len(longer),
             i < j, longer[i].sender = longer[j].sender
      PROVE  longer[i].sequence < longer[j].sequence
  <2>1. i \in 1 .. Len(queue)
    BY <1>2, <1>7
  <2>2. CASE j \in 1 .. Len(queue)
    BY <1>2, <1>7, <2>1, <2>2 DEF UnbrokenRun
  <2>3. CASE j = Len(queue) + 1
    <3>1. queue[i].sender = c /\ queue[i].sequence <= l[c]
      BY <1>2, <1>3, <1>7, <2>1, <2>3 DEF UnbrokenRun
    <3>2. longer[i] = queue[i] /\ longer[j] = command
      BY <1>2, <2>1, <2>3
    <3>3. queue[i].sequence \in Nat /\ l[c] \in Nat
      BY <1>3, <1>4, <2>1
    <3>4. QED
      BY <1>3, <3>1, <3>2, <3>3
  <2>4. QED
    BY <1>2, <2>2, <2>3
<1>8. ASSUME NEW d \in Clients, NEW n \in Nat, h[d] < n, n <= m[d]
      PROVE  \E i \in 1 .. Len(longer) : longer[i].sender = d /\ longer[i].sequence = n
  <2>1. CASE d = c /\ n = l[c] + 1
    BY <1>2, <1>3, <2>1
  <2>2. CASE ~(d = c /\ n = l[c] + 1)
    <3>1. n <= l[d]
      BY <1>3, <1>8, <2>2
    <3>2. PICK i \in 1 .. Len(queue) : queue[i].sender = d /\ queue[i].sequence = n
      BY <1>8, <3>1 DEF UnbrokenRun
    <3>3. QED
      BY <1>2, <3>2
  <2>3. QED
    BY <2>1, <2>2
<1>9. UnbrokenRun(longer, h, m)
  BY <1>5, <1>6, <1>7, <1>8 DEF UnbrokenRun
<1>10. QED
  BY <1>9 DEF longer, m, command

LEMMA EmptyRun ==
  UnbrokenRun(<<>>, [c \in Clients |-> 0], [c \in Clients |-> 0])
BY DEF UnbrokenRun

LEMMA UpstreamTail ==
  ASSUME HostTypeOK, inbound # <<>>
  PROVE  /\ Upstream \in Seq(Command)
         /\ Upstream # <<>>
         /\ Head(Upstream) = Head(inbound)
         /\ Tail(Upstream) = Tail(inbound) \o serverInbox
<1>1. inbound \in Seq(Command) /\ serverInbox \in Seq(Command)
  BY DEF HostTypeOK
<1>2. /\ Len(inbound) \in Nat \ {0}
      /\ Len(serverInbox) \in Nat
      /\ Len(Upstream) = Len(inbound) + Len(serverInbox)
      /\ Upstream \in Seq(Command)
      /\ \A i \in 1 .. Len(Upstream) :
           Upstream[i] = IF i <= Len(inbound) THEN inbound[i] ELSE serverInbox[i - Len(inbound)]
  BY <1>1, ConcatProperties, EmptySeq, LenProperties DEF Upstream
<1>3. Upstream # <<>>
  BY <1>2, EmptySeq
<1>4. Head(Upstream) = Head(inbound)
  BY <1>1, <1>2
<1>5. Tail(Upstream) = Tail(inbound) \o serverInbox
  <2> DEFINE s == Tail(Upstream)
             t == Tail(inbound) \o serverInbox
  <2>1. /\ s \in Seq(Command)
        /\ Len(s) = Len(inbound) + Len(serverInbox) - 1
        /\ \A i \in 1 .. Len(s) : s[i] = Upstream[i + 1]
    BY <1>2, <1>3, HeadTailProperties
  <2>2. /\ Tail(inbound) \in Seq(Command)
        /\ Len(Tail(inbound)) = Len(inbound) - 1
        /\ \A i \in 1 .. Len(inbound) - 1 : Tail(inbound)[i] = inbound[i + 1]
    BY <1>1, <1>2, HeadTailProperties
  <2>3. /\ t \in Seq(Command)
        /\ Len(t) = Len(inbound) - 1 + Len(serverInbox)
        /\ \A i \in 1 .. Len(t) :
             t[i] = IF i <= Len(inbound) - 1 THEN inbound[i + 1]
                                             ELSE serverInbox[i - (Len(inbound) - 1)]
    BY <1>1, <1>2, <2>2, ConcatProperties
  <2> HIDE DEF s, t
  <2>4. Len(s) = Len(t)
    BY <1>2, <2>1, <2>3
  <2>5. ASSUME NEW i \in 1 .. Len(s)
        PROVE  s[i] = t[i]
    <3>1. /\ i + 1 \in 1 .. Len(Upstream)
          /\ i + 1 - Len(inbound) = i - (Len(inbound) - 1)
          /\ i + 1 <= Len(inbound) <=> i <= Len(inbound) - 1
      BY <1>2, <2>1
    <3>2. s[i] = IF i + 1 <= Len(inbound) THEN inbound[i + 1]
                                          ELSE serverInbox[i + 1 - Len(inbound)]
      BY <1>2, <2>1, <3>1
    <3>3. t[i] = IF i <= Len(inbound) - 1 THEN inbound[i + 1]
                                          ELSE serverInbox[i - (Len(inbound) - 1)]
      BY <2>3, <2>4
    <3>4. QED
      BY <3>1, <3>2, <3>3
  <2>6. s = t
    BY <2>1, <2>3, <2>4, <2>5, SeqEqual
  <2>7. QED
    BY <2>6 DEF s, t
<1>6. QED
  BY <1>2, <1>3, <1>4, <1>5

\* A step that handles the front command keeps the run unbroken.
LEMMA DispatchKeepsRun ==
  ASSUME HostTypeOK, UnbrokenRun(Upstream, handled, lastCommandSequence),
         inbound # <<>>, inbound' = Tail(inbound),
         handled' = [handled EXCEPT ![Head(inbound).sender] = Head(inbound).sequence],
         UNCHANGED <<serverInbox, lastCommandSequence>>
  PROVE  UnbrokenRun(Upstream, handled, lastCommandSequence)'
<1>1. UnbrokenRun(Tail(Upstream), handled', lastCommandSequence)
  BY UpstreamTail, TailOfRun DEF HostTypeOK
<1>2. Upstream' = Tail(Upstream)
  BY UpstreamTail DEF Upstream
<1>3. QED
  BY <1>1, <1>2 DEF UnbrokenRun

LEMMA OrderInit == Init => OrderInv
<1> SUFFICES ASSUME Init PROVE OrderInv
  OBVIOUS
<1>1. Upstream = <<>>
  BY DEF Init, HostInit, Upstream
<1>2. UnbrokenRun(Upstream, handled, lastCommandSequence)
  BY <1>1, EmptyRun DEF Init, HostInit
<1>3. QED
  BY <1>2, ClientsAreNaturals DEF Init, HostInit, ClientInit, OrderInv, NewSession

\* The steps of a tick.
LEMMA OrderTick ==
  ASSUME TypeOK, OrderInv, ContinueTick
  PROVE  OrderInv'
<1> USE DEF OrderInv, NewSession, transportVars, tickVars, clientVars
<1>1. UNCHANGED clientVars /\ HostTypeOK /\ UnbrokenRun(Upstream, handled, lastCommandSequence)
  BY DEF ContinueTick, TypeOK
<1>2. ASSUME NEW c \in Clients, FlushSend(c) \/ SendDelta(c)
      PROVE  OrderInv'
  <2>1. /\ c \in connected
        /\ \A d \in Clients : d # c => clientInbox'[d] = clientInbox[d]
        /\ phase \notin {"idle", "dispatch"}
    BY <1>1, <1>2 DEF FlushSend, FlushTurn, SendDelta, HostTypeOK
  <2>2. UNCHANGED <<connected, nextClientId, lastCommandSequence, serverInbox,
                    hostState, phase, inbound, handled>>
    BY <1>2 DEF FlushSend, SendDelta
  <2>3. UNCHANGED Upstream
    BY <2>2 DEF Upstream
  <2>4. UnbrokenRun(Upstream, handled, lastCommandSequence)'
    BY <1>1, <2>2, <2>3 DEF UnbrokenRun
  <2>5. QED
    BY <1>1, <2>1, <2>2, <2>4, ClientsAreNaturals DEF HostTypeOK
<1>3. CASE \/ \E c \in Clients : FlushFail(c)
           \/ TickBlocked \/ DispatchDone \/ DeliverDone \/ TickEnd
  <2>1. UNCHANGED <<transportVars, hostState, inbound, handled>>
    BY <1>3 DEF FlushFail, TickBlocked, DispatchDone, DeliverDone, TickEnd
  <2>2. UNCHANGED Upstream
    BY <2>1 DEF Upstream
  <2>3. UnbrokenRun(Upstream, handled, lastCommandSequence)'
    BY <1>1, <2>1, <2>2 DEF UnbrokenRun
  <2>4. hostState # "stopped" /\ (phase' # "dispatch" => inbound' = <<>>)
    BY <1>3 DEF FlushFail, FlushTurn, TickBlocked, DispatchDone, DeliverDone, TickEnd
  <2>5. QED
    BY <1>1, <2>1, <2>3, <2>4
<1>4. CASE TickDrain
  <2>1. inbound = <<>> /\ hostState # "stopped"
    BY <1>4 DEF TickDrain
  <2>2. Upstream = serverInbox /\ Upstream' = serverInbox
    BY <1>1, <1>4, <2>1, ConcatEmptySeq DEF TickDrain, Upstream, HostTypeOK
  <2>3. UnbrokenRun(Upstream, handled, lastCommandSequence)'
    BY <1>1, <1>4, <2>2 DEF TickDrain, UnbrokenRun
  <2>4. QED
    BY <1>1, <1>4, <2>1, <2>3 DEF TickDrain
<1>5. CASE \/ DispatchWithoutCommit \/ RefuseExhausted
           \/ \E relevant, materialized \in SUBSET connected :
                DispatchCommit(relevant, materialized)
  <2>1. /\ UNCHANGED <<transportVars, hostState, phase>>
        /\ phase = "dispatch"
        /\ inbound # <<>>
        /\ inbound' = Tail(inbound)
        /\ handled' = [handled EXCEPT ![Head(inbound).sender] = Head(inbound).sequence]
    BY <1>5 DEF DispatchWithoutCommit, RefuseExhausted, DispatchCommit
  <2>2. UnbrokenRun(Upstream, handled, lastCommandSequence)'
    BY <1>1, <2>1, DispatchKeepsRun
  <2>3. QED
    BY <1>1, <2>1, <2>2
<1>6. QED
  BY <1>2, <1>3, <1>4, <1>5 DEF ContinueTick, TickStep

LEMMA OrderStep == TypeOK /\ OrderInv /\ [Next]_vars => OrderInv'
<1> SUFFICES ASSUME TypeOK, OrderInv, [Next]_vars
             PROVE  OrderInv'
  OBVIOUS
<1> USE DEF OrderInv, NewSession, transportVars, tickVars
<1>1. /\ HostTypeOK /\ ClientTypeOK
      /\ UnbrokenRun(Upstream, handled, lastCommandSequence)
      /\ nextClientId \in Nat
      /\ connected \subseteq Clients
      /\ \A c \in Clients : c \in Nat
  BY ClientsAreNaturals DEF TypeOK, HostTypeOK
<1>2. ASSUME UNCHANGED <<inbound, serverInbox, handled, lastCommandSequence>>
      PROVE  UnbrokenRun(Upstream, handled, lastCommandSequence)'
  <2>1. UNCHANGED Upstream
    BY <1>2 DEF Upstream
  <2>2. QED
    BY <1>1, <1>2, <2>1 DEF UnbrokenRun
<1>3. CASE StartSession
  <2>1. Upstream' = <<>>
    BY <1>3 DEF StartSession, Start, FreshTransport, Upstream
  <2>2. UnbrokenRun(Upstream, handled, lastCommandSequence)'
    BY <1>3, <2>1, EmptyRun DEF StartSession, Start, FreshTransport
  <2>3. QED
    BY <1>1, <1>3, <2>2 DEF StartSession, Start, FreshTransport, clientVars
<1>4. CASE StopSession
  <2>1. Upstream' = <<>>
    BY <1>4 DEF StopSession, Stop, Idle, FreshTransport, Upstream
  <2>2. UnbrokenRun(Upstream, handled, lastCommandSequence)'
    BY <1>4, <2>1, EmptyRun DEF StopSession, Stop, FreshTransport
  <2>3. QED
    BY <1>1, <1>4, <2>2, ClientsAreNaturals
    DEF StopSession, Stop, Idle, FreshTransport, ClientReset
<1>5. CASE ConnectClient
  <2>1. UnbrokenRun(Upstream, handled, lastCommandSequence)'
    BY <1>2, <1>5 DEF ConnectClient, Connect
  <2>2. /\ nextClientId \in Clients
        /\ \A c \in Clients : c # nextClientId => clientInbox'[c] = clientInbox[c]
        /\ connected' \subseteq connected \cup {nextClientId}
    BY <1>1, <1>5 DEF ConnectClient, Connect, HostTypeOK
  <2>3. QED
    BY <1>1, <1>5, <2>1, <2>2 DEF ConnectClient, Connect, Idle, clientVars
<1>6. ASSUME NEW c \in Clients, Disconnect(c), UNCHANGED clientVars
      PROVE  OrderInv'
  <2>1. UnbrokenRun(Upstream, handled, lastCommandSequence)'
    BY <1>2, <1>6 DEF Disconnect
  <2>2. /\ c < nextClientId
        /\ \A d \in Clients : d # c => clientInbox'[d] = clientInbox[d]
    BY <1>1, <1>6 DEF Disconnect, HostTypeOK
  <2>3. QED
    BY <1>1, <1>6, <2>1, <2>2 DEF Disconnect, Idle, clientVars
<1>7. ASSUME NEW c \in Clients, CreateCommand(c),
             SendClientCommand(c, nextCommandSequence[c])
      PROVE  OrderInv'
  <2>1. /\ c < nextClientId
        /\ nextCommandSequence' = [nextCommandSequence EXCEPT ![c] = @ + 1]
        /\ UNCHANGED <<sessionState, receiver>>
        /\ UNCHANGED <<connected, nextClientId, clientInbox, hostState, phase, inbound, handled>>
        /\ hostState # "stopped"
    BY <1>1, <1>7 DEF CreateCommand, SendClientCommand, Idle
  <2>2. /\ nextCommandSequence \in [Clients -> Nat]
        /\ lastCommandSequence \in [Clients -> Nat]
        /\ handled \in [Clients -> Nat]
        /\ serverInbox \in Seq(Command)
        /\ inbound \in Seq(Command)
    BY <1>1 DEF HostTypeOK, ClientTypeOK
  <2>3. CASE c \in connected
    <3> DEFINE command == [sender |-> c, sequence |-> lastCommandSequence[c] + 1]
    <3>1. /\ nextCommandSequence[c] = lastCommandSequence[c] + 1
          /\ lastCommandSequence' = [lastCommandSequence EXCEPT ![c] = lastCommandSequence[c] + 1]
          /\ serverInbox' = Append(serverInbox, command)
      BY <1>7, <2>2, <2>3 DEF SendClientCommand
    <3>2. command \in Command
      BY <2>2 DEF Command
    <3> HIDE DEF command
    <3>3. Upstream' = Append(Upstream, command)
      BY <2>1, <2>2, <3>1, <3>2 DEF Upstream
    <3>4. Upstream \in Seq(Command)
      BY <2>2, ConcatProperties DEF Upstream
    <3>5. UnbrokenRun(Append(Upstream, command), handled, lastCommandSequence')
      BY <1>1, <2>2, <3>1, <3>4, ExtensionOfRun DEF command
    <3>6. UnbrokenRun(Upstream, handled, lastCommandSequence)'
      BY <2>1, <3>3, <3>5 DEF UnbrokenRun
    <3>7. QED
      BY <1>1, <2>1, <2>2, <3>1, <3>6
  <2>4. CASE c \notin connected
    <3>1. UNCHANGED <<lastCommandSequence, serverInbox>>
      BY <1>7, <2>4 DEF SendClientCommand
    <3>2. UnbrokenRun(Upstream, handled, lastCommandSequence)'
      BY <1>2, <2>1, <3>1
    <3>3. QED
      BY <1>1, <2>1, <2>2, <2>4, <3>1, <3>2
  <2>5. QED
    BY <2>3, <2>4
<1>8. ASSUME NEW c \in Clients, PumpClient(c)
      PROVE  OrderInv'
  <2>1. UnbrokenRun(Upstream, handled, lastCommandSequence)'
    BY <1>2, <1>8 DEF PumpClient, DrainClient, tickVars
  <2>2. /\ c < nextClientId
        /\ \A d \in Clients : d # c => clientInbox'[d] = clientInbox[d]
        /\ receiver' = c
    BY <1>1, <1>8 DEF PumpClient, DrainClient, BeginReceive, HostTypeOK
  <2>3. QED
    BY <1>1, <1>8, <2>1, <2>2 DEF PumpClient, DrainClient, BeginReceive, Idle
<1>9. CASE ReceiveStep
  <2>1. UNCHANGED hostVars
    BY <1>9 DEF ReceiveStep
  <2>2. UnbrokenRun(Upstream, handled, lastCommandSequence)'
    BY <1>2, <2>1 DEF hostVars
  <2>3. /\ receiver # NoClient
        /\ receiver' \in {receiver, NoClient}
        /\ UNCHANGED nextCommandSequence
        /\ \A c \in Clients : c # receiver => sessionState'[c] = sessionState[c]
    BY <1>1, <1>9 DEF ReceiveStep, ReceiveMessage, ReceiveWelcome, ReceiveCommandResult,
       ReceiveWorldEvents, ReceiveDelta, ReceiveDisconnect, RejectMessage, Synchronize,
       ClientTypeOK
  <2>4. QED
    BY <1>1, <2>1, <2>2, <2>3, ClientsAreNaturals DEF hostVars
<1>10. CASE RunTick
  <2>1. UnbrokenRun(Upstream, handled, lastCommandSequence)'
    BY <1>2, <1>10 DEF RunTick, TickBegin
  <2>2. QED
    BY <1>1, <1>10, <2>1 DEF RunTick, TickBegin, Idle, clientVars
<1>11. CASE UNCHANGED vars
  <2>1. UnbrokenRun(Upstream, handled, lastCommandSequence)'
    BY <1>2, <1>11 DEF vars, hostVars
  <2>2. QED
    BY <1>1, <1>11, <2>1 DEF vars, hostVars, clientVars
<1>12. QED
  BY <1>3, <1>4, <1>5, <1>6, <1>7, <1>8, <1>9, <1>10, <1>11, OrderTick
  DEF Next, DisconnectClient, SubmitCommand

LEMMA OrderImplies == TypeOK /\ OrderInv => CommandsHandledInOrder
<1> SUFFICES ASSUME TypeOK, OrderInv, inbound # <<>>
             PROVE  Head(inbound).sequence = handled[Head(inbound).sender] + 1
  BY DEF CommandsHandledInOrder
<1>1. HostTypeOK /\ UnbrokenRun(Upstream, handled, lastCommandSequence)
  BY DEF TypeOK, OrderInv
<1>2. QED
  BY <1>1, UpstreamTail, TailOfRun DEF HostTypeOK

\* Blocked ticks, failed sends, disconnects and restarts notwithstanding, the
\* command the dispatch loop takes next is the successor of the client's last.
THEOREM CommandOrder == Spec => []CommandsHandledInOrder
BY TypeCorrect, OrderInit, OrderStep, OrderImplies, PTL DEF Spec

-----------------------------------------------------------------------------
(***************************************************************************)
(* What reaches a client, for any number of clients, commands and commits: *)
(* event batches in commit order and before the deltas of their commits,   *)
(* exactly one result for every command, and nothing the receive loop must *)
(* reject.                                                                 *)
(*                                                                         *)
(* The four promises depend on each other.  The receive loop rejects a     *)
(* batch unless batches come in order, a result unless it is one of a      *)
(* pending command, and two deltas of one commit.  So the inductive        *)
(* invariant speaks of a client's whole stream, Downstream(c), together    *)
(* with what the client has already taken from it and with what the        *)
(* running tick has yet to put into it: every kind of message is numbered  *)
(* upwards, from what the client has seen to what the host has committed   *)
(* or handled.                                                             *)
(***************************************************************************)

\* The messages of one kind in `s' bear increasing numbers, above `low' and up
\* to `high'.
Numbered(s, kind, low, high) ==
  /\ low <= high
  /\ \A i \in 1 .. Len(s) :
       s[i].kind = kind => low < s[i].sequence /\ s[i].sequence <= high
  /\ \A i, j \in 1 .. Len(s) :
       i < j /\ s[i].kind = kind /\ s[j].kind = kind => s[i].sequence < s[j].sequence

\* The same of a sequence of numbers.
Rising(q, low, high) ==
  /\ low <= high
  /\ \A i \in 1 .. Len(q) : low < q[i] /\ q[i] <= high
  /\ \A i, j \in 1 .. Len(q) : i < j => q[i] < q[j]

\* A stream opens with the welcome, which the client has not read while its
\* session is disconnected, and only the disconnect notice ends it.
Framed(s, state, link) ==
  /\ \A i \in 1 .. Len(s) : s[i].kind = "welcome" <=> i = 1 /\ state = "disconnected"
  /\ \A i \in 1 .. Len(s) : s[i].kind = "disconnect" => i = Len(s) /\ link = "closed"
  /\ link = "open" /\ state = "disconnected" => s # <<>>

\* No delta is before the event batch of its commit.
BatchesFirst(s) ==
  \A i, j \in 1 .. Len(s) :
    s[i].kind = "delta" /\ s[j].kind = "world_events" /\ s[i].sequence = s[j].sequence
    => j < i

\* The deltas a client holds (m), those on their way (s) and those of the
\* running tick (q) are numbered upwards through the three, up to `high'.
DeltasRise(s, m, q, high) ==
  \E a, b \in Nat :
    Rising(m, 0, a) /\ Numbered(s, "delta", a, b) /\ Rising(q, b, high)

\* Each result on its way answers a pending command; while the client is
\* connected, its pending commands are those and the ones not yet handled,
\* numbered h + 1 .. l.
Answers(s, waiting, link, h, l) ==
  /\ Numbered(s, "command_result", 0, h)
  /\ \A i \in 1 .. Len(s) : s[i].kind = "command_result" => s[i].sequence \in waiting
  /\ link = "open" =>
       /\ \A n \in waiting :
            (h < n /\ n <= l) \/ \E i \in 1 .. Len(s) : s[i] = CommandResult(n)
       /\ (h + 1) .. l \subseteq waiting

Link(c) == IF c \in connected THEN "open" ELSE "closed"

StreamIsSound(c) ==
  /\ Framed(Downstream(c), sessionState[c], Link(c))
  /\ Numbered(Downstream(c), "world_events", lastReplicationSequence[c], commits)
  /\ DeltasRise(Downstream(c), replicationMessages[c], outgoingDeltas[c], commits)
  /\ BatchesFirst(Downstream(c))
  /\ Answers(Downstream(c), pendingCommands[c], Link(c), handled[c],
             lastCommandSequence[c])
  /\ sessionState[c] = "disconnected" /\ Downstream(c) # <<>> => lastCommandSequence[c] = 0
  /\ ~faulted[c]

\* What the host queues: results, event batches and deltas.
Output == [kind : MessageKinds \ ControlKinds, sequence : Nat]

DeliveryInv ==
  /\ \A c \in Clients : StreamIsSound(c)
  /\ \A c \in Clients : pendingOutbound[c] \in Seq(Output)
  /\ phase \in {"idle", "retry"} => \A c \in Clients : outgoingDeltas[c] = <<>>
  /\ \A c \in Clients :
       hostState = "stopped" =>
         lastReplicationSequence[c] = 0 /\ replicationMessages[c] = <<>>
  /\ \A c \in Clients :
       c >= nextClientId \/ hostState = "stopped" =>
         pendingOutbound[c] = <<>> /\ pendingCommands[c] = {}

-----------------------------------------------------------------------------
(* Streams that grow at the end and shrink at the front.                   *)

LEMMA AppendIndex ==
  ASSUME NEW S, NEW s \in Seq(S), NEW m \in S
  PROVE  /\ Append(s, m) \in Seq(S)
         /\ Len(s) \in Nat
         /\ Len(Append(s, m)) = Len(s) + 1
         /\ \A i \in 1 .. Len(s) + 1 : Append(s, m)[i] = IF i <= Len(s) THEN s[i] ELSE m
BY AppendProperties, LenProperties

LEMMA TailIndex ==
  ASSUME NEW S, NEW s \in Seq(S), s # <<>>
  PROVE  /\ Tail(s) \in Seq(S)
         /\ Len(s) \in Nat \ {0}
         /\ Head(s) = s[1]
         /\ Len(Tail(s)) = Len(s) - 1
         /\ \A i \in 1 .. Len(s) - 1 : Tail(s)[i] = s[i + 1]
BY HeadTailProperties, EmptySeq, LenProperties

LEMMA PrefixIndex ==
  ASSUME NEW S, NEW p \in Seq(S), NEW q \in Seq(S)
  PROVE  /\ Len(p) \in Nat /\ Len(q) \in Nat
         /\ Len(p \o q) = Len(p) + Len(q)
         /\ \A i \in 1 .. Len(p) : i \in 1 .. Len(p \o q) /\ (p \o q)[i] = p[i]
BY ConcatProperties, LenProperties

LEMMA StreamsJoin ==
  ASSUME NEW x \in Seq(Message), NEW y \in Seq(Message)
  PROVE  /\ x \o y \in Seq(Message)
         /\ Len(x) \in Nat /\ Len(y) \in Nat
         /\ Len(x \o y) = Len(x) + Len(y)
         /\ \A i \in 1 .. Len(x) + Len(y) :
              (x \o y)[i] = IF i <= Len(x) THEN x[i] ELSE y[i - Len(x)]
BY ConcatProperties, LenProperties

LEMMA MessageFields ==
  ASSUME NEW s \in Seq(Message)
  PROVE  \A i \in 1 .. Len(s) : s[i].kind \in MessageKinds /\ s[i].sequence \in Nat
<1>1. \A i \in 1 .. Len(s) : s[i] \in Message
  BY ElementOfSeq
<1>2. QED
  BY <1>1 DEF Message

LEMMA StreamsAssociate ==
  ASSUME NEW x \in Seq(Message), NEW y \in Seq(Message), NEW z \in Seq(Message)
  PROVE  (x \o y) \o z = x \o (y \o z)
OBVIOUS

LEMMA HeadThenTail ==
  ASSUME NEW p \in Seq(Message), p # <<>>
  PROVE  p = <<Head(p)>> \o Tail(p)
<1> DEFINE h == <<Head(p)>>
           t == Tail(p)
<1>1. /\ Len(p) \in Nat \ {0}
      /\ Head(p) = p[1]
      /\ Head(p) \in Message
      /\ t \in Seq(Message)
      /\ Len(t) = Len(p) - 1
      /\ \A i \in 1 .. Len(p) - 1 : t[i] = p[i + 1]
  BY TailIndex, HeadTailProperties
<1>2. h \in Seq(Message) /\ Len(h) = 1 /\ h[1] = p[1]
  BY <1>1
<1> HIDE DEF h, t
<1>3. /\ h \o t \in Seq(Message)
      /\ Len(h \o t) = Len(p)
      /\ \A i \in 1 .. Len(p) : (h \o t)[i] = IF i <= 1 THEN h[i] ELSE t[i - 1]
  <2>1. /\ h \o t \in Seq(Message)
        /\ Len(h \o t) = Len(h) + Len(t)
        /\ \A i \in 1 .. Len(h) + Len(t) :
             (h \o t)[i] = IF i <= Len(h) THEN h[i] ELSE t[i - Len(h)]
    BY <1>1, <1>2, ConcatProperties
  <2>2. Len(h) + Len(t) = Len(p)
    BY <1>1, <1>2
  <2>3. QED
    BY <1>2, <2>1, <2>2
<1>4. ASSUME NEW i \in 1 .. Len(p)
      PROVE  p[i] = (h \o t)[i]
  <2>1. CASE i = 1
    BY <1>1, <1>2, <1>3, <2>1
  <2>2. CASE i # 1
    <3>1. i - 1 \in 1 .. Len(p) - 1 /\ (i - 1) + 1 = i
      BY <1>1, <2>2
    <3>2. t[i - 1] = p[i]
      BY <1>1, <3>1
    <3>3. QED
      BY <1>3, <2>2, <3>2, SMTT(30)
  <2>3. QED
    BY <2>1, <2>2
<1>5. p = h \o t
  BY <1>3, <1>4, SeqEqual
<1>6. QED
  BY <1>5 DEF h, t

LEMMA NumberedAppend ==
  ASSUME NEW s \in Seq(Message), NEW m \in Message, NEW kind,
         NEW low \in Nat, NEW high \in Nat, NEW top \in Nat,
         Numbered(s, kind, low, high), high <= top,
         m.kind = kind => high < m.sequence /\ m.sequence <= top
  PROVE  Numbered(Append(s, m), kind, low, top)
<1>1. m.sequence \in Nat
  BY DEF Message
<1> DEFINE t == Append(s, m)
<1>2. /\ Len(s) \in Nat
      /\ Len(t) = Len(s) + 1
      /\ \A i \in 1 .. Len(s) + 1 : t[i] = IF i <= Len(s) THEN s[i] ELSE m
  BY AppendIndex
<1> HIDE DEF t
<1>3. Numbered(t, kind, low, top)
  BY <1>1, <1>2, MessageFields, SMTT(30) DEF Numbered
<1>4. QED
  BY <1>3 DEF t

LEMMA NumberedHigher ==
  ASSUME NEW s \in Seq(Message), NEW kind, NEW low \in Nat, NEW high \in Nat,
         NEW top \in Nat, Numbered(s, kind, low, high), high <= top
  PROVE  Numbered(s, kind, low, top)
BY MessageFields DEF Numbered

LEMMA NumberedLower ==
  ASSUME NEW s \in Seq(Message), NEW kind, NEW low \in Nat, NEW high \in Nat,
         Numbered(s, kind, low, high)
  PROVE  Numbered(s, kind, 0, high)
BY MessageFields DEF Numbered

LEMMA NumberedTail ==
  ASSUME NEW s \in Seq(Message), s # <<>>, NEW kind, NEW low \in Nat, NEW high \in Nat,
         Numbered(s, kind, low, high)
  PROVE  /\ Numbered(Tail(s), kind, low, high)
         /\ s[1].kind = kind =>
              /\ low < s[1].sequence
              /\ Numbered(Tail(s), kind, s[1].sequence, high)
<1> DEFINE t == Tail(s)
<1>1. /\ Len(s) \in Nat \ {0}
      /\ Len(t) = Len(s) - 1
      /\ \A i \in 1 .. Len(s) - 1 : t[i] = s[i + 1]
  BY TailIndex
<1> HIDE DEF t
<1>2. \A i \in 1 .. Len(t) : i + 1 \in 1 .. Len(s) /\ t[i] = s[i + 1]
  BY <1>1
<1>3. Numbered(t, kind, low, high)
  <2>1. ASSUME NEW i \in 1 .. Len(t), t[i].kind = kind
        PROVE  low < t[i].sequence /\ t[i].sequence <= high
    BY <1>2, <2>1 DEF Numbered
  <2>2. ASSUME NEW i \in 1 .. Len(t), NEW j \in 1 .. Len(t),
               i < j, t[i].kind = kind, t[j].kind = kind
        PROVE  t[i].sequence < t[j].sequence
    <3>1. i + 1 \in 1 .. Len(s) /\ j + 1 \in 1 .. Len(s) /\ i + 1 < j + 1
      BY <1>2, <2>2
    <3>2. QED
      BY <1>2, <2>2, <3>1 DEF Numbered
  <2>3. QED
    BY <2>1, <2>2 DEF Numbered
<1>4. ASSUME s[1].kind = kind
      PROVE  low < s[1].sequence /\ Numbered(t, kind, s[1].sequence, high)
  <2>1. 1 \in 1 .. Len(s) /\ s[1].sequence \in Nat
    BY <1>1, MessageFields
  <2>2. /\ low < s[1].sequence /\ s[1].sequence <= high
        /\ \A i \in 1 .. Len(t) : t[i].kind = kind => s[1].sequence < t[i].sequence
    BY <1>1, <1>2, <1>4, <2>1 DEF Numbered
  <2>3. QED
    BY <1>3, <2>1, <2>2 DEF Numbered
<1>5. QED
  BY <1>3, <1>4 DEF t

LEMMA NumberedPrefix ==
  ASSUME NEW p \in Seq(Message), NEW q \in Seq(Message), NEW kind, NEW low, NEW high,
         Numbered(p \o q, kind, low, high)
  PROVE  Numbered(p, kind, low, high)
BY PrefixIndex DEF Numbered

LEMMA FramedAppend ==
  ASSUME NEW s \in Seq(Message), NEW m \in Message, m.kind \notin ControlKinds,
         NEW state, Framed(s, state, "open")
  PROVE  Framed(Append(s, m), state, "open")
<1> DEFINE t == Append(s, m)
<1>1. /\ Len(s) \in Nat
      /\ Len(t) = Len(s) + 1
      /\ t # <<>>
      /\ \A i \in 1 .. Len(s) + 1 : t[i] = IF i <= Len(s) THEN s[i] ELSE m
  BY AppendIndex, AppendProperties
<1>2. s # <<>> => Len(s) > 0
  BY EmptySeq
<1> HIDE DEF t
<1>3. Framed(t, state, "open")
  BY <1>1, <1>2 DEF Framed, ControlKinds
<1>4. QED
  BY <1>3 DEF t

\* The host lets go of a client: what it had queued is dropped, and a notice
\* may follow what was already sent.
LEMMA FramedClose ==
  ASSUME NEW p \in Seq(Message), NEW q \in Seq(Output), q \in Seq(Message),
         NEW state, Framed(p \o q, state, "open")
  PROVE  /\ Framed(p, state, "closed")
         /\ Framed(Append(p, DisconnectNotice), state, "closed")
<1> DEFINE s == p \o q
           t == Append(p, DisconnectNotice)
<1>1. /\ Len(p) \in Nat /\ Len(q) \in Nat
      /\ Len(s) = Len(p) + Len(q)
      /\ \A i \in 1 .. Len(p) : i \in 1 .. Len(s) /\ s[i] = p[i]
      /\ \A i \in 1 .. Len(p) + Len(q) : s[i] = IF i <= Len(p) THEN p[i] ELSE q[i - Len(p)]
      /\ s \in Seq(Message)
  BY PrefixIndex, ConcatProperties
<1>2. DisconnectNotice \in Message /\ DisconnectNotice.kind = "disconnect"
  BY MessageTypes DEF DisconnectNotice
<1>3. /\ Len(t) = Len(p) + 1
      /\ \A i \in 1 .. Len(p) + 1 : t[i] = IF i <= Len(p) THEN p[i] ELSE DisconnectNotice
  BY <1>2, AppendIndex
<1>4. s # <<>> => Len(s) > 0
  BY <1>1, EmptySeq
<1>5. \A i \in 1 .. Len(q) : q[i].kind # "welcome"
  <2>1. \A i \in 1 .. Len(q) : q[i] \in Output
    BY ElementOfSeq
  <2>2. QED
    BY <2>1 DEF Output, ControlKinds
<1>6. Framed(s, state, "open")
  OBVIOUS
<1> HIDE DEF s, t
<1>7. state = "disconnected" => Len(p) > 0
  <2>1. SUFFICES ASSUME state = "disconnected", Len(p) = 0 PROVE FALSE
    BY <1>1
  <2>2. Len(s) > 0
    BY <1>4, <1>6, <2>1 DEF Framed
  <2>3. s[1] = q[1] /\ 1 \in 1 .. Len(q) /\ 1 \in 1 .. Len(s)
    BY <1>1, <2>1, <2>2
  <2>4. QED
    BY <1>5, <1>6, <2>1, <2>3 DEF Framed
<1>8. Framed(p, state, "closed")
  BY <1>1, <1>6 DEF Framed
<1>9. Framed(t, state, "closed")
  <2>1. ASSUME NEW i \in 1 .. Len(t)
        PROVE  /\ t[i].kind = "welcome" <=> i = 1 /\ state = "disconnected"
               /\ t[i].kind = "disconnect" => i = Len(t)
    <3>1. CASE i \in 1 .. Len(p)
      BY <1>1, <1>3, <1>6, <3>1 DEF Framed
    <3>2. CASE i = Len(p) + 1
      BY <1>1, <1>2, <1>3, <1>7, <3>2
    <3>3. QED
      BY <1>1, <1>3, <3>1, <3>2
  <2>2. QED
    BY <2>1 DEF Framed
<1>10. QED
  BY <1>8, <1>9 DEF t

\* What the client reads next, and what is left.
LEMMA FramedTail ==
  ASSUME NEW s \in Seq(Message), s # <<>>, NEW state \in {"disconnected", "connected"},
         NEW link, Framed(s, state, link)
  PROVE  /\ s[1].kind = "welcome" <=> state = "disconnected"
         /\ s[1].kind # "disconnect" => Framed(Tail(s), "connected", link)
         /\ s[1].kind = "disconnect" => Tail(s) = <<>> /\ link = "closed"
<1> DEFINE t == Tail(s)
<1>1. /\ Len(s) \in Nat \ {0}
      /\ t \in Seq(Message)
      /\ Len(t) = Len(s) - 1
      /\ \A i \in 1 .. Len(s) - 1 : t[i] = s[i + 1]
  BY TailIndex
<1>2. t # <<>> => Len(t) > 0
  BY <1>1, EmptySeq
<1> HIDE DEF t
<1>3. 1 \in 1 .. Len(s) /\ \A i \in 1 .. Len(t) : i + 1 \in 1 .. Len(s) /\ t[i] = s[i + 1]
  BY <1>1
<1>4. Framed(t, "connected", link)
  BY <1>1, <1>3 DEF Framed
<1>5. s[1].kind = "disconnect" => t = <<>> /\ link = "closed"
  BY <1>1, <1>2, <1>3 DEF Framed
<1>6. QED
  BY <1>3, <1>4, <1>5 DEF Framed, t

LEMMA BatchesFirstAppend ==
  ASSUME NEW s \in Seq(Message), NEW m \in Message, BatchesFirst(s),
         NEW low \in Nat, NEW high \in Nat, Numbered(s, "delta", low, high),
         m.kind = "world_events" => high < m.sequence
  PROVE  BatchesFirst(Append(s, m))
<1> DEFINE t == Append(s, m)
<1>1. /\ Len(s) \in Nat
      /\ Len(t) = Len(s) + 1
      /\ \A i \in 1 .. Len(s) + 1 : t[i] = IF i <= Len(s) THEN s[i] ELSE m
  BY AppendIndex
<1> HIDE DEF t
<1>2. ASSUME NEW i \in 1 .. Len(t), NEW j \in 1 .. Len(t),
             t[i].kind = "delta", t[j].kind = "world_events",
             t[i].sequence = t[j].sequence
      PROVE  j < i
  <2>1. CASE j = Len(s) + 1
    <3>1. t[j] = m
      BY <1>1, <2>1
    <3>2. i \in 1 .. Len(s) /\ t[i] = s[i]
      BY <1>1, <1>2, <2>1, <3>1
    <3>3. s[i].sequence <= high /\ high < m.sequence
      BY <1>2, <3>1, <3>2 DEF Numbered
    <3>4. s[i].sequence \in Nat /\ m.sequence \in Nat
      BY <3>2, MessageFields DEF Message
    <3>5. QED
      BY <1>2, <3>1, <3>2, <3>3, <3>4
  <2>2. CASE j \in 1 .. Len(s)
    BY <1>1, <1>2, <2>2 DEF BatchesFirst
  <2>3. QED
    BY <1>1, <2>1, <2>2
<1>3. BatchesFirst(t)
  BY <1>2 DEF BatchesFirst
<1>4. QED
  BY <1>3 DEF t

LEMMA BatchesFirstTail ==
  ASSUME NEW s \in Seq(Message), s # <<>>, BatchesFirst(s)
  PROVE  BatchesFirst(Tail(s))
<1> DEFINE t == Tail(s)
<1>1. /\ Len(s) \in Nat \ {0}
      /\ Len(t) = Len(s) - 1
      /\ \A i \in 1 .. Len(s) - 1 : t[i] = s[i + 1]
  BY TailIndex
<1> HIDE DEF t
<1>2. ASSUME NEW i \in 1 .. Len(t), NEW j \in 1 .. Len(t),
             t[i].kind = "delta", t[j].kind = "world_events",
             t[i].sequence = t[j].sequence
      PROVE  j < i
  <2>1. /\ i + 1 \in 1 .. Len(s) /\ t[i] = s[i + 1]
        /\ j + 1 \in 1 .. Len(s) /\ t[j] = s[j + 1]
    BY <1>1
  <2>2. j + 1 < i + 1
    BY <1>2, <2>1 DEF BatchesFirst
  <2>3. QED
    BY <2>2
<1>3. BatchesFirst(t)
  BY <1>2 DEF BatchesFirst
<1>4. QED
  BY <1>3 DEF t

LEMMA BatchesFirstPrefix ==
  ASSUME NEW p \in Seq(Message), NEW q \in Seq(Message), BatchesFirst(p \o q)
  PROVE  BatchesFirst(p)
BY PrefixIndex DEF BatchesFirst

-----------------------------------------------------------------------------
(* The numbers of the deltas.                                              *)

LEMMA RisingAppend ==
  ASSUME NEW q \in Seq(Nat), NEW low \in Nat, NEW high \in Nat, NEW n \in Nat,
         Rising(q, low, high), high < n
  PROVE  Rising(Append(q, n), low, n)
<1> DEFINE t == Append(q, n)
<1>1. /\ Len(q) \in Nat
      /\ Len(t) = Len(q) + 1
      /\ \A i \in 1 .. Len(q) + 1 : t[i] = IF i <= Len(q) THEN q[i] ELSE n
  BY AppendIndex
<1>2. \A i \in 1 .. Len(q) : q[i] \in Nat
  BY ElementOfSeq
<1> HIDE DEF t
<1>3. Rising(t, low, n)
  BY <1>1, <1>2 DEF Rising
<1>4. QED
  BY <1>3 DEF t

LEMMA RisingTail ==
  ASSUME NEW q \in Seq(Nat), q # <<>>, NEW low \in Nat, NEW high \in Nat,
         Rising(q, low, high)
  PROVE  /\ Head(q) \in Nat
         /\ low < Head(q)
         /\ Rising(Tail(q), Head(q), high)
<1> DEFINE t == Tail(q)
<1>1. /\ Len(q) \in Nat \ {0}
      /\ Head(q) = q[1]
      /\ Len(t) = Len(q) - 1
      /\ \A i \in 1 .. Len(q) - 1 : t[i] = q[i + 1]
  BY TailIndex
<1> HIDE DEF t
<1>2. \A i \in 1 .. Len(q) : q[i] \in Nat
  BY ElementOfSeq
<1>3. 1 \in 1 .. Len(q) /\ \A i \in 1 .. Len(t) : i + 1 \in 1 .. Len(q) /\ t[i] = q[i + 1]
  BY <1>1
<1>4. ASSUME NEW i \in 1 .. Len(t)
      PROVE  q[1] < t[i] /\ t[i] <= high
  <2>1. 1 < i + 1
    BY <1>1
  <2>2. QED
    BY <1>3, <2>1 DEF Rising
<1>5. ASSUME NEW i \in 1 .. Len(t), NEW j \in 1 .. Len(t), i < j
      PROVE  t[i] < t[j]
  <2>1. i + 1 < j + 1
    BY <1>1, <1>5
  <2>2. QED
    BY <1>3, <2>1 DEF Rising
<1>6. low < q[1] /\ q[1] <= high
  BY <1>3 DEF Rising
<1>7. Rising(t, q[1], high)
  BY <1>4, <1>5, <1>6 DEF Rising
<1>8. QED
  BY <1>1, <1>2, <1>3, <1>6, <1>7 DEF t

LEMMA RisingHigher ==
  ASSUME NEW q \in Seq(Nat), NEW low \in Nat, NEW high \in Nat, NEW top \in Nat,
         Rising(q, low, high), high <= top
  PROVE  Rising(q, low, top)
<1>1. \A i \in 1 .. Len(q) : q[i] \in Nat
  BY ElementOfSeq
<1>2. QED
  BY <1>1 DEF Rising

LEMMA RisingEmpty ==
  ASSUME NEW low \in Nat, NEW high \in Nat, low <= high
  PROVE  Rising(<<>>, low, high)
BY DEF Rising

LEMMA NumberedEmpty ==
  ASSUME NEW kind, NEW low \in Nat, NEW high \in Nat, low <= high
  PROVE  Numbered(<<>>, kind, low, high)
BY DEF Numbered

\* Anything but a delta joins the stream.
LEMMA DeltasRiseAppend ==
  ASSUME NEW s \in Seq(Message), NEW message \in Message, message.kind # "delta",
         NEW m \in Seq(Nat), NEW q \in Seq(Nat), NEW high, DeltasRise(s, m, q, high)
  PROVE  DeltasRise(Append(s, message), m, q, high)
<1>1. PICK a \in Nat, b \in Nat :
        Rising(m, 0, a) /\ Numbered(s, "delta", a, b) /\ Rising(q, b, high)
  BY DEF DeltasRise
<1>2. Numbered(Append(s, message), "delta", a, b)
  BY <1>1, NumberedAppend
<1>3. QED
  BY <1>1, <1>2 DEF DeltasRise

\* A commit has a number above all others; a delta of it may be due.
LEMMA DeltasRiseCommit ==
  ASSUME NEW s \in Seq(Message), NEW m \in Seq(Nat), NEW q \in Seq(Nat),
         NEW high \in Nat, DeltasRise(s, m, q, high)
  PROVE  /\ DeltasRise(s, m, q, high + 1)
         /\ DeltasRise(s, m, Append(q, high + 1), high + 1)
<1>1. PICK a \in Nat, b \in Nat :
        Rising(m, 0, a) /\ Numbered(s, "delta", a, b) /\ Rising(q, b, high)
  BY DEF DeltasRise
<1>2. Rising(q, b, high + 1)
  BY <1>1, RisingHigher
<1>3. Rising(Append(q, high + 1), b, high + 1)
  BY <1>1, RisingAppend
<1>4. QED
  BY <1>1, <1>2, <1>3 DEF DeltasRise

\* The first delta of the tick joins the stream.
LEMMA DeltasRiseSend ==
  ASSUME NEW s \in Seq(Message), NEW m \in Seq(Nat), NEW q \in Seq(Nat), q # <<>>,
         NEW high \in Nat, DeltasRise(s, m, q, high)
  PROVE  DeltasRise(Append(s, Delta(Head(q))), m, Tail(q), high)
<1> DEFINE n == Head(q)
           message == Delta(n)
<1>1. PICK a \in Nat, b \in Nat :
        Rising(m, 0, a) /\ Numbered(s, "delta", a, b) /\ Rising(q, b, high)
  BY DEF DeltasRise
<1>2. n \in Nat /\ b < n /\ Rising(Tail(q), n, high)
  BY <1>1, RisingTail
<1> HIDE DEF n
<1>3. message \in Message /\ message.kind = "delta" /\ message.sequence = n
  BY <1>2, MessageTypes DEF Delta
<1> HIDE DEF message
<1>4. Numbered(Append(s, message), "delta", a, n)
  <2>1. b <= n /\ b < message.sequence /\ message.sequence <= n
    BY <1>2, <1>3
  <2>2. QED
    BY <1>1, <1>2, <1>3, <2>1, NumberedAppend
<1>5. QED
  BY <1>1, <1>2, <1>4 DEF DeltasRise, message, n

\* The client reads the front of the stream: a delta joins those it holds.
LEMMA DeltasRiseTail ==
  ASSUME NEW s \in Seq(Message), s # <<>>, NEW m \in Seq(Nat), NEW q \in Seq(Nat),
         NEW high \in Nat, DeltasRise(s, m, q, high)
  PROVE  /\ DeltasRise(Tail(s), m, q, high)
         /\ s[1].kind = "delta" => DeltasRise(Tail(s), Append(m, s[1].sequence), q, high)
<1>1. PICK a \in Nat, b \in Nat :
        Rising(m, 0, a) /\ Numbered(s, "delta", a, b) /\ Rising(q, b, high)
  BY DEF DeltasRise
<1>2. DeltasRise(Tail(s), m, q, high)
  BY <1>1, NumberedTail DEF DeltasRise
<1>3. ASSUME s[1].kind = "delta"
      PROVE  DeltasRise(Tail(s), Append(m, s[1].sequence), q, high)
  <2>1. s[1].sequence \in Nat
    BY TailIndex, MessageFields, SMTT(30)
  <2>2. a < s[1].sequence /\ Numbered(Tail(s), "delta", s[1].sequence, b)
    BY <1>1, <1>3, NumberedTail
  <2>3. Rising(Append(m, s[1].sequence), 0, s[1].sequence)
    BY <1>1, <2>1, <2>2, RisingAppend
  <2>4. QED
    BY <1>1, <2>1, <2>2, <2>3 DEF DeltasRise
<1>4. QED
  BY <1>2, <1>3

\* The client lets go of the deltas it holds.
LEMMA DeltasRiseDrop ==
  ASSUME NEW s, NEW m, NEW q, NEW high, DeltasRise(s, m, q, high)
  PROVE  DeltasRise(s, <<>>, q, high)
BY RisingEmpty DEF DeltasRise

LEMMA DeltasRisePrefix ==
  ASSUME NEW p \in Seq(Message), NEW r \in Seq(Message), NEW m, NEW q, NEW high,
         DeltasRise(p \o r, m, q, high)
  PROVE  DeltasRise(p, m, q, high)
BY NumberedPrefix DEF DeltasRise

LEMMA DeltasRiseEmpty ==
  ASSUME NEW high \in Nat
  PROVE  DeltasRise(<<>>, <<>>, <<>>, high)
<1>1. Rising(<<>>, 0, 0) /\ Numbered(<<>>, "delta", 0, 0) /\ Rising(<<>>, 0, high)
  BY RisingEmpty, NumberedEmpty
<1>2. QED
  BY <1>1 DEF DeltasRise

-----------------------------------------------------------------------------
(* Commands and their results.                                             *)

LEMMA ResultFields ==
  /\ \A n \in Nat : /\ CommandResult(n) \in Message
                    /\ CommandResult(n).kind = "command_result"
                    /\ CommandResult(n).sequence = n
  /\ \A m \in Message : m.kind = "command_result" => m = CommandResult(m.sequence)
<1>1. \A n \in Nat : CommandResult(n) \in Message
  BY MessageTypes
<1>2. QED
  BY <1>1 DEF CommandResult, Message

LEMMA AnswersAppend ==
  ASSUME NEW s \in Seq(Message), NEW m \in Message, m.kind # "command_result",
         NEW waiting \in SUBSET Nat, NEW link, NEW h \in Nat, NEW l \in Nat,
         Answers(s, waiting, link, h, l)
  PROVE  Answers(Append(s, m), waiting, link, h, l)
<1> DEFINE t == Append(s, m)
<1>1. /\ Len(s) \in Nat
      /\ Len(t) = Len(s) + 1
      /\ \A i \in 1 .. Len(s) + 1 : t[i] = IF i <= Len(s) THEN s[i] ELSE m
  BY AppendIndex
<1>2. Numbered(t, "command_result", 0, h)
  BY NumberedAppend DEF Answers
<1> HIDE DEF t
<1>3. \A i \in 1 .. Len(t) : t[i].kind = "command_result" => t[i].sequence \in waiting
  BY <1>1 DEF Answers
<1>4. ASSUME link = "open", NEW n \in waiting, ~(h < n /\ n <= l)
      PROVE  \E i \in 1 .. Len(t) : t[i] = CommandResult(n)
  <2>1. PICK i \in 1 .. Len(s) : s[i] = CommandResult(n)
    BY <1>4 DEF Answers
  <2>2. i \in 1 .. Len(t) /\ t[i] = s[i]
    BY <1>1
  <2>3. QED
    BY <2>1, <2>2
<1>5. link = "open" => (h + 1) .. l \subseteq waiting
  BY DEF Answers
<1>6. Answers(t, waiting, link, h, l)
  BY <1>2, <1>3, <1>4, <1>5 DEF Answers
<1>7. QED
  BY <1>6 DEF t

\* The host has handled the next command of a connected client.
LEMMA AnswersResult ==
  ASSUME NEW s \in Seq(Message), NEW waiting \in SUBSET Nat,
         NEW h \in Nat, NEW l \in Nat, h + 1 <= l,
         Answers(s, waiting, "open", h, l)
  PROVE  Answers(Append(s, CommandResult(h + 1)), waiting, "open", h + 1, l)
<1> DEFINE m == CommandResult(h + 1)
           t == Append(s, m)
<1>1. m \in Message /\ m.kind = "command_result" /\ m.sequence = h + 1
  BY ResultFields
<1> HIDE DEF m
<1>2. /\ Len(s) \in Nat
      /\ Len(t) = Len(s) + 1
      /\ \A i \in 1 .. Len(s) + 1 : t[i] = IF i <= Len(s) THEN s[i] ELSE m
  BY <1>1, AppendIndex
<1>3. Numbered(t, "command_result", 0, h + 1)
  <2>1. h < m.sequence /\ m.sequence <= h + 1 /\ h <= h + 1 /\ h + 1 \in Nat
    BY <1>1
  <2>2. QED
    BY <1>1, <2>1, NumberedAppend DEF Answers
<1> HIDE DEF t
<1>4. h + 1 \in waiting
  BY DEF Answers
<1>5. \A i \in 1 .. Len(t) : t[i].kind = "command_result" => t[i].sequence \in waiting
  BY <1>1, <1>2, <1>4 DEF Answers
<1>6. ASSUME NEW n \in waiting, ~(h + 1 < n /\ n <= l)
      PROVE  \E i \in 1 .. Len(t) : t[i] = CommandResult(n)
  <2>1. CASE n = h + 1
    BY <1>2, <2>1 DEF m
  <2>2. CASE n # h + 1
    <3>1. ~(h < n /\ n <= l)
      BY <1>6, <2>2
    <3>2. PICK i \in 1 .. Len(s) : s[i] = CommandResult(n)
      BY <3>1 DEF Answers
    <3>3. i \in 1 .. Len(t) /\ t[i] = s[i]
      BY <1>2
    <3>4. QED
      BY <3>2, <3>3
  <2>3. QED
    BY <2>1, <2>2
<1>7. (h + 1 + 1) .. l \subseteq waiting
  BY DEF Answers
<1>8. Answers(t, waiting, "open", h + 1, l)
  BY <1>3, <1>5, <1>6, <1>7 DEF Answers
<1>9. QED
  BY <1>8 DEF t, m

\* The host has handled a command of a client that is gone.
LEMMA AnswersHandled ==
  ASSUME NEW s \in Seq(Message), NEW waiting, NEW h \in Nat, NEW l, NEW k,
         Answers(s, waiting, "closed", h, l)
  PROVE  Answers(s, waiting, "closed", h + 1, k)
BY MessageFields DEF Answers, Numbered

\* A connected client creates and sends its next command.
LEMMA AnswersSubmit ==
  ASSUME NEW s \in Seq(Message), NEW waiting \in SUBSET Nat,
         NEW h \in Nat, NEW l \in Nat, h <= l,
         Answers(s, waiting, "open", h, l)
  PROVE  Answers(s, waiting \cup {l + 1}, "open", h, l + 1)
<1>1. ASSUME NEW n \in waiting \cup {l + 1}, ~(h < n /\ n <= l + 1)
      PROVE  \E i \in 1 .. Len(s) : s[i] = CommandResult(n)
  <2>1. n \in waiting /\ ~(h < n /\ n <= l)
    BY <1>1
  <2>2. QED
    BY <2>1 DEF Answers
<1>2. (h + 1) .. (l + 1) \subseteq waiting \cup {l + 1}
  BY DEF Answers
<1>3. QED
  BY <1>1, <1>2 DEF Answers

\* A client that the host has let go creates a command.
LEMMA AnswersCreate ==
  ASSUME NEW s, NEW waiting, NEW h, NEW l, NEW n, Answers(s, waiting, "closed", h, l)
  PROVE  Answers(s, waiting \cup {n}, "closed", h, l)
BY DEF Answers

\* The client reads the front of the stream: a result answers its command.
LEMMA AnswersTail ==
  ASSUME NEW s \in Seq(Message), s # <<>>, NEW waiting \in SUBSET Nat,
         NEW link, NEW h \in Nat, NEW l \in Nat, Answers(s, waiting, link, h, l)
  PROVE  /\ s[1].kind # "command_result" => Answers(Tail(s), waiting, link, h, l)
         /\ s[1].kind = "command_result" =>
              /\ s[1].sequence \in waiting
              /\ Answers(Tail(s), waiting \ {s[1].sequence}, link, h, l)
<1> DEFINE t == Tail(s)
<1>1. /\ Len(s) \in Nat \ {0}
      /\ Len(t) = Len(s) - 1
      /\ \A i \in 1 .. Len(s) - 1 : t[i] = s[i + 1]
  BY TailIndex
<1>2. /\ Numbered(t, "command_result", 0, h)
      /\ s[1].kind = "command_result" => Numbered(t, "command_result", s[1].sequence, h)
  BY NumberedTail DEF Answers
<1> HIDE DEF t
<1>3. 1 \in 1 .. Len(s) /\ \A i \in 1 .. Len(t) : i + 1 \in 1 .. Len(s) /\ t[i] = s[i + 1]
  BY <1>1
<1>4. \A i \in 1 .. Len(t) : t[i].kind = "command_result" => t[i].sequence \in waiting
  BY <1>3 DEF Answers
<1>5. ASSUME link = "open", NEW n \in waiting, ~(h < n /\ n <= l), s[1] # CommandResult(n)
      PROVE  \E i \in 1 .. Len(t) : t[i] = CommandResult(n)
  <2>1. PICK i \in 1 .. Len(s) : s[i] = CommandResult(n)
    BY <1>5 DEF Answers
  <2>2. i - 1 \in 1 .. Len(t) /\ t[i - 1] = s[i]
    BY <1>1, <1>5, <2>1
  <2>3. QED
    BY <2>1, <2>2
<1>6. link = "open" => (h + 1) .. l \subseteq waiting
  BY DEF Answers
<1>7. ASSUME s[1].kind # "command_result"
      PROVE  Answers(t, waiting, link, h, l)
  <2>1. \A n \in waiting : s[1] # CommandResult(n)
    BY <1>7, ResultFields
  <2>2. QED
    BY <1>2, <1>4, <1>5, <1>6, <2>1 DEF Answers
<1>8. ASSUME s[1].kind = "command_result"
      PROVE  /\ s[1].sequence \in waiting
             /\ Answers(t, waiting \ {s[1].sequence}, link, h, l)
  <2>1. s[1].sequence \in waiting /\ s[1].sequence <= h /\ s[1].sequence \in Nat
    BY <1>3, <1>8, MessageFields DEF Answers, Numbered
  <2>2. \A n \in waiting \ {s[1].sequence} : s[1] # CommandResult(n)
    BY ResultFields
  <2>3. \A i \in 1 .. Len(t) :
          t[i].kind = "command_result" => t[i].sequence \in waiting \ {s[1].sequence}
    <3>1. ASSUME NEW i \in 1 .. Len(t), t[i].kind = "command_result"
          PROVE  t[i].sequence # s[1].sequence
      <4>1. s[1].sequence < t[i].sequence
        BY <1>2, <1>8, <3>1 DEF Numbered
      <4>2. QED
        BY <2>1, <4>1
    <3>2. QED
      BY <1>4, <3>1
  <2>4. link = "open" => (h + 1) .. l \subseteq waiting \ {s[1].sequence}
    BY <1>6, <2>1
  <2>5. QED
    BY <1>2, <1>5, <2>1, <2>2, <2>3, <2>4 DEF Answers
<1>9. QED
  BY <1>7, <1>8 DEF t

\* A new session: nothing is pending and nothing was sent.
LEMMA AnswersWelcome ==
  ASSUME NEW s \in Seq(Message), s # <<>>, NEW waiting, NEW link,
         Answers(s, waiting, link, 0, 0)
  PROVE  Answers(Tail(s), {}, link, 0, 0)
<1>1. Numbered(Tail(s), "command_result", 0, 0)
  BY NumberedTail DEF Answers
<1>2. \A i \in 1 .. Len(Tail(s)) : Tail(s)[i].sequence \in Nat
  BY TailIndex, MessageFields
<1>3. \A i \in 1 .. Len(Tail(s)) : Tail(s)[i].kind # "command_result"
  BY <1>1, <1>2 DEF Numbered
<1>4. QED
  BY <1>1, <1>3 DEF Answers

LEMMA AnswersEmpty ==
  ASSUME NEW waiting, NEW h \in Nat, NEW l
  PROVE  Answers(<<>>, waiting, "closed", h, l)
BY NumberedEmpty DEF Answers

LEMMA AnswersPrefix ==
  ASSUME NEW p \in Seq(Message), NEW q \in Seq(Message), NEW waiting, NEW h, NEW l,
         Answers(p \o q, waiting, "open", h, l)
  PROVE  Answers(p, waiting, "closed", h, l)
<1>1. Numbered(p, "command_result", 0, h)
  BY NumberedPrefix DEF Answers
<1>2. \A i \in 1 .. Len(p) : p[i].kind = "command_result" => p[i].sequence \in waiting
  BY PrefixIndex DEF Answers
<1>3. QED
  BY <1>1, <1>2 DEF Answers

-----------------------------------------------------------------------------
(* The state of one client.                                                *)

LEMMA StateTypes ==
  ASSUME TypeOK, NEW c \in Clients
  PROVE  /\ Downstream(c) \in Seq(Message)
         /\ drained \in Seq(Message)
         /\ clientInbox[c] \in Seq(Message)
         /\ pendingOutbound[c] \in Seq(Message)
         /\ sessionState[c] \in {"disconnected", "connected"}
         /\ pendingCommands[c] \in SUBSET Nat
         /\ replicationMessages[c] \in Seq(Nat)
         /\ outgoingDeltas[c] \in Seq(Nat)
         /\ lastReplicationSequence[c] \in Nat
         /\ handled[c] \in Nat
         /\ lastCommandSequence[c] \in Nat
         /\ commits \in Nat
<1>1. /\ drained \in Seq(Message)
      /\ clientInbox[c] \in Seq(Message)
      /\ pendingOutbound[c] \in Seq(Message)
  BY DEF TypeOK, HostTypeOK, ClientTypeOK
<1>2. Downstream(c) \in Seq(Message)
  BY <1>1, EmptySeq, ConcatProperties DEF Downstream
<1>3. QED
  BY <1>1, <1>2 DEF TypeOK, HostTypeOK, ClientTypeOK

\* A step that leaves a client's stream and state alone.
LEMMA StreamKept ==
  ASSUME NEW c \in Clients, StreamIsSound(c),
         Downstream(c)' = Downstream(c),
         c \in connected' <=> c \in connected,
         sessionState'[c] = sessionState[c],
         lastReplicationSequence'[c] = lastReplicationSequence[c],
         replicationMessages'[c] = replicationMessages[c],
         outgoingDeltas'[c] = outgoingDeltas[c],
         pendingCommands'[c] = pendingCommands[c],
         handled'[c] = handled[c],
         lastCommandSequence'[c] = lastCommandSequence[c],
         faulted'[c] = faulted[c],
         commits' = commits
  PROVE  StreamIsSound(c)'
<1>1. Link(c)' = Link(c)
  BY DEF Link
<1>2. QED
  BY <1>1 DEF StreamIsSound

\* What QueueOutput puts into a connected client's stream.
LEMMA QueueStream ==
  ASSUME TypeOK, NEW c \in Clients, NEW seq \in Nat, NEW relevant \in SUBSET connected,
         QueueOutput(c, seq, relevant), NEW d \in connected, d \in Clients,
         UNCHANGED <<clientInbox, connected, receiver, drained>>
  PROVE  \E s \in Seq(Message) :
           /\ s = IF d = c THEN Append(Downstream(d), CommandResult(seq)) ELSE Downstream(d)
           /\ Downstream(d)' = IF d \in relevant
                               THEN Append(s, WorldEvents(nextReplicationSequence))
                               ELSE s
<1> DEFINE x == (IF receiver = d THEN drained ELSE <<>>) \o clientInbox[d]
           y == pendingOutbound[d]
           r == IF d = c THEN <<CommandResult(seq)>> ELSE <<>>
           e == IF d \in relevant THEN <<WorldEvents(nextReplicationSequence)>> ELSE <<>>
           s == (x \o y) \o r
<1>1. CommandResult(seq) \in Message /\ WorldEvents(nextReplicationSequence) \in Message
  <2>1. nextReplicationSequence \in Nat
    BY HostAssumption DEF TypeOK, HostTypeOK
  <2>2. QED
    BY <2>1, MessageTypes
<1>2. x \in Seq(Message) /\ y \in Seq(Message)
  BY StateTypes, EmptySeq, ConcatProperties
<1>3. r \in Seq(Message) /\ e \in Seq(Message)
  BY <1>1
<1>4. Downstream(d) = x \o y
  BY DEF Downstream
<1>5. pendingOutbound'[d] = (y \o r) \o e
  BY DEF QueueOutput
<1>6. Downstream(d)' = x \o ((y \o r) \o e)
  BY <1>5 DEF Downstream
<1>7. x \o ((y \o r) \o e) = s \o e
  <2> HIDE DEF x, y, r, e
  <2>1. y \o r \in Seq(Message) /\ x \o y \in Seq(Message)
    BY <1>2, <1>3, ConcatProperties
  <2> DEFINE z == y \o r
  <2> HIDE DEF z
  <2>2. (x \o (y \o r)) \o e = x \o ((y \o r) \o e)
    <3>1. x \in Seq(Message) /\ z \in Seq(Message) /\ e \in Seq(Message)
      BY <1>2, <1>3, <2>1 DEF z
    <3>2. (x \o z) \o e = x \o (z \o e)
      BY <3>1, StreamsAssociate
    <3>3. QED
      BY <3>2 DEF z
  <2>3. (x \o y) \o r = x \o (y \o r)
    BY <1>2, <1>3, StreamsAssociate
  <2>4. QED
    BY <2>2, <2>3
<1>8. s \in Seq(Message) /\ x \o y \in Seq(Message)
  BY <1>2, <1>3, ConcatProperties
<1>9. s = IF d = c THEN Append(Downstream(d), CommandResult(seq)) ELSE Downstream(d)
  <2>1. CASE d = c
    BY <1>1, <1>4, <1>8, <2>1, AppendIsConcat
  <2>2. CASE d # c
    BY <1>4, <1>8, <2>2, ConcatEmptySeq
  <2>3. QED
    BY <2>1, <2>2
<1> HIDE DEF s
<1>10. s \o e = IF d \in relevant THEN Append(s, WorldEvents(nextReplicationSequence)) ELSE s
  <2>1. CASE d \in relevant
    BY <1>1, <1>8, <2>1, AppendIsConcat
  <2>2. CASE d \notin relevant
    BY <1>8, <2>2, ConcatEmptySeq
  <2>3. QED
    BY <2>1, <2>2
<1>11. QED
  BY <1>6, <1>7, <1>8, <1>9, <1>10

\* The command at the front of the dispatch loop.
LEMMA FrontCommand ==
  ASSUME TypeOK, OrderInv, inbound # <<>>
  PROVE  /\ Head(inbound).sender \in Clients
         /\ Head(inbound).sequence = handled[Head(inbound).sender] + 1
         /\ Head(inbound).sequence <= lastCommandSequence[Head(inbound).sender]
         /\ Head(inbound).sender < nextClientId
<1>1. HostTypeOK /\ UnbrokenRun(Upstream, handled, lastCommandSequence)
  BY DEF TypeOK, OrderInv
<1>2. /\ Upstream \in Seq(Command)
      /\ Len(Upstream) \in Nat \ {0}
      /\ Head(inbound) = Upstream[1]
  <2>1. Upstream \in Seq(Command) /\ Upstream # <<>> /\ Head(Upstream) = Head(inbound)
    BY <1>1, UpstreamTail
  <2>2. QED
    BY <2>1, TailIndex
<1>3. 1 \in 1 .. Len(Upstream)
  BY <1>2
<1>4. Head(inbound).sender \in Clients
  BY <1>2, <1>3, CommandFields
<1>5. Head(inbound).sequence = handled[Head(inbound).sender] + 1
  BY OrderImplies DEF CommandsHandledInOrder
<1>6. Head(inbound).sequence <= lastCommandSequence[Head(inbound).sender]
  BY <1>1, <1>2, <1>3 DEF UnbrokenRun
<1>7. /\ handled[Head(inbound).sender] \in Nat
      /\ nextClientId \in Nat
      /\ Head(inbound).sender \in Nat
  BY <1>1, <1>4, ClientsAreNaturals DEF HostTypeOK
<1>8. lastCommandSequence[Head(inbound).sender] # 0
  BY <1>5, <1>6, <1>7
<1>9. ~(Head(inbound).sender >= nextClientId)
  BY <1>4, <1>8 DEF OrderInv, NewSession
<1>10. QED
  BY <1>4, <1>5, <1>6, <1>7, <1>9

-----------------------------------------------------------------------------
(* The dispatch loop.                                                      *)

\* A message that is neither a control message nor a result joins a connected
\* client's stream; a batch has a number above all others.
LEMMA WorldEventsJoin ==
  ASSUME NEW s \in Seq(Message), NEW state, NEW m \in Seq(Nat), NEW q \in Seq(Nat),
         NEW waiting \in SUBSET Nat, NEW h \in Nat, NEW l \in Nat,
         NEW last \in Nat, NEW n \in Nat,
         Framed(s, state, "open"),
         Numbered(s, "world_events", last, n),
         DeltasRise(s, m, q, n),
         BatchesFirst(s),
         Answers(s, waiting, "open", h, l)
  PROVE  LET t == Append(s, WorldEvents(n + 1))
         IN  /\ Framed(t, state, "open")
             /\ Numbered(t, "world_events", last, n + 1)
             /\ DeltasRise(t, m, q, n)
             /\ BatchesFirst(t)
             /\ Answers(t, waiting, "open", h, l)
             /\ t # <<>>
<1> DEFINE message == WorldEvents(n + 1)
<1>1. /\ message \in Message
      /\ message.kind = "world_events"
      /\ message.sequence = n + 1
  BY MessageTypes DEF WorldEvents
<1> HIDE DEF message
<1>2. /\ message.kind # "delta"
      /\ message.kind # "command_result"
      /\ message.kind \notin ControlKinds
  BY <1>1 DEF ControlKinds
<1>3. Framed(Append(s, message), state, "open")
  BY <1>1, <1>2, FramedAppend
<1>4. Numbered(Append(s, message), "world_events", last, n + 1)
  <2>1. n < message.sequence /\ message.sequence <= n + 1 /\ n <= n + 1 /\ n + 1 \in Nat
    BY <1>1
  <2>2. QED
    BY <1>1, <2>1, NumberedAppend
<1>5. DeltasRise(Append(s, message), m, q, n)
  BY <1>1, <1>2, DeltasRiseAppend
<1>6. BatchesFirst(Append(s, message))
  <2>1. PICK a \in Nat, b \in Nat : Numbered(s, "delta", a, b) /\ Rising(q, b, n)
    BY DEF DeltasRise
  <2>2. b < message.sequence
    BY <1>1, <2>1 DEF Rising
  <2>3. QED
    BY <1>1, <2>1, <2>2, BatchesFirstAppend, SMTT(30)
<1>7. Answers(Append(s, message), waiting, "open", h, l)
  BY <1>1, <1>2, AnswersAppend
<1>8. Append(s, message) # <<>>
  BY <1>1, AppendProperties
<1>9. QED
  BY <1>3, <1>4, <1>5, <1>6, <1>7, <1>8 DEF message

\* The result of the client's next command joins its stream.
LEMMA ResultJoins ==
  ASSUME NEW s \in Seq(Message), NEW state, NEW m \in Seq(Nat), NEW q \in Seq(Nat),
         NEW waiting \in SUBSET Nat, NEW h \in Nat, NEW l \in Nat, h + 1 <= l,
         NEW last \in Nat, NEW n \in Nat,
         Framed(s, state, "open"),
         Numbered(s, "world_events", last, n),
         DeltasRise(s, m, q, n),
         BatchesFirst(s),
         Answers(s, waiting, "open", h, l)
  PROVE  LET t == Append(s, CommandResult(h + 1))
         IN  /\ t \in Seq(Message)
             /\ Framed(t, state, "open")
             /\ Numbered(t, "world_events", last, n)
             /\ DeltasRise(t, m, q, n)
             /\ BatchesFirst(t)
             /\ Answers(t, waiting, "open", h + 1, l)
<1> DEFINE message == CommandResult(h + 1)
<1>1. /\ message \in Message
      /\ message.kind = "command_result"
  BY ResultFields
<1>2. Answers(Append(s, message), waiting, "open", h + 1, l)
  BY AnswersResult
<1> HIDE DEF message
<1>3. /\ message.kind # "delta"
      /\ message.kind # "world_events"
      /\ message.kind \notin ControlKinds
  BY <1>1 DEF ControlKinds
<1>4. Framed(Append(s, message), state, "open")
  BY <1>1, <1>3, FramedAppend
<1>5. Numbered(Append(s, message), "world_events", last, n)
  BY <1>1, <1>3, NumberedAppend
<1>6. DeltasRise(Append(s, message), m, q, n)
  BY <1>1, <1>3, DeltasRiseAppend
<1>7. BatchesFirst(Append(s, message))
  <2>1. PICK a \in Nat, b \in Nat : Numbered(s, "delta", a, b)
    BY DEF DeltasRise
  <2>2. QED
    BY <1>1, <1>3, <2>1, BatchesFirstAppend
<1>8. Append(s, message) \in Seq(Message)
  BY <1>1, AppendProperties
<1>9. QED
  BY <1>2, <1>4, <1>5, <1>6, <1>7, <1>8 DEF message

\* What handling the front command does to each client's stream: `next' is the
\* number of commits after it.
LEMMA DispatchSound ==
  ASSUME TypeOK, OrderInv, NEW d \in Clients, StreamIsSound(d), inbound # <<>>,
         NEW relevant \in SUBSET connected,
         QueueOutput(Head(inbound).sender, Head(inbound).sequence, relevant),
         handled' = [handled EXCEPT ![Head(inbound).sender] = Head(inbound).sequence],
         commits' = commits \/ commits' = commits + 1,
         relevant # {} => commits' = commits + 1 /\ nextReplicationSequence = commits + 1,
         \/ outgoingDeltas'[d] = outgoingDeltas[d]
         \/ /\ outgoingDeltas'[d] = Append(outgoingDeltas[d], commits + 1)
            /\ commits' = commits + 1,
         UNCHANGED <<clientInbox, connected, receiver, drained, lastCommandSequence,
                     sessionState, lastReplicationSequence, replicationMessages,
                     pendingCommands, faulted>>
  PROVE  StreamIsSound(d)'
<1> DEFINE c == Head(inbound).sender
           seq == Head(inbound).sequence
           state == sessionState[d]
           m == replicationMessages[d]
           q == outgoingDeltas[d]
           waiting == pendingCommands[d]
           l == lastCommandSequence[d]
           last == lastReplicationSequence[d]
<1>1. c \in Clients /\ seq \in Nat /\ seq = handled[c] + 1 /\ seq <= lastCommandSequence[c]
  <2>1. c \in Clients /\ seq = handled[c] + 1 /\ seq <= lastCommandSequence[c]
    BY FrontCommand
  <2>2. QED
    BY <2>1, StateTypes
<1>2. /\ Downstream(d) \in Seq(Message)
      /\ m \in Seq(Nat) /\ q \in Seq(Nat) /\ waiting \in SUBSET Nat /\ l \in Nat
      /\ last \in Nat /\ handled[d] \in Nat /\ commits \in Nat
  BY StateTypes
<1>3. handled'[d] = IF d = c THEN handled[d] + 1 ELSE handled[d]
  BY <1>1 DEF TypeOK, HostTypeOK
<1>4. Link(d)' = Link(d)
  BY DEF Link
<1>5. ASSUME NEW s \in Seq(Message), DeltasRise(s, m, q, commits)
      PROVE  DeltasRise(s, m, outgoingDeltas'[d], commits')
  BY <1>2, <1>5, DeltasRiseCommit
<1>6. commits' \in Nat /\ commits <= commits' /\ handled'[d] \in Nat
  BY <1>2, <1>3
<1> HIDE DEF c, seq, m, q, waiting, l, last, state
<1>7. /\ Framed(Downstream(d), state, Link(d))
      /\ Numbered(Downstream(d), "world_events", last, commits)
      /\ DeltasRise(Downstream(d), m, q, commits)
      /\ BatchesFirst(Downstream(d))
      /\ Answers(Downstream(d), waiting, Link(d), handled[d], l)
      /\ state = "disconnected" /\ Downstream(d) # <<>> => l = 0
      /\ ~faulted[d]
  BY DEF StreamIsSound, m, q, waiting, l, last, state
<1>8. ASSUME /\ Framed(Downstream(d)', state, Link(d))
             /\ Numbered(Downstream(d)', "world_events", last, commits')
             /\ DeltasRise(Downstream(d)', m, q, commits)
             /\ BatchesFirst(Downstream(d)')
             /\ Answers(Downstream(d)', waiting, Link(d), handled'[d], l)
             /\ state = "disconnected" /\ Downstream(d)' # <<>> => l = 0
             /\ Downstream(d)' \in Seq(Message)
      PROVE  StreamIsSound(d)'
  BY <1>4, <1>5, <1>7, <1>8 DEF StreamIsSound, m, waiting, l, last, state
<1>9. ASSUME NEW s \in Seq(Message), Numbered(s, "world_events", last, commits)
      PROVE  Numbered(s, "world_events", last, commits')
  BY <1>2, <1>6, <1>9, NumberedHigher
<1>10. CASE d \notin connected
  <2>1. Downstream(d)' = Downstream(d)
    BY <1>10 DEF Downstream
  <2>2. Link(d) = "closed"
    BY <1>10 DEF Link
  <2>3. Answers(Downstream(d), waiting, "closed", handled'[d], l)
    <3>1. Answers(Downstream(d), waiting, "closed", handled[d], l)
      BY <1>7, <2>2
    <3>2. Answers(Downstream(d), waiting, "closed", handled[d] + 1, l)
      BY <1>2, <3>1, AnswersHandled
    <3>3. QED
      BY <1>3, <3>1, <3>2
  <2>4. QED
    BY <1>2, <1>7, <1>8, <1>9, <2>1, <2>2, <2>3
<1>11. CASE d \in connected
  <2>1. Link(d) = "open"
    BY <1>11 DEF Link
  <2>2. PICK s \in Seq(Message) :
          /\ s = IF d = c THEN Append(Downstream(d), CommandResult(seq)) ELSE Downstream(d)
          /\ Downstream(d)' = IF d \in relevant
                              THEN Append(s, WorldEvents(nextReplicationSequence))
                              ELSE s
    <3>1. QueueOutput(c, seq, relevant)
      BY DEF c, seq
    <3>2. QED
      BY <1>1, <1>11, <3>1, QueueStream
  <2>3. Downstream(d) = <<>> => state # "disconnected"
    BY <1>7, <2>1 DEF Framed
  <2>4. state = "disconnected" => l = 0
    BY <1>7, <2>3
  <2>5. /\ Framed(s, state, "open")
        /\ Numbered(s, "world_events", last, commits)
        /\ DeltasRise(s, m, q, commits)
        /\ BatchesFirst(s)
        /\ Answers(s, waiting, "open", handled'[d], l)
    <3>1. CASE d = c
      <4>1. /\ handled[d] + 1 <= l
            /\ handled'[d] = handled[d] + 1
            /\ s = Append(Downstream(d), CommandResult(handled[d] + 1))
        BY <1>1, <1>3, <2>2, <3>1 DEF l
      <4>2. LET t == Append(Downstream(d), CommandResult(handled[d] + 1))
            IN  /\ Framed(t, state, "open")
                /\ Numbered(t, "world_events", last, commits)
                /\ DeltasRise(t, m, q, commits)
                /\ BatchesFirst(t)
                /\ Answers(t, waiting, "open", handled[d] + 1, l)
        <5>1. /\ Framed(Downstream(d), state, "open")
              /\ Answers(Downstream(d), waiting, "open", handled[d], l)
          BY <1>7, <2>1
        <5> DEFINE u == Downstream(d)
                   h == handled[d]
        <5> HIDE DEF u, h
        <5>2. /\ u \in Seq(Message) /\ h \in Nat /\ h + 1 <= l
              /\ Framed(u, state, "open")
              /\ Numbered(u, "world_events", last, commits)
              /\ DeltasRise(u, m, q, commits)
              /\ BatchesFirst(u)
              /\ Answers(u, waiting, "open", h, l)
          BY <1>2, <1>7, <4>1, <5>1 DEF u, h
        <5>3. LET t == Append(u, CommandResult(h + 1))
              IN  /\ Framed(t, state, "open")
                  /\ Numbered(t, "world_events", last, commits)
                  /\ DeltasRise(t, m, q, commits)
                  /\ BatchesFirst(t)
                  /\ Answers(t, waiting, "open", h + 1, l)
          BY <1>2, <5>2, ResultJoins
        <5>4. QED
          BY <5>3 DEF u, h
      <4>3. QED
        BY <4>1, <4>2
    <3>2. CASE d # c
      BY <1>3, <1>7, <2>1, <2>2, <3>2
    <3>3. QED
      BY <3>1, <3>2
  <2>6. CASE d \in relevant
    <3>1. commits' = commits + 1 /\ Downstream(d)' = Append(s, WorldEvents(commits + 1))
      BY <2>2, <2>6
    <3>2. LET t == Append(s, WorldEvents(commits + 1))
          IN  /\ Framed(t, state, "open")
              /\ Numbered(t, "world_events", last, commits + 1)
              /\ DeltasRise(t, m, q, commits)
              /\ BatchesFirst(t)
              /\ Answers(t, waiting, "open", handled'[d], l)
      BY <1>2, <1>6, <2>5, WorldEventsJoin
    <3>3. Append(s, WorldEvents(commits + 1)) \in Seq(Message)
      BY <1>2, MessageTypes, AppendProperties
    <3>4. QED
      BY <1>8, <2>1, <2>4, <3>1, <3>2, <3>3
  <2>7. CASE d \notin relevant
    BY <1>8, <1>9, <2>1, <2>2, <2>4, <2>5, <2>7
  <2>8. QED
    BY <2>6, <2>7
<1>12. QED
  BY <1>10, <1>11

-----------------------------------------------------------------------------
(* The steps of a tick.                                                    *)

LEMMA OutputTypes ==
  /\ Output \subseteq Message
  /\ \A n \in Nat : CommandResult(n) \in Output /\ WorldEvents(n) \in Output /\ Delta(n) \in Output
BY DEF Output, Message, MessageKinds, ControlKinds, CommandResult, WorldEvents, Delta

\* Moving the front of the queue into the inbox leaves the stream as it is.
LEMMA FlushKeepsStream ==
  ASSUME TypeOK, NEW c \in Clients, FlushSend(c), UNCHANGED clientVars, NEW d \in Clients
  PROVE  Downstream(d)' = Downstream(d)
<1> DEFINE x == IF receiver = c THEN drained ELSE <<>>
           i == clientInbox[c]
           p == pendingOutbound[c]
<1>1. /\ receiver' = receiver /\ drained' = drained /\ connected' = connected
      /\ c \in connected
      /\ p # <<>>
  BY DEF FlushSend, FlushTurn, clientVars
<1>2. /\ clientInbox' = [clientInbox EXCEPT ![c] = Append(i, Head(p))]
      /\ pendingOutbound' = [pendingOutbound EXCEPT ![c] = Tail(p)]
  BY DEF FlushSend
<1>3. CASE d # c
  <2>1. clientInbox'[d] = clientInbox[d] /\ pendingOutbound'[d] = pendingOutbound[d]
    BY <1>2, <1>3 DEF TypeOK, HostTypeOK
  <2>2. QED
    BY <1>1, <2>1 DEF Downstream
<1>4. CASE d = c
  <2>1. x \in Seq(Message) /\ i \in Seq(Message) /\ p \in Seq(Message)
    BY StateTypes, EmptySeq
  <2>2. clientInbox'[c] = Append(i, Head(p)) /\ pendingOutbound'[c] = Tail(p)
    BY <1>2 DEF TypeOK, HostTypeOK
  <2>3. Downstream(c) = (x \o i) \o p
    BY <1>1 DEF Downstream
  <2>4. Downstream(c)' = (x \o Append(i, Head(p))) \o Tail(p)
    BY <1>1, <2>2 DEF Downstream
  <2> HIDE DEF x, i, p
  <2>5. (x \o Append(i, Head(p))) \o Tail(p) = (x \o i) \o p
    <3>1. Head(p) \in Message /\ Tail(p) \in Seq(Message)
      BY <1>1, <2>1, HeadTailProperties
    <3>2. Append(i, Head(p)) = i \o <<Head(p)>> /\ p = <<Head(p)>> \o Tail(p)
      BY <1>1, <2>1, <3>1, AppendIsConcat, HeadThenTail
    <3>3. <<Head(p)>> \in Seq(Message) /\ x \o i \in Seq(Message)
      BY <2>1, <3>1, ConcatProperties
    <3>4. x \o (i \o <<Head(p)>>) = (x \o i) \o <<Head(p)>>
      BY <2>1, <3>3, StreamsAssociate
    <3>5. ((x \o i) \o <<Head(p)>>) \o Tail(p) = (x \o i) \o (<<Head(p)>> \o Tail(p))
      BY <3>1, <3>3, StreamsAssociate
    <3>6. QED
      BY <3>2, <3>4, <3>5
  <2>6. QED
    BY <1>4, <2>3, <2>4, <2>5
<1>5. QED
  BY <1>3, <1>4

LEMMA DeliveryFlush ==
  ASSUME TypeOK, OrderInv, DeliveryInv, NEW c \in Clients, FlushSend(c), UNCHANGED clientVars
  PROVE  DeliveryInv'
<1>1. /\ UNCHANGED <<connected, nextClientId, lastCommandSequence, hostState, phase,
                     outgoingDeltas, handled, commits>>
      /\ c \in connected
      /\ pendingOutbound[c] # <<>>
      /\ pendingOutbound' = [pendingOutbound EXCEPT ![c] = Tail(pendingOutbound[c])]
      /\ phase # "idle"
  BY DEF FlushSend, FlushTurn
<1>2. ASSUME NEW d \in Clients
      PROVE  StreamIsSound(d)'
  <2>1. StreamIsSound(d) /\ Downstream(d)' = Downstream(d)
    BY FlushKeepsStream DEF DeliveryInv
  <2>2. QED
    BY <1>1, <2>1, StreamKept DEF clientVars
<1>3. ASSUME NEW d \in Clients
      PROVE  pendingOutbound'[d] \in Seq(Output)
  <2>1. pendingOutbound[c] \in Seq(Output) /\ pendingOutbound[d] \in Seq(Output)
    BY DEF DeliveryInv
  <2>2. Tail(pendingOutbound[c]) \in Seq(Output)
    BY <1>1, <2>1, HeadTailProperties
  <2>3. QED
    BY <1>1, <2>1, <2>2 DEF TypeOK, HostTypeOK
<1>4. hostState # "stopped" /\ c < nextClientId /\ c \in Nat /\ nextClientId \in Nat
  BY <1>1, ClientsAreNaturals DEF OrderInv, TypeOK, HostTypeOK
<1>5. ASSUME NEW d \in Clients, d >= nextClientId
      PROVE  pendingOutbound'[d] = <<>> /\ pendingCommands'[d] = {}
  <2>1. d # c
    BY <1>4, <1>5
  <2>2. QED
    BY <1>1, <1>5, <2>1 DEF DeliveryInv, TypeOK, HostTypeOK, clientVars
<1>6. QED
  BY <1>1, <1>2, <1>3, <1>4, <1>5 DEF DeliveryInv

LEMMA DeliveryDispatch ==
  ASSUME TypeOK, OneSequencePerCommit, OrderInv, DeliveryInv, UNCHANGED clientVars,
         \/ DispatchWithoutCommit \/ RefuseExhausted
         \/ \E relevant, materialized \in SUBSET connected :
              DispatchCommit(relevant, materialized)
  PROVE  DeliveryInv'
<1> DEFINE c == Head(inbound).sender
           seq == Head(inbound).sequence
<1>1. /\ UNCHANGED <<transportVars, hostState, phase>>
      /\ phase = "dispatch"
      /\ inbound # <<>>
      /\ handled' = [handled EXCEPT ![c] = seq]
  BY DEF DispatchWithoutCommit, RefuseExhausted, DispatchCommit
<1>2. PICK relevant \in SUBSET connected :
        /\ QueueOutput(c, seq, relevant)
        /\ commits' = commits \/ commits' = commits + 1
        /\ relevant # {} => commits' = commits + 1 /\ nextReplicationSequence = commits + 1
        /\ \A d \in Clients :
             \/ outgoingDeltas'[d] = outgoingDeltas[d]
             \/ /\ outgoingDeltas'[d] = Append(outgoingDeltas[d], commits + 1)
                /\ commits' = commits + 1
  <2>1. CASE DispatchWithoutCommit
    <3>1. QueueOutput(c, seq, {}) /\ UNCHANGED <<outgoingDeltas, commits>>
      BY <2>1 DEF DispatchWithoutCommit
    <3>2. QED
      BY <3>1
  <2>2. CASE RefuseExhausted
    <3>1. QueueOutput(c, seq, {}) /\ UNCHANGED <<outgoingDeltas, commits>>
      BY <2>2 DEF RefuseExhausted
    <3>2. QED
      BY <3>1
  <2>3. ASSUME NEW relevant \in SUBSET connected, NEW materialized \in SUBSET connected,
               DispatchCommit(relevant, materialized)
        PROVE  /\ QueueOutput(c, seq, relevant)
               /\ commits' = commits + 1
               /\ nextReplicationSequence = commits + 1
               /\ \A d \in Clients :
                    \/ outgoingDeltas'[d] = outgoingDeltas[d]
                    \/ outgoingDeltas'[d] = Append(outgoingDeltas[d], commits + 1)
    <3>1. nextReplicationSequence = commits + 1
      BY <2>3, HostAssumption DEF DispatchCommit, OneSequencePerCommit, TypeOK, HostTypeOK
    <3>2. QueueOutput(c, seq, relevant) /\ commits' = commits + 1
      BY <2>3 DEF DispatchCommit
    <3>3. outgoingDeltas' = [d \in Clients |->
            IF d \in materialized THEN Append(outgoingDeltas[d], nextReplicationSequence)
                                  ELSE outgoingDeltas[d]]
      BY <2>3 DEF DispatchCommit
    <3>4. QED
      BY <3>1, <3>2, <3>3
  <2>4. QED
    BY <2>1, <2>2, <2>3
<1>3. ASSUME NEW d \in Clients
      PROVE  StreamIsSound(d)'
  <2>1. StreamIsSound(d)
    BY DEF DeliveryInv
  <2>2. QED
    BY <1>1, <1>2, <2>1, DispatchSound DEF transportVars, clientVars
<1>4. c \in Clients /\ seq \in Nat /\ c < nextClientId
  <2>1. c \in Clients /\ seq = handled[c] + 1 /\ c < nextClientId
    BY <1>1, FrontCommand
  <2>2. QED
    BY <2>1, StateTypes
<1> HIDE DEF c, seq
<1>5. ASSUME NEW d \in Clients
      PROVE  pendingOutbound'[d] \in Seq(Output)
  <2> DEFINE r == IF d = c THEN <<CommandResult(seq)>> ELSE <<>>
             e == IF d \in relevant THEN <<WorldEvents(nextReplicationSequence)>> ELSE <<>>
  <2>1. pendingOutbound'[d] = (pendingOutbound[d] \o r) \o e
    BY <1>2 DEF QueueOutput
  <2>2. r \in Seq(Output)
    BY <1>4, OutputTypes
  <2>3. e \in Seq(Output)
    <3>1. nextReplicationSequence \in Nat
      BY HostAssumption DEF TypeOK, HostTypeOK
    <3>2. QED
      BY <3>1, OutputTypes
  <2>4. pendingOutbound[d] \in Seq(Output)
    BY DEF DeliveryInv
  <2> HIDE DEF r, e
  <2>5. QED
    BY <2>1, <2>2, <2>3, <2>4, ConcatProperties
<1>6. hostState # "stopped"
  BY <1>1 DEF OrderInv
<1>7. ASSUME NEW d \in Clients, d >= nextClientId
      PROVE  pendingOutbound'[d] = <<>> /\ pendingCommands'[d] = {}
  <2>1. d \in Nat /\ c \in Nat /\ nextClientId \in Nat /\ \A x \in connected : x < nextClientId
    BY <1>4, ClientsAreNaturals DEF TypeOK, HostTypeOK, OrderInv
  <2>2. d # c /\ d \notin relevant
    BY <1>4, <1>7, <2>1
  <2>3. pendingOutbound[d] = <<>> /\ pendingCommands[d] = {}
    BY <1>7 DEF DeliveryInv
  <2>4. pendingOutbound'[d] = (pendingOutbound[d] \o <<>>) \o <<>>
    BY <1>2, <2>2 DEF QueueOutput
  <2>5. QED
    BY <2>3, <2>4 DEF clientVars
<1>8. QED
  BY <1>1, <1>3, <1>5, <1>6, <1>7 DEF DeliveryInv, transportVars
\* A delta goes out, or joins the queue.
LEMMA DeliverySend ==
  ASSUME TypeOK, OrderInv, DeliveryInv, NEW c \in Clients, SendDelta(c), UNCHANGED clientVars
  PROVE  DeliveryInv'
<1> DEFINE message == Delta(Head(outgoingDeltas[c]))
<1>1. /\ UNCHANGED <<connected, nextClientId, lastCommandSequence, hostState, phase,
                     handled, commits>>
      /\ phase = "replicate"
      /\ c \in connected
      /\ outgoingDeltas[c] # <<>>
      /\ outgoingDeltas' = [outgoingDeltas EXCEPT ![c] = Tail(outgoingDeltas[c])]
  BY DEF SendDelta
<1>2. Head(outgoingDeltas[c]) \in Nat /\ outgoingDeltas[c] \in Seq(Nat)
  BY <1>1, StateTypes, HeadTailProperties
<1>3. /\ message \in Message /\ message \in Output
      /\ message.kind = "delta"
  BY <1>2, MessageTypes, OutputTypes DEF Delta
<1>4. \/ /\ pendingOutbound[c] = <<>>
         /\ clientInbox' = [clientInbox EXCEPT ![c] = Append(clientInbox[c], message)]
         /\ UNCHANGED pendingOutbound
      \/ /\ pendingOutbound' = [pendingOutbound EXCEPT ![c] = Append(pendingOutbound[c], message)]
         /\ UNCHANGED clientInbox
  BY DEF SendDelta
<1> HIDE DEF message
<1>5. Downstream(c)' = Append(Downstream(c), message)
  <2> DEFINE x == IF receiver = c THEN drained ELSE <<>>
             i == clientInbox[c]
             p == pendingOutbound[c]
  <2>1. x \in Seq(Message) /\ i \in Seq(Message) /\ p \in Seq(Message)
    BY StateTypes, EmptySeq
  <2>2. Downstream(c) = (x \o i) \o p
    BY <1>1 DEF Downstream
  <2>3. receiver' = receiver /\ drained' = drained
    BY DEF clientVars
  <2>4. <<message>> \in Seq(Message) /\ x \o i \in Seq(Message)
    BY <1>3, <2>1, ConcatProperties
  <2>5. CASE p = <<>> /\ clientInbox'[c] = Append(i, message) /\ pendingOutbound'[c] = p
    <3>1. Downstream(c)' = (x \o Append(i, message)) \o <<>>
      BY <1>1, <2>3, <2>5 DEF Downstream
    <3> HIDE DEF x, i, p
    <3>2. Append(i, message) = i \o <<message>> /\ Append(i, message) \in Seq(Message)
      BY <1>3, <2>1, AppendIsConcat, AppendProperties
    <3>3. x \o (i \o <<message>>) = (x \o i) \o <<message>>
      BY <2>1, <2>4, StreamsAssociate
    <3>4. (x \o Append(i, message)) \o <<>> = x \o Append(i, message)
      BY <2>1, <3>2, ConcatProperties, ConcatEmptySeq
    <3>5. (x \o i) \o p = x \o i
      BY <2>4, <2>5, ConcatEmptySeq
    <3>6. (x \o i) \o <<message>> = Append(x \o i, message)
      BY <1>3, <2>4, AppendIsConcat
    <3>7. QED
      BY <2>2, <3>1, <3>2, <3>3, <3>4, <3>5, <3>6
  <2>6. CASE clientInbox'[c] = i /\ pendingOutbound'[c] = Append(p, message)
    <3>1. Downstream(c)' = (x \o i) \o Append(p, message)
      BY <1>1, <2>3, <2>6 DEF Downstream
    <3> HIDE DEF x, i, p
    <3>2. Append(p, message) = p \o <<message>>
      BY <1>3, <2>1, AppendIsConcat
    <3>3. ((x \o i) \o p) \o <<message>> = (x \o i) \o (p \o <<message>>)
      BY <2>1, <2>4, StreamsAssociate
    <3>4. (x \o i) \o p \in Seq(Message)
      BY <2>1, <2>4, ConcatProperties
    <3>5. ((x \o i) \o p) \o <<message>> = Append((x \o i) \o p, message)
      BY <1>3, <3>4, AppendIsConcat
    <3>6. QED
      BY <2>2, <3>1, <3>2, <3>3, <3>5
  <2>7. QED
    BY <1>4, <2>5, <2>6 DEF TypeOK, HostTypeOK
<1>6. StreamIsSound(c)'
  <2> DEFINE s == Downstream(c)
  <2>1. StreamIsSound(c)
    BY DEF DeliveryInv
  <2>2. Link(c)' = "open" /\ Link(c) = "open"
    BY <1>1 DEF Link
  <2>3. outgoingDeltas'[c] = Tail(outgoingDeltas[c])
    BY <1>1 DEF TypeOK, HostTypeOK
  <2>4. /\ s \in Seq(Message) /\ commits \in Nat
        /\ replicationMessages[c] \in Seq(Nat) /\ pendingCommands[c] \in SUBSET Nat
        /\ handled[c] \in Nat /\ lastCommandSequence[c] \in Nat
        /\ lastReplicationSequence[c] \in Nat
    BY StateTypes
  <2>5. /\ Framed(s, sessionState[c], "open")
        /\ Numbered(s, "world_events", lastReplicationSequence[c], commits)
        /\ DeltasRise(s, replicationMessages[c], outgoingDeltas[c], commits)
        /\ BatchesFirst(s)
        /\ Answers(s, pendingCommands[c], "open", handled[c], lastCommandSequence[c])
        /\ sessionState[c] = "disconnected" /\ s # <<>> => lastCommandSequence[c] = 0
        /\ ~faulted[c]
    BY <2>1, <2>2 DEF StreamIsSound
  <2> HIDE DEF s
  <2>6. /\ message.kind \notin ControlKinds
        /\ message.kind # "world_events" /\ message.kind # "command_result"
    BY <1>3 DEF ControlKinds
  <2>7. Framed(Append(s, message), sessionState[c], "open")
    BY <1>3, <2>4, <2>5, <2>6, FramedAppend
  <2>8. Numbered(Append(s, message), "world_events", lastReplicationSequence[c], commits)
    BY <1>3, <2>4, <2>5, <2>6, NumberedAppend
  <2>9. DeltasRise(Append(s, message), replicationMessages[c], Tail(outgoingDeltas[c]), commits)
    BY <1>1, <1>2, <2>4, <2>5, DeltasRiseSend DEF message
  <2>10. BatchesFirst(Append(s, message))
    <3>1. PICK a \in Nat, b \in Nat : Numbered(s, "delta", a, b)
      BY <2>5 DEF DeltasRise
    <3>2. QED
      BY <1>3, <2>4, <2>5, <2>6, <3>1, BatchesFirstAppend
  <2>11. Answers(Append(s, message), pendingCommands[c], "open", handled[c],
                 lastCommandSequence[c])
    BY <1>3, <2>4, <2>5, <2>6, AnswersAppend
  <2>12. sessionState[c] = "disconnected" => lastCommandSequence[c] = 0
    BY <2>5 DEF Framed
  <2>13. UNCHANGED <<sessionState, lastReplicationSequence, replicationMessages,
                     pendingCommands, faulted>>
    BY DEF clientVars
  <2>14. Downstream(c)' = Append(s, message)
    BY <1>5 DEF s
  <2>15. QED
    BY <1>1, <2>2, <2>3, <2>5, <2>7, <2>8, <2>9, <2>10, <2>11, <2>12, <2>13, <2>14
    DEF StreamIsSound
<1>7. ASSUME NEW d \in Clients, d # c
      PROVE  StreamIsSound(d)'
  <2>1. StreamIsSound(d)
    BY DEF DeliveryInv
  <2>2. /\ clientInbox'[d] = clientInbox[d] /\ pendingOutbound'[d] = pendingOutbound[d]
        /\ outgoingDeltas'[d] = outgoingDeltas[d]
    BY <1>1, <1>4, <1>7 DEF TypeOK, HostTypeOK
  <2>3. Downstream(d)' = Downstream(d)
    BY <1>1, <2>2 DEF Downstream, clientVars
  <2>4. QED
    BY <1>1, <2>1, <2>2, <2>3, StreamKept DEF clientVars
<1>8. ASSUME NEW d \in Clients
      PROVE  pendingOutbound'[d] \in Seq(Output)
  <2>1. pendingOutbound[c] \in Seq(Output) /\ pendingOutbound[d] \in Seq(Output)
    BY DEF DeliveryInv
  <2>2. Append(pendingOutbound[c], message) \in Seq(Output)
    BY <1>3, <2>1, AppendProperties
  <2>3. QED
    BY <1>4, <2>1, <2>2 DEF TypeOK, HostTypeOK
<1>9. hostState # "stopped" /\ c < nextClientId /\ c \in Nat /\ nextClientId \in Nat
  BY <1>1, ClientsAreNaturals DEF OrderInv, TypeOK, HostTypeOK
<1>10. ASSUME NEW d \in Clients, d >= nextClientId
       PROVE  pendingOutbound'[d] = <<>> /\ pendingCommands'[d] = {}
  <2>1. d # c
    BY <1>9, <1>10
  <2>2. QED
    BY <1>4, <1>10, <2>1 DEF DeliveryInv, TypeOK, HostTypeOK, clientVars
<1>11. QED
  BY <1>1, <1>6, <1>7, <1>8, <1>9, <1>10 DEF DeliveryInv

LEMMA DeliveryTick ==
  ASSUME TypeOK, OneSequencePerCommit, OrderInv, DeliveryInv, ContinueTick
  PROVE  DeliveryInv'
<1>1. UNCHANGED clientVars
  BY DEF ContinueTick
<1>2. CASE \/ \E c \in Clients : FlushFail(c)
           \/ TickDrain \/ TickBlocked \/ DispatchDone \/ DeliverDone \/ TickEnd
  <2>1. UNCHANGED <<connected, nextClientId, lastCommandSequence, clientInbox, hostState,
                    pendingOutbound, outgoingDeltas, handled, commits>>
    BY <1>2 DEF FlushFail, TickDrain, TickBlocked, DispatchDone, DeliverDone, TickEnd,
                transportVars
  <2>2. ASSUME NEW d \in Clients
        PROVE  StreamIsSound(d)'
    <3>1. StreamIsSound(d)
      BY DEF DeliveryInv
    <3>2. Downstream(d)' = Downstream(d)
      BY <1>1, <2>1 DEF Downstream, clientVars
    <3>3. QED
      BY <1>1, <2>1, <3>1, <3>2, StreamKept DEF clientVars
  <2>3. phase' \in {"idle", "retry"} => \A c \in Clients : outgoingDeltas[c] = <<>>
    BY <1>2 DEF FlushFail, FlushTurn, TickDrain, TickBlocked, DispatchDone, DeliverDone,
                TickEnd, DeliveryInv
  <2>4. QED
    BY <1>1, <2>1, <2>2, <2>3 DEF DeliveryInv, clientVars
<1>3. QED
  BY <1>1, <1>2, DeliveryFlush, DeliveryDispatch, DeliverySend DEF ContinueTick, TickStep

-----------------------------------------------------------------------------
(* The receive loop.                                                       *)

LEMMA TailOfConcat ==
  ASSUME NEW s \in Seq(Message), s # <<>>, NEW t \in Seq(Message)
  PROVE  /\ s \o t # <<>>
         /\ (s \o t)[1] = s[1]
         /\ Tail(s \o t) = Tail(s) \o t
<1> DEFINE w == Tail(s)
           u == w \o t
           v == Tail(s \o t)
<1>1. /\ Len(s) \in Nat \ {0} /\ Len(t) \in Nat
      /\ w \in Seq(Message)
      /\ Len(w) = Len(s) - 1
      /\ \A i \in 1 .. Len(s) - 1 : w[i] = s[i + 1]
  BY TailIndex, LenProperties
<1>2. /\ s \o t \in Seq(Message)
      /\ Len(s \o t) = Len(s) + Len(t)
      /\ \A i \in 1 .. Len(s) + Len(t) :
           (s \o t)[i] = IF i <= Len(s) THEN s[i] ELSE t[i - Len(s)]
  BY ConcatProperties
<1>3. s \o t # <<>>
  BY <1>1, <1>2, EmptySeq
<1>4. (s \o t)[1] = s[1]
  BY <1>1, <1>2
<1>5. /\ u \in Seq(Message)
      /\ Len(u) = Len(s) - 1 + Len(t)
      /\ \A i \in 1 .. Len(s) - 1 + Len(t) :
           u[i] = IF i <= Len(s) - 1 THEN s[i + 1] ELSE t[i - (Len(s) - 1)]
  <2> HIDE DEF w
  <2>1. /\ u \in Seq(Message)
        /\ Len(u) = Len(w) + Len(t)
        /\ \A i \in 1 .. Len(w) + Len(t) :
             u[i] = IF i <= Len(w) THEN w[i] ELSE t[i - Len(w)]
    <3>1. w \in Seq(Message)
      BY <1>1
    <3>2. QED
      BY <3>1, StreamsJoin
  <2> HIDE DEF u
  <2>2. Len(w) + Len(t) = Len(s) - 1 + Len(t)
    BY <1>1
  <2>3. ASSUME NEW i \in 1 .. Len(s) - 1 + Len(t)
        PROVE  u[i] = IF i <= Len(s) - 1 THEN s[i + 1] ELSE t[i - (Len(s) - 1)]
    <3>1. i <= Len(s) - 1 => i \in 1 .. Len(s) - 1
      BY <1>1
    <3>2. u[i] = IF i <= Len(w) THEN w[i] ELSE t[i - Len(w)]
      BY <2>1, <2>2
    <3>3. QED
      BY <1>1, <3>1, <3>2
  <2>4. QED
    BY <2>1, <2>2, <2>3
<1>6. /\ v \in Seq(Message)
      /\ Len(v) = Len(s) + Len(t) - 1
      /\ \A i \in 1 .. Len(s) + Len(t) - 1 : v[i] = (s \o t)[i + 1]
  <2> DEFINE z == s \o t
  <2>1. z \in Seq(Message) /\ z # <<>> /\ Len(z) = Len(s) + Len(t)
    BY <1>2, <1>3
  <2> HIDE DEF z
  <2>2. /\ Tail(z) \in Seq(Message)
        /\ Len(Tail(z)) = Len(s) + Len(t) - 1
        /\ \A i \in 1 .. Len(s) + Len(t) - 1 : Tail(z)[i] = z[i + 1]
    BY <2>1, TailIndex
  <2>3. QED
    BY <2>2 DEF z
<1> HIDE DEF u, v, w
<1>7. Len(u) = Len(v)
  BY <1>1, <1>5, <1>6
<1>8. ASSUME NEW i \in 1 .. Len(v)
      PROVE  v[i] = u[i]
  <2>1. /\ i \in 1 .. Len(s) - 1 + Len(t)
        /\ i \in 1 .. Len(s) + Len(t) - 1
        /\ i + 1 \in 1 .. Len(s) + Len(t)
        /\ (i + 1) - Len(s) = i - (Len(s) - 1)
        /\ i + 1 <= Len(s) <=> i <= Len(s) - 1
    BY <1>1, <1>6
  <2>2. v[i] = IF i + 1 <= Len(s) THEN s[i + 1] ELSE t[(i + 1) - Len(s)]
    BY <1>2, <1>6, <2>1
  <2>3. u[i] = IF i <= Len(s) - 1 THEN s[i + 1] ELSE t[i - (Len(s) - 1)]
    BY <1>5, <2>1
  <2>4. QED
    BY <2>1, <2>2, <2>3
<1>9. v = u
  BY <1>5, <1>6, <1>7, <1>8, SeqEqual
<1>10. QED
  BY <1>3, <1>4, <1>9 DEF u, v, w

\* The message the loop receives is the front of the client's stream.
LEMMA FrontOfStream ==
  ASSUME TypeOK, receiver \in Clients, drained # <<>>
  PROVE  /\ Downstream(receiver) # <<>>
         /\ Downstream(receiver)[1] = Head(drained)
         /\ drained' = Tail(drained) /\ receiver' = receiver /\ UNCHANGED hostVars
            => Downstream(receiver)' = Tail(Downstream(receiver))
<1> DEFINE i == clientInbox[receiver]
           p == IF receiver \in connected THEN pendingOutbound[receiver] ELSE <<>>
<1>1. drained \in Seq(Message) /\ i \in Seq(Message) /\ p \in Seq(Message)
  BY StateTypes, EmptySeq
<1>2. Downstream(receiver) = (drained \o i) \o p
  BY DEF Downstream
<1>3. drained' = Tail(drained) /\ receiver' = receiver /\ UNCHANGED hostVars
      => Downstream(receiver)' = (Tail(drained) \o i) \o p
  BY DEF Downstream, hostVars, transportVars
<1>4. Head(drained) = drained[1]
  BY <1>1, TailIndex
<1> HIDE DEF i, p
<1>5. /\ drained \o i # <<>>
      /\ (drained \o i)[1] = drained[1]
      /\ Tail(drained \o i) = Tail(drained) \o i
      /\ drained \o i \in Seq(Message)
  BY <1>1, TailOfConcat, ConcatProperties
<1>6. /\ (drained \o i) \o p # <<>>
      /\ ((drained \o i) \o p)[1] = (drained \o i)[1]
      /\ Tail((drained \o i) \o p) = Tail(drained \o i) \o p
  BY <1>1, <1>5, TailOfConcat
<1>7. QED
  BY <1>2, <1>3, <1>4, <1>5, <1>6

\* The client takes the front of a sound stream.
LEMMA FrontIsAcceptable ==
  ASSUME TypeOK, NEW c \in Clients, StreamIsSound(c), Downstream(c) # <<>>
  PROVE  Acceptable(c, Downstream(c)[1])
<1> DEFINE s == Downstream(c)
<1>1. s \in Seq(Message) /\ sessionState[c] \in {"disconnected", "connected"}
  BY StateTypes
<1>2. /\ Framed(s, sessionState[c], Link(c))
      /\ Numbered(s, "world_events", lastReplicationSequence[c], commits)
      /\ Answers(s, pendingCommands[c], Link(c), handled[c], lastCommandSequence[c])
  BY DEF StreamIsSound
<1> HIDE DEF s
<1>3. s # <<>>
  BY DEF s
<1>4. 1 \in 1 .. Len(s) /\ s[1].kind \in MessageKinds /\ s[1].sequence \in Nat
  BY <1>1, <1>3, TailIndex, MessageFields
<1>5. s[1].kind = "welcome" <=> sessionState[c] = "disconnected"
  BY <1>1, <1>2, <1>3, FramedTail
<1>6. s[1].kind = "world_events" => s[1].sequence > lastReplicationSequence[c]
  <2>1. s[1].kind = "world_events" => lastReplicationSequence[c] < s[1].sequence
    BY <1>2, <1>4 DEF Numbered
  <2>2. QED
    BY <1>4, <2>1, StateTypes
<1>7. s[1].kind = "command_result" => s[1].sequence \in pendingCommands[c]
  BY <1>2, <1>4 DEF Answers
<1>8. Acceptable(c, s[1])
  BY <1>1, <1>4, <1>5, <1>6, <1>7 DEF Acceptable, MessageKinds, ControlKinds
<1>9. QED
  BY <1>8 DEF s

\* What every received message does to the stream it is taken from.
LEMMA ReceiveSound ==
  ASSUME TypeOK, OrderInv, NEW c \in Clients, c = receiver, StreamIsSound(c),
         ReceiveMessage, UNCHANGED hostVars
  PROVE  StreamIsSound(c)'
<1> DEFINE s == Downstream(c)
           m == replicationMessages[c]
           q == outgoingDeltas[c]
           waiting == pendingCommands[c]
           h == handled[c]
           l == lastCommandSequence[c]
           last == lastReplicationSequence[c]
           state == sessionState[c]
           link == Link(c)
           kind == Head(drained).kind
           n == Head(drained).sequence
<1>1. /\ s \in Seq(Message) /\ m \in Seq(Nat) /\ q \in Seq(Nat)
      /\ waiting \in SUBSET Nat /\ h \in Nat /\ l \in Nat /\ last \in Nat
      /\ commits \in Nat /\ state \in {"disconnected", "connected"}
  BY StateTypes
<1>2. /\ Framed(s, state, link)
      /\ Numbered(s, "world_events", last, commits)
      /\ DeltasRise(s, m, q, commits)
      /\ BatchesFirst(s)
      /\ Answers(s, waiting, link, h, l)
      /\ state = "disconnected" /\ s # <<>> => l = 0
      /\ ~faulted[c]
  BY DEF StreamIsSound
<1>3. /\ s # <<>>
      /\ s[1] = Head(drained)
      /\ Downstream(c)' = Tail(s)
  BY FrontOfStream DEF ReceiveMessage
<1>4. /\ Link(c)' = link
      /\ outgoingDeltas'[c] = q /\ commits' = commits /\ handled'[c] = h
      /\ lastCommandSequence'[c] = l /\ faulted' = faulted
  BY DEF ReceiveMessage, hostVars, transportVars, tickVars, Link
<1>5. kind = s[1].kind /\ n = s[1].sequence
  BY <1>3
<1>6. h <= l
  BY DEF OrderInv, UnbrokenRun
<1> HIDE DEF s, m, q, waiting, h, l, last, state, link, kind, n
<1>7. /\ kind = "welcome" <=> state = "disconnected"
      /\ kind # "disconnect" => Framed(Tail(s), "connected", link)
      /\ kind = "disconnect" => Tail(s) = <<>> /\ link = "closed"
  BY <1>1, <1>2, <1>3, <1>5, FramedTail
<1>8. /\ Numbered(Tail(s), "world_events", last, commits)
      /\ kind = "world_events" => Numbered(Tail(s), "world_events", n, commits)
  BY <1>1, <1>2, <1>3, <1>5, NumberedTail
<1>9. /\ DeltasRise(Tail(s), m, q, commits)
      /\ kind = "delta" => DeltasRise(Tail(s), Append(m, n), q, commits)
  BY <1>1, <1>2, <1>3, <1>5, DeltasRiseTail
<1>10. BatchesFirst(Tail(s))
  BY <1>1, <1>2, <1>3, BatchesFirstTail
<1>11. /\ kind # "command_result" => Answers(Tail(s), waiting, link, h, l)
       /\ kind = "command_result" => Answers(Tail(s), waiting \ {n}, link, h, l)
  BY <1>1, <1>2, <1>3, <1>5, AnswersTail
<1>12. \/ ReceiveWelcome(c) \/ ReceiveCommandResult(c) \/ ReceiveWorldEvents(c)
       \/ ReceiveDelta(c) \/ ReceiveDisconnect(c)
  BY DEF ReceiveMessage
<1>13. CASE ReceiveWelcome(c)
  <2>1. kind = "welcome"
    BY <1>13 DEF ReceiveWelcome, kind
  <2>2. /\ sessionState'[c] = "connected" /\ pendingCommands'[c] = {}
        /\ lastReplicationSequence'[c] = 0 /\ replicationMessages'[c] = <<>>
    BY <1>13 DEF ReceiveWelcome, TypeOK, ClientTypeOK
  <2>3. l = 0 /\ h = 0
    BY <1>1, <1>2, <1>3, <1>6, <1>7, <2>1
  <2>4. Numbered(Tail(s), "world_events", 0, commits)
    <3>1. Tail(s) \in Seq(Message)
      BY <1>1, <1>3, TailIndex
    <3>2. QED
      BY <1>1, <1>8, <3>1, NumberedLower
  <2>5. DeltasRise(Tail(s), <<>>, q, commits)
    BY <1>9, DeltasRiseDrop
  <2>6. Answers(Tail(s), {}, link, h, l)
    BY <1>1, <1>2, <1>3, <2>3, AnswersWelcome
  <2>7. Framed(Tail(s), "connected", link)
    BY <1>7, <2>1
  <2>8. QED
    BY <1>2, <1>3, <1>4, <1>10, <2>2, <2>4, <2>5, <2>6, <2>7 DEF StreamIsSound
<1>14. CASE ReceiveDisconnect(c)
  <2>1. kind = "disconnect"
    BY <1>14 DEF ReceiveDisconnect, kind
  <2>2. /\ sessionState'[c] = "disconnected" /\ pendingCommands'[c] = {}
        /\ lastReplicationSequence'[c] = last /\ replicationMessages'[c] = m
    BY <1>14 DEF ReceiveDisconnect, TypeOK, ClientTypeOK, last, m
  <2>3. Tail(s) = <<>> /\ link = "closed"
    BY <1>7, <2>1
  <2>4. Framed(<<>>, "disconnected", "closed")
    BY DEF Framed
  <2>5. Answers(<<>>, {}, "closed", h, l)
    BY <1>1, AnswersEmpty
  <2>6. QED
    BY <1>2, <1>3, <1>4, <1>8, <1>9, <1>10, <2>2, <2>3, <2>4, <2>5 DEF StreamIsSound
<1>15. CASE ReceiveCommandResult(c)
  <2>1. kind = "command_result"
    BY <1>15 DEF ReceiveCommandResult, kind
  <2>2. /\ sessionState'[c] = state /\ pendingCommands'[c] = waiting \ {n}
        /\ lastReplicationSequence'[c] = last /\ replicationMessages'[c] = m
    BY <1>15 DEF ReceiveCommandResult, TypeOK, ClientTypeOK, last, m, state, waiting, n
  <2>3. state = "connected" /\ Framed(Tail(s), "connected", link)
    BY <1>1, <1>7, <2>1
  <2>4. QED
    BY <1>2, <1>3, <1>4, <1>8, <1>9, <1>10, <1>11, <2>1, <2>2, <2>3 DEF StreamIsSound
<1>16. CASE ReceiveWorldEvents(c)
  <2>1. kind = "world_events"
    BY <1>16 DEF ReceiveWorldEvents, kind
  <2>2. /\ sessionState'[c] = state /\ pendingCommands'[c] = waiting
        /\ lastReplicationSequence'[c] = n /\ replicationMessages'[c] = m
    BY <1>16 DEF ReceiveWorldEvents, TypeOK, ClientTypeOK, m, state, waiting, n
  <2>3. state = "connected" /\ Framed(Tail(s), "connected", link)
    BY <1>1, <1>7, <2>1
  <2>4. QED
    BY <1>2, <1>3, <1>4, <1>8, <1>9, <1>10, <1>11, <2>1, <2>2, <2>3 DEF StreamIsSound
<1>17. CASE ReceiveDelta(c)
  <2>1. kind = "delta"
    BY <1>17 DEF ReceiveDelta, kind
  <2>2. /\ sessionState'[c] = state /\ pendingCommands'[c] = waiting
        /\ lastReplicationSequence'[c] = last /\ replicationMessages'[c] = Append(m, n)
    BY <1>17 DEF ReceiveDelta, TypeOK, ClientTypeOK, m, state, waiting, last, n
  <2>3. state = "connected" /\ Framed(Tail(s), "connected", link)
    BY <1>1, <1>7, <2>1
  <2>4. QED
    BY <1>2, <1>3, <1>4, <1>8, <1>9, <1>10, <1>11, <2>1, <2>2, <2>3 DEF StreamIsSound
<1>18. QED
  BY <1>12, <1>13, <1>14, <1>15, <1>16, <1>17

\* The end of the loop: no two deltas of one commit are found.
LEMMA SynchronizeSound ==
  ASSUME TypeOK, NEW c \in Clients, c = receiver, StreamIsSound(c),
         Synchronize, UNCHANGED hostVars
  PROVE  StreamIsSound(c)' /\ faulted' = faulted
<1>1. ~HasDuplicateDelta(c)
  <2>1. PICK a \in Nat : Rising(replicationMessages[c], 0, a)
    BY DEF StreamIsSound, DeltasRise
  <2>2. replicationMessages[c] \in Seq(Nat)
    BY StateTypes
  <2>3. DOMAIN replicationMessages[c] = 1 .. Len(replicationMessages[c])
    BY <2>2, LenProperties
  <2>4. \A i \in 1 .. Len(replicationMessages[c]) : replicationMessages[c][i] \in Nat
    BY <2>2, ElementOfSeq
  <2>5. QED
    BY <2>1, <2>3, <2>4 DEF HasDuplicateDelta, Rising
<1>2. /\ drained = <<>> /\ drained' = drained /\ receiver' = NoClient /\ c # NoClient
      /\ faulted' = faulted
      /\ replicationMessages'[c] = <<>>
      /\ UNCHANGED <<sessionState, pendingCommands, lastReplicationSequence>>
  BY <1>1 DEF Synchronize, TypeOK, ClientTypeOK
<1>3. Downstream(c)' = Downstream(c)
  BY <1>2 DEF Downstream, hostVars, transportVars
<1>4. DeltasRise(Downstream(c), <<>>, outgoingDeltas[c], commits)
  BY DeltasRiseDrop DEF StreamIsSound
<1>5. Link(c)' = Link(c)
  BY DEF Link, hostVars, transportVars
<1>6. QED
  BY <1>2, <1>3, <1>4, <1>5 DEF StreamIsSound, hostVars, transportVars, tickVars

LEMMA DeliveryReceive ==
  ASSUME TypeOK, OrderInv, DeliveryInv, ReceiveStep
  PROVE  DeliveryInv'
<1>1. UNCHANGED hostVars
  BY DEF ReceiveStep
<1>2. PICK c \in Clients : c = receiver /\ StreamIsSound(c)
  BY DEF ReceiveStep, ReceiveMessage, RejectMessage, Synchronize, TypeOK, ClientTypeOK,
         DeliveryInv
<1>3. ~RejectMessage
  <2>1. SUFFICES ASSUME RejectMessage PROVE FALSE
    OBVIOUS
  <2>2. Acceptable(c, Downstream(c)[1])
    BY <1>2, <2>1, FrontOfStream, FrontIsAcceptable DEF RejectMessage
  <2>3. QED
    BY <1>2, <2>1, <2>2, FrontOfStream DEF RejectMessage
<1>4. ReceiveMessage \/ Synchronize
  BY <1>3 DEF ReceiveStep
<1>5. StreamIsSound(c)' /\ faulted' = faulted
  BY <1>1, <1>2, <1>4, ReceiveSound, SynchronizeSound DEF ReceiveMessage
<1>6. ASSUME NEW d \in Clients, d # c
      PROVE  /\ StreamIsSound(d)'
             /\ pendingCommands'[d] = pendingCommands[d]
  <2>1. StreamIsSound(d)
    BY DEF DeliveryInv
  <2>2. /\ sessionState'[d] = sessionState[d]
        /\ lastReplicationSequence'[d] = lastReplicationSequence[d]
        /\ replicationMessages'[d] = replicationMessages[d]
        /\ pendingCommands'[d] = pendingCommands[d]
        /\ receiver' # d
    BY <1>2, <1>4, <1>6, ClientsAreNaturals
    DEF ReceiveMessage, ReceiveWelcome, ReceiveCommandResult, ReceiveWorldEvents,
        ReceiveDelta, ReceiveDisconnect, Synchronize, TypeOK, ClientTypeOK
  <2>3. Downstream(d)' = Downstream(d)
    <3>1. /\ receiver # d /\ receiver' # d
          /\ UNCHANGED <<clientInbox, connected, pendingOutbound>>
      BY <1>1, <1>2, <1>6, <2>2 DEF hostVars, transportVars
    <3>2. QED
      BY <3>1 DEF Downstream
  <2>4. QED
    BY <1>1, <1>5, <2>1, <2>2, <2>3, StreamKept DEF hostVars, transportVars, tickVars
<1>7. \A d \in Clients : StreamIsSound(d)'
  BY <1>5, <1>6
<1>8. hostState # "stopped" /\ c < nextClientId
  BY <1>2, ClientsAreNaturals DEF OrderInv, NewSession, TypeOK, HostTypeOK
<1>9. \A d \in Clients : d >= nextClientId => pendingCommands'[d] = {}
  <2>1. nextClientId \in Nat /\ \A d \in Clients : d \in Nat
    BY ClientsAreNaturals DEF TypeOK, HostTypeOK
  <2>2. QED
    BY <1>2, <1>6, <1>8, <2>1 DEF DeliveryInv
<1>10. QED
  BY <1>1, <1>7, <1>8, <1>9 DEF DeliveryInv, hostVars, transportVars, tickVars
-----------------------------------------------------------------------------
(* Sessions, connections and the commands clients create.                  *)

\* A stream nothing was ever put into.
LEMMA EmptyStreamIsSound ==
  ASSUME NEW n \in Nat, NEW h \in Nat
  PROVE  /\ Framed(<<>>, "disconnected", "closed")
         /\ Numbered(<<>>, "world_events", 0, n)
         /\ DeltasRise(<<>>, <<>>, <<>>, n)
         /\ BatchesFirst(<<>>)
         /\ \A waiting, l : Answers(<<>>, waiting, "closed", h, l)
<1>1. Framed(<<>>, "disconnected", "closed") /\ BatchesFirst(<<>>)
  BY DEF Framed, BatchesFirst
<1>2. Numbered(<<>>, "world_events", 0, n)
  BY NumberedEmpty
<1>3. \A waiting, l : Answers(<<>>, waiting, "closed", h, l)
  BY AnswersEmpty
<1>4. QED
  BY <1>1, <1>2, <1>3, DeltasRiseEmpty

LEMMA DeliveryInit == Init => DeliveryInv
<1> SUFFICES ASSUME Init PROVE DeliveryInv
  OBVIOUS
<1>1. ASSUME NEW c \in Clients
      PROVE  StreamIsSound(c)
  <2>1. /\ Downstream(c) = <<>>
        /\ Link(c) = "closed"
    BY ClientsAreNaturals DEF Init, HostInit, ClientInit, Downstream, Link
  <2>2. QED
    BY <2>1, EmptyStreamIsSound DEF Init, HostInit, ClientInit, StreamIsSound
<1>2. \A c \in Clients : pendingOutbound[c] \in Seq(Output)
  BY DEF Init, HostInit
<1>3. QED
  BY <1>1, <1>2 DEF Init, HostInit, ClientInit, DeliveryInv

\* A session begins or ends: every stream is empty.
LEMMA DeliveryRestart ==
  ASSUME TypeOK, OrderInv, DeliveryInv, StartSession \/ StopSession
  PROVE  DeliveryInv'
<1>1. /\ phase' = phase /\ phase = "idle"
      /\ outgoingDeltas' = outgoingDeltas
      /\ connected' = {}
      /\ receiver' = NoClient
      /\ clientInbox' = [c \in Clients |-> <<>>]
      /\ pendingOutbound' = [c \in Clients |-> <<>>]
      /\ handled' = [c \in Clients |-> 0]
      /\ commits' = commits \/ commits' = 0
  BY DEF StartSession, StopSession, Start, Stop, Idle, FreshTransport, ClientReset,
         Quiescent, tickVars, clientVars, OrderInv
<1>2. ASSUME NEW c \in Clients
      PROVE  /\ sessionState'[c] = "disconnected"
             /\ pendingCommands'[c] = {}
             /\ lastReplicationSequence'[c] = 0
             /\ replicationMessages'[c] = <<>>
             /\ ~faulted'[c]
  <2>1. CASE StartSession
    <3>1. hostState = "stopped" /\ UNCHANGED clientVars
      BY <2>1 DEF StartSession, Start
    <3>2. QED
      BY <3>1 DEF clientVars, OrderInv, NewSession, DeliveryInv, StreamIsSound
  <2>2. CASE StopSession
    BY <2>2 DEF StopSession, ClientReset
  <2>3. QED
    BY <2>1, <2>2
<1>3. ASSUME NEW c \in Clients
      PROVE  StreamIsSound(c)'
  <2>1. /\ Downstream(c)' = <<>>
        /\ Link(c)' = "closed"
    BY <1>1, ClientsAreNaturals DEF Downstream, Link
  <2>2. outgoingDeltas'[c] = <<>> /\ handled'[c] = 0
    BY <1>1 DEF DeliveryInv
  <2>3. commits' \in Nat
    BY <1>1 DEF TypeOK, HostTypeOK
  <2>4. QED
    BY <1>2, <2>1, <2>2, <2>3, EmptyStreamIsSound DEF StreamIsSound
<1>4. \A c \in Clients : pendingOutbound'[c] \in Seq(Output)
  BY <1>1
<1>5. \A c \in Clients : outgoingDeltas'[c] = <<>>
  BY <1>1 DEF DeliveryInv
<1>6. QED
  BY <1>1, <1>2, <1>3, <1>4, <1>5 DEF DeliveryInv

\* A new client's stream is its welcome.
LEMMA DeliveryConnect ==
  ASSUME TypeOK, OrderInv, DeliveryInv, ConnectClient
  PROVE  DeliveryInv'
<1>0. PICK c \in Clients : c = nextClientId
  BY DEF ConnectClient, Connect
<1>1. /\ nextClientId' = c + 1
      /\ UNCHANGED clientVars
      /\ UNCHANGED <<lastCommandSequence, hostState, pendingOutbound, phase,
                     outgoingDeltas, handled, commits>>
      /\ phase = "idle"
      /\ hostState # "stopped"
  BY <1>0 DEF ConnectClient, Connect, Idle, tickVars
<1>2. \/ /\ connected' = connected \cup {c}
         /\ clientInbox' = [clientInbox EXCEPT ![c] = Append(clientInbox[c], Welcome)]
      \/ UNCHANGED <<connected, clientInbox>>
  BY <1>0 DEF ConnectClient, Connect
<1>3. \A d \in Clients : d \in Nat /\ nextClientId \in Nat
  BY ClientsAreNaturals DEF TypeOK, HostTypeOK
<1>4. /\ sessionState[c] = "disconnected"
      /\ lastCommandSequence[c] = 0
      /\ clientInbox[c] = <<>>
      /\ receiver # c
      /\ c \notin connected
      /\ pendingOutbound[c] = <<>>
      /\ pendingCommands[c] = {}
  BY <1>0, <1>1, <1>3 DEF OrderInv, NewSession, DeliveryInv
<1>5. ASSUME NEW d \in Clients, d # c \/ UNCHANGED <<connected, clientInbox>>
      PROVE  StreamIsSound(d)'
  <2>1. clientInbox'[d] = clientInbox[d] /\ (d \in connected' <=> d \in connected)
    BY <1>2, <1>5 DEF TypeOK, HostTypeOK
  <2>2. Downstream(d)' = Downstream(d)
    BY <1>1, <2>1 DEF Downstream, clientVars
  <2>3. StreamIsSound(d)
    BY DEF DeliveryInv
  <2>4. QED
    BY <1>1, <2>1, <2>2, <2>3, StreamKept DEF clientVars
<1>6. ASSUME connected' = connected \cup {c},
             clientInbox' = [clientInbox EXCEPT ![c] = Append(clientInbox[c], Welcome)]
      PROVE  StreamIsSound(c)'
  <2>1. clientInbox'[c] = <<Welcome>> /\ pendingOutbound'[c] = <<>> /\ receiver' # c
    BY <1>1, <1>4, <1>6 DEF TypeOK, HostTypeOK, clientVars
  <2>2. Downstream(c)' = <<Welcome>>
    <3>1. Downstream(c)' = (<<>> \o <<Welcome>>) \o <<>>
      BY <1>6, <2>1 DEF Downstream
    <3>2. <<Welcome>> \in Seq(Message)
      BY MessageTypes
    <3>3. QED
      BY <3>1, <3>2, ConcatEmptySeq
  <2>3. Link(c)' = "open"
    BY <1>6 DEF Link
  <2>4. Len(<<Welcome>>) = 1 /\ <<Welcome>>[1].kind = "welcome" /\ <<Welcome>> # <<>>
    BY DEF Welcome
  <2> DEFINE s == <<Welcome>>
  <2> HIDE DEF s
  <2>5. Len(s) = 1 /\ s[1].kind = "welcome" /\ s # <<>>
    BY <2>4 DEF s
  <2>6. Framed(s, "disconnected", "open")
    BY <2>5 DEF Framed
  <2>7. \A kind, low, high :
          kind # "welcome" /\ low <= high => Numbered(s, kind, low, high)
    BY <2>5 DEF Numbered
  <2>8. /\ StreamIsSound(c)
        /\ lastReplicationSequence[c] <= commits
        /\ DeltasRise(s, replicationMessages[c], outgoingDeltas[c], commits)
    <3>1. StreamIsSound(c)
      BY <1>1 DEF DeliveryInv
    <3>2. PICK a \in Nat, b \in Nat :
            /\ Rising(replicationMessages[c], 0, a)
            /\ Numbered(Downstream(c), "delta", a, b)
            /\ Rising(outgoingDeltas[c], b, commits)
      BY <3>1 DEF StreamIsSound, DeltasRise
    <3>3. Numbered(s, "delta", a, b)
      BY <2>7, <3>2 DEF Numbered
    <3>4. lastReplicationSequence[c] <= commits
      BY <3>1 DEF StreamIsSound, Numbered
    <3>5. QED
      BY <3>1, <3>2, <3>3, <3>4 DEF DeltasRise
  <2>9. BatchesFirst(s)
    BY <2>5 DEF BatchesFirst
  <2>10. handled[c] = 0
    <3>1. handled[c] <= lastCommandSequence[c] /\ handled[c] \in Nat
      BY <1>1 DEF OrderInv, UnbrokenRun, TypeOK, HostTypeOK
    <3>2. QED
      BY <1>4, <3>1
  <2>11. Answers(s, {}, "open", 0, 0)
    BY <2>5, <2>7 DEF Answers
  <2>12. Numbered(s, "world_events", lastReplicationSequence[c], commits)
    BY <2>7, <2>8
  <2>13. QED
    BY <1>1, <1>4, <2>2, <2>3, <2>6, <2>8, <2>9, <2>10, <2>11, <2>12
    DEF StreamIsSound, clientVars, s
<1>7. \A d \in Clients : StreamIsSound(d)'
  BY <1>2, <1>5, <1>6
<1>8. QED
  BY <1>0, <1>1, <1>3, <1>7 DEF DeliveryInv, clientVars

\* The host lets a client go: its stream is what was already sent, and perhaps
\* the notice.
LEMMA DeliveryDisconnect ==
  ASSUME TypeOK, OrderInv, DeliveryInv, Quiescent, NEW c \in Clients, Disconnect(c),
         UNCHANGED clientVars
  PROVE  DeliveryInv'
<1> DEFINE p == clientInbox[c]
           q == pendingOutbound[c]
<1>1. /\ UNCHANGED <<nextClientId, lastCommandSequence, hostState, phase, outgoingDeltas,
                     handled, commits>>
      /\ c \in connected
      /\ connected' = connected \ {c}
      /\ pendingOutbound' = [pendingOutbound EXCEPT ![c] = <<>>]
      /\ \/ clientInbox' = [clientInbox EXCEPT ![c] = Append(p, DisconnectNotice)]
         \/ clientInbox' = clientInbox
      /\ receiver = NoClient
  BY DEF Disconnect, Quiescent, tickVars
<1>2. ASSUME NEW d \in Clients, d # c
      PROVE  StreamIsSound(d)'
  <2>1. /\ clientInbox'[d] = clientInbox[d] /\ pendingOutbound'[d] = pendingOutbound[d]
        /\ d \in connected' <=> d \in connected
    BY <1>1, <1>2 DEF TypeOK, HostTypeOK
  <2>2. Downstream(d)' = Downstream(d)
    BY <1>1, <2>1 DEF Downstream, clientVars
  <2>3. StreamIsSound(d)
    BY DEF DeliveryInv
  <2>4. QED
    BY <1>1, <2>1, <2>2, <2>3, StreamKept DEF clientVars
<1>3. StreamIsSound(c)'
  <2>1. p \in Seq(Message) /\ q \in Seq(Message) /\ q \in Seq(Output)
    BY StateTypes DEF DeliveryInv
  <2>2. c # NoClient
    BY ClientsAreNaturals
  <2>3. Downstream(c) = p \o q
    <3>1. Downstream(c) = (<<>> \o p) \o q
      BY <1>1, <2>2 DEF Downstream
    <3>2. QED
      BY <2>1, <3>1, ConcatEmptySeq
  <2>4. Downstream(c)' = Append(p, DisconnectNotice) \/ Downstream(c)' = p
    <3>1. clientInbox'[c] = Append(p, DisconnectNotice) \/ clientInbox'[c] = p
      BY <1>1 DEF TypeOK, HostTypeOK
    <3>2. clientInbox'[c] \in Seq(Message)
      BY <2>1, <3>1, MessageTypes, AppendProperties, SMTT(30)
    <3>3. Downstream(c)' = (<<>> \o clientInbox'[c]) \o <<>>
      BY <1>1, <2>2 DEF Downstream, clientVars
    <3>4. Downstream(c)' = clientInbox'[c]
      BY <3>2, <3>3, ConcatEmptySeq
    <3>5. QED
      BY <3>1, <3>4
  <2> DEFINE state == sessionState[c]
             m == replicationMessages[c]
             deltas == outgoingDeltas[c]
             waiting == pendingCommands[c]
             h == handled[c]
             l == lastCommandSequence[c]
             last == lastReplicationSequence[c]
  <2>5. Link(c) = "open" /\ Link(c)' = "closed"
    BY <1>1 DEF Link
  <2>6. /\ m \in Seq(Nat) /\ deltas \in Seq(Nat) /\ waiting \in SUBSET Nat
        /\ h \in Nat /\ l \in Nat /\ last \in Nat /\ commits \in Nat
    BY StateTypes
  <2>7. StreamIsSound(c)
    BY DEF DeliveryInv
  <2> HIDE DEF p, q
  <2>8. /\ Framed(p \o q, state, "open")
        /\ Numbered(p \o q, "world_events", last, commits)
        /\ DeltasRise(p \o q, m, deltas, commits)
        /\ BatchesFirst(p \o q)
        /\ Answers(p \o q, waiting, "open", h, l)
        /\ state = "disconnected" /\ p \o q # <<>> => l = 0
        /\ ~faulted[c]
    BY <2>3, <2>5, <2>7 DEF StreamIsSound
  <2> HIDE DEF state, m, deltas, waiting, h, l, last
  <2>9. state = "disconnected" => l = 0
    BY <2>8 DEF Framed
  <2>10. /\ Framed(p, state, "closed")
         /\ Framed(Append(p, DisconnectNotice), state, "closed")
    BY <2>1, <2>8, FramedClose
  <2>11. /\ Numbered(p, "world_events", last, commits)
         /\ DeltasRise(p, m, deltas, commits)
         /\ BatchesFirst(p)
         /\ Answers(p, waiting, "closed", h, l)
    BY <2>1, <2>8, NumberedPrefix, DeltasRisePrefix, BatchesFirstPrefix, AnswersPrefix
  <2>12. DisconnectNotice \in Message /\ DisconnectNotice.kind = "disconnect"
    BY MessageTypes DEF DisconnectNotice
  <2> DEFINE t == Append(p, DisconnectNotice)
  <2>13. Numbered(t, "world_events", last, commits)
    BY <2>1, <2>6, <2>11, <2>12, NumberedAppend
  <2>14. DeltasRise(t, m, deltas, commits)
    BY <2>1, <2>6, <2>11, <2>12, DeltasRiseAppend
  <2>15. BatchesFirst(t)
    <3>1. PICK a \in Nat, b \in Nat : Numbered(p, "delta", a, b)
      BY <2>11 DEF DeltasRise
    <3>2. QED
      BY <2>1, <2>11, <2>12, <3>1, BatchesFirstAppend
  <2>16. Answers(t, waiting, "closed", h, l)
    BY <2>1, <2>6, <2>11, <2>12, AnswersAppend
  <2> HIDE DEF t
  <2>17. \/ Downstream(c)' = t
         \/ Downstream(c)' = p
    BY <2>4 DEF t
  <2>18. QED
    BY <1>1, <2>5, <2>8, <2>9, <2>10, <2>11, <2>13, <2>14, <2>15, <2>16, <2>17
    DEF StreamIsSound, clientVars, state, m, deltas, waiting, h, l, last, t
<1>4. \A d \in Clients : pendingOutbound'[d] \in Seq(Output)
  BY <1>1 DEF DeliveryInv, TypeOK, HostTypeOK
<1>5. \A d \in Clients :
        d >= nextClientId \/ hostState = "stopped" => pendingOutbound'[d] = <<>>
  BY <1>1 DEF DeliveryInv, TypeOK, HostTypeOK
<1>6. QED
  BY <1>1, <1>2, <1>3, <1>4, <1>5 DEF DeliveryInv, clientVars

\* A client creates a command; the transport takes it while it is connected.
LEMMA DeliverySubmit ==
  ASSUME TypeOK, OrderInv, DeliveryInv, NEW c \in Clients, CreateCommand(c),
         SendClientCommand(c, nextCommandSequence[c])
  PROVE  DeliveryInv'
<1> DEFINE n == nextCommandSequence[c]
<1>1. /\ UNCHANGED <<connected, nextClientId, clientInbox, hostState, pendingOutbound, phase,
                     outgoingDeltas, handled, commits>>
      /\ UNCHANGED <<sessionState, lastReplicationSequence, replicationMessages, receiver,
                     drained, faulted>>
      /\ sessionState[c] = "connected"
      /\ pendingCommands' = [pendingCommands EXCEPT ![c] = pendingCommands[c] \cup {n}]
      /\ hostState # "stopped"
      /\ \/ /\ c \in connected
            /\ lastCommandSequence' = [lastCommandSequence EXCEPT ![c] = n]
         \/ /\ c \notin connected \/ n <= lastCommandSequence[c]
            /\ UNCHANGED lastCommandSequence
  BY DEF CreateCommand, SendClientCommand, Idle, tickVars
<1>2. n \in Nat \ {0} /\ lastCommandSequence[c] \in Nat
  BY DEF TypeOK, HostTypeOK, ClientTypeOK
<1>3. c \in connected => n = lastCommandSequence[c] + 1
  BY DEF OrderInv
<1> HIDE DEF n
<1>4. ASSUME NEW d \in Clients
      PROVE  Downstream(d)' = Downstream(d) /\ Link(d)' = Link(d)
  BY <1>1 DEF Downstream, Link
<1>5. ASSUME NEW d \in Clients, d # c
      PROVE  StreamIsSound(d)'
  <2>1. /\ pendingCommands'[d] = pendingCommands[d]
        /\ lastCommandSequence'[d] = lastCommandSequence[d]
    BY <1>1, <1>5 DEF TypeOK, HostTypeOK, ClientTypeOK
  <2>2. StreamIsSound(d)
    BY DEF DeliveryInv
  <2>3. QED
    BY <1>1, <1>4, <2>1, <2>2, StreamKept
<1>6. StreamIsSound(c)'
  <2>1. StreamIsSound(c)
    BY DEF DeliveryInv
  <2>2. /\ Downstream(c) \in Seq(Message) /\ pendingCommands[c] \in SUBSET Nat
        /\ handled[c] \in Nat
    BY StateTypes
  <2>3. pendingCommands'[c] = pendingCommands[c] \cup {n}
    BY <1>1 DEF TypeOK, ClientTypeOK
  <2>4. Answers(Downstream(c), pendingCommands[c], Link(c), handled[c], lastCommandSequence[c])
    BY <2>1 DEF StreamIsSound
  <2>5. Answers(Downstream(c), pendingCommands'[c], Link(c), handled[c],
                lastCommandSequence'[c])
    <3>1. CASE c \in connected
      <4>1. Link(c) = "open" /\ handled[c] <= lastCommandSequence[c]
        BY <3>1 DEF Link, OrderInv, UnbrokenRun
      <4>2. lastCommandSequence'[c] = lastCommandSequence[c] + 1
        BY <1>1, <1>2, <1>3, <3>1 DEF TypeOK, HostTypeOK
      <4>3. QED
        BY <1>2, <1>3, <2>2, <2>3, <2>4, <3>1, <4>1, <4>2, AnswersSubmit
    <3>2. CASE c \notin connected
      <4>1. Link(c) = "closed" /\ lastCommandSequence' = lastCommandSequence
        BY <1>1, <3>2 DEF Link
      <4>2. Answers(Downstream(c), pendingCommands[c], "closed", handled[c],
                    lastCommandSequence[c])
        BY <2>4, <4>1
      <4>3. Answers(Downstream(c), pendingCommands[c] \cup {n}, "closed", handled[c],
                    lastCommandSequence[c])
        BY <4>2, AnswersCreate
      <4>4. QED
        BY <2>3, <4>1, <4>3
    <3>3. QED
      BY <3>1, <3>2
  <2>6. QED
    BY <1>1, <1>4, <2>1, <2>5 DEF StreamIsSound
<1>7. \A d \in Clients : StreamIsSound(d)'
  BY <1>5, <1>6
<1>8. \A d \in Clients : d >= nextClientId => pendingCommands'[d] = {}
  <2>1. ~(c >= nextClientId)
    BY <1>1 DEF OrderInv, NewSession
  <2>2. QED
    BY <1>1, <2>1 DEF DeliveryInv, TypeOK, ClientTypeOK
<1>9. QED
  BY <1>1, <1>7, <1>8 DEF DeliveryInv

\* The receive loop takes over the inbox.
LEMMA DeliveryPump ==
  ASSUME TypeOK, DeliveryInv, NEW c \in Clients, PumpClient(c)
  PROVE  DeliveryInv'
<1>1. /\ UNCHANGED <<connected, nextClientId, lastCommandSequence, hostState,
                     pendingOutbound, phase, outgoingDeltas, handled, commits>>
      /\ UNCHANGED <<sessionState, pendingCommands, lastReplicationSequence,
                     replicationMessages, faulted>>
      /\ receiver = NoClient /\ receiver' = c /\ drained' = clientInbox[c]
      /\ clientInbox' = [clientInbox EXCEPT ![c] = <<>>]
      /\ c # NoClient
  BY ClientsAreNaturals DEF PumpClient, BeginReceive, DrainClient, tickVars
<1>2. ASSUME NEW d \in Clients
      PROVE  StreamIsSound(d)'
  <2>1. Downstream(d)' = Downstream(d)
    <3>1. CASE d = c
      <4>1. clientInbox[c] \in Seq(Message) /\ clientInbox'[c] = <<>>
        BY <1>1, StateTypes DEF TypeOK, HostTypeOK
      <4>2. clientInbox[c] \o <<>> = <<>> \o clientInbox[c]
        BY <4>1, ConcatEmptySeq
      <4>3. QED
        BY <1>1, <3>1, <4>1, <4>2 DEF Downstream
    <3>2. CASE d # c
      <4>1. clientInbox'[d] = clientInbox[d] /\ receiver # d /\ receiver' # d
        BY <1>1, <3>2, ClientsAreNaturals DEF TypeOK, HostTypeOK
      <4>2. QED
        BY <1>1, <4>1 DEF Downstream
    <3>3. QED
      BY <3>1, <3>2
  <2>2. StreamIsSound(d)
    BY DEF DeliveryInv
  <2>3. QED
    BY <1>1, <2>1, <2>2, StreamKept
<1>3. QED
  BY <1>1, <1>2 DEF DeliveryInv

LEMMA DeliveryStep ==
  TypeOK /\ OneSequencePerCommit /\ OrderInv /\ DeliveryInv /\ [Next]_vars => DeliveryInv'
<1> SUFFICES ASSUME TypeOK, OneSequencePerCommit, OrderInv, DeliveryInv, [Next]_vars
             PROVE  DeliveryInv'
  OBVIOUS
<1>1. CASE \/ RunTick
           \/ UNCHANGED vars
  <2>1. /\ UNCHANGED <<connected, nextClientId, lastCommandSequence, clientInbox, hostState,
                       pendingOutbound, outgoingDeltas, handled, commits>>
        /\ UNCHANGED clientVars
        /\ phase' \in {"idle", "retry"} => phase \in {"idle", "retry"}
    BY <1>1 DEF RunTick, TickBegin, Idle, vars, hostVars, transportVars, tickVars
  <2>2. ASSUME NEW d \in Clients
        PROVE  StreamIsSound(d)'
    <3>1. StreamIsSound(d)
      BY DEF DeliveryInv
    <3>2. Downstream(d)' = Downstream(d)
      BY <2>1 DEF Downstream, clientVars
    <3>3. QED
      BY <2>1, <3>1, <3>2, StreamKept DEF clientVars
  <2>3. QED
    BY <2>1, <2>2 DEF DeliveryInv, clientVars
<1>2. CASE DisconnectClient
  BY <1>2, DeliveryDisconnect DEF DisconnectClient
<1>3. CASE SubmitCommand
  BY <1>3, DeliverySubmit DEF SubmitCommand
<1>4. QED
  BY <1>1, <1>2, <1>3, DeliveryRestart, DeliveryConnect, DeliveryPump, DeliveryReceive,
     DeliveryTick DEF Next
LEMMA DeliveryImplies ==
  ASSUME TypeOK, DeliveryInv
  PROVE  EventsInCommitOrder /\ DeltaAfterItsEvents /\ NoClientFault
<1>1. ASSUME NEW c \in Clients
      PROVE  /\ DOMAIN Downstream(c) = 1 .. Len(Downstream(c))
             /\ Numbered(Downstream(c), "world_events", lastReplicationSequence[c], commits)
             /\ BatchesFirst(Downstream(c))
             /\ ~faulted[c]
  <2>1. StreamIsSound(c)
    BY DEF DeliveryInv
  <2>2. DOMAIN Downstream(c) = 1 .. Len(Downstream(c))
    BY StateTypes, LenProperties
  <2>3. QED
    BY <2>1, <2>2 DEF StreamIsSound
<1>2. EventsInCommitOrder
  BY <1>1 DEF EventsInCommitOrder, Numbered
<1>3. DeltaAfterItsEvents
  BY <1>1 DEF DeltaAfterItsEvents, BatchesFirst
<1>4. NoClientFault
  BY <1>1 DEF NoClientFault
<1>5. QED
  BY <1>2, <1>3, <1>4

\* A pending command is on its way up when its number is above the last one
\* handled, and has its result on the way down otherwise: never both.
LEMMA OnePlace ==
  ASSUME TypeOK, OrderInv, DeliveryInv
  PROVE  CommandInOnePlace
<1> SUFFICES ASSUME NEW c \in connected, NEW seq \in pendingCommands[c]
             PROVE  Cardinality({i \in DOMAIN Upstream :
                                   Upstream[i] = [sender |-> c, sequence |-> seq]})
                      + Cardinality({i \in DOMAIN Downstream(c) :
                                       Downstream(c)[i] = CommandResult(seq)}) = 1
  BY DEF CommandInOnePlace
<1> DEFINE up == {i \in DOMAIN Upstream : Upstream[i] = [sender |-> c, sequence |-> seq]}
           down == {i \in DOMAIN Downstream(c) : Downstream(c)[i] = CommandResult(seq)}
           h == handled[c]
           l == lastCommandSequence[c]
           s == Downstream(c)
<1>1. c \in Clients /\ Link(c) = "open"
  BY DEF TypeOK, HostTypeOK, Link
<1>2. /\ s \in Seq(Message) /\ seq \in Nat /\ h \in Nat /\ l \in Nat
      /\ DOMAIN s = 1 .. Len(s)
  BY <1>1, StateTypes, LenProperties
<1>3. Answers(s, pendingCommands[c], "open", h, l)
  BY <1>1 DEF DeliveryInv, StreamIsSound
<1>4. /\ Upstream \in Seq(Command) /\ DOMAIN Upstream = 1 .. Len(Upstream)
      /\ UnbrokenRun(Upstream, handled, lastCommandSequence)
  BY ConcatProperties, LenProperties DEF Upstream, TypeOK, HostTypeOK, OrderInv
<1>5. \A i \in 1 .. Len(s) :
        s[i] = CommandResult(seq) => s[i].kind = "command_result" /\ s[i].sequence = seq
  BY <1>2, ResultFields
<1>6. \A i, j \in down : i = j
  <2>1. SUFFICES ASSUME NEW i \in down, NEW j \in down, i < j PROVE FALSE
    BY <1>2
  <2>2. s[i].sequence < s[j].sequence
    BY <1>2, <1>3, <1>5, <2>1 DEF Answers, Numbered
  <2>3. QED
    BY <1>2, <1>5, <2>2
<1>7. \A i, j \in up : i = j
  <2>1. SUFFICES ASSUME NEW i \in up, NEW j \in up, i < j PROVE FALSE
    BY <1>4
  <2>2. Upstream[i].sequence < Upstream[j].sequence
    BY <1>4, <2>1 DEF UnbrokenRun
  <2>3. QED
    BY <1>2, <2>2
<1>8. seq <= h => up = {}
  <2>1. SUFFICES ASSUME NEW i \in up PROVE h < seq
    BY <1>2
  <2>2. QED
    BY <1>4 DEF UnbrokenRun
<1>9. h < seq => down = {}
  <2>1. SUFFICES ASSUME NEW i \in down PROVE seq <= h
    BY <1>2
  <2>2. QED
    BY <1>2, <1>3, <1>5 DEF Answers, Numbered
<1>10. (h < seq /\ seq <= l) \/ down # {}
  BY <1>2, <1>3 DEF Answers
<1>11. h < seq /\ seq <= l => up # {}
  <2>1. SUFFICES ASSUME h < seq, seq <= l PROVE up # {}
    OBVIOUS
  <2>2. PICK i \in 1 .. Len(Upstream) : Upstream[i].sender = c /\ Upstream[i].sequence = seq
    BY <1>1, <1>2, <1>4, <2>1 DEF UnbrokenRun
  <2>3. Upstream[i] \in Command
    BY <1>4, ElementOfSeq
  <2>4. Upstream[i] = [sender |-> c, sequence |-> seq]
    BY <2>2, <2>3 DEF Command
  <2>5. QED
    BY <1>4, <2>4
<1> HIDE DEF up, down, h, l, s
<1>12. CASE h < seq
  <2>1. down = {} /\ up # {}
    BY <1>9, <1>10, <1>11, <1>12
  <2>2. PICK i : up = {i}
    BY <1>7, <2>1
  <2>3. Cardinality(up) = 1 /\ Cardinality(down) = 0
    BY <2>1, <2>2, FS_Singleton, FS_EmptySet
  <2>4. QED
    BY <2>3 DEF up, down
<1>13. CASE seq <= h
  <2>1. up = {} /\ down # {}
    BY <1>2, <1>8, <1>10, <1>13
  <2>2. PICK i : down = {i}
    BY <1>6, <2>1
  <2>3. Cardinality(down) = 1 /\ Cardinality(up) = 0
    BY <2>1, <2>2, FS_Singleton, FS_EmptySet
  <2>4. QED
    BY <2>3 DEF up, down
<1>14. QED
  BY <1>2, <1>12, <1>13

LEMMA DeliveryHolds == Spec => [](TypeOK /\ OrderInv /\ DeliveryInv)
BY TypeCorrect, SequencesAreNotReused, OrderInit, OrderStep, DeliveryInit, DeliveryStep,
   PTL DEF Spec

\* Event batches are in commit order on their way to every client, each once,
\* whatever sends failed and were retried in between.
THEOREM EventsStayOrdered == Spec => []EventsInCommitOrder
BY DeliveryHolds, DeliveryImplies, PTL

\* A typed delta is never before the event batch of its commit, though it may
\* go straight to the transport while batches go through the queue.
THEOREM DeltasFollowEvents == Spec => []DeltaAfterItsEvents
BY DeliveryHolds, DeliveryImplies, PTL

\* The receive loop never meets a message it must reject, and never finds two
\* deltas of one commit: the session does not fault.
THEOREM ClientsNeverFault == Spec => []NoClientFault
BY DeliveryHolds, DeliveryImplies, PTL

\* Each pending command of a connected client is on its way to the dispatcher
\* or has one result on its way back.
THEOREM CommandsAreAccountedFor == Spec => []CommandInOnePlace
BY DeliveryHolds, OnePlace, PTL
=============================================================================
