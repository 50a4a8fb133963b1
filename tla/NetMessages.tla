---------------------------- MODULE NetMessages ----------------------------
(***************************************************************************)
(* Client identities and server-to-client messages shared by the client    *)
(* and host protocol modules (engine/net/transport.hpp, transport.cpp).    *)
(*                                                                         *)
(* A message keeps what the protocol decides on: its kind and its sequence *)
(* number.  Payload bytes, payload types and timestamps are left out.      *)
(***************************************************************************)
EXTENDS Naturals, Sequences

CONSTANT MaxClientId          \* bound: the last NetId the transport hands out

ASSUME MaxClientIdAssumption == MaxClientId \in Nat

\* The transport numbers clients from 2 (1 is the server) and never reuses a
\* number while it lives, so a NetId names one connection.
FirstClientId == 2
Clients == FirstClientId .. MaxClientId

\* control.server_welcome and control.server_disconnect are the two control
\* messages of the session protocol; "world_events" is a replication batch,
\* "delta" a replication.world_delta_snapshot.
ControlKinds == {"welcome", "disconnect"}
MessageKinds == ControlKinds \cup {"command_result", "world_events", "delta"}

Message == [kind : MessageKinds, sequence : Nat]

Welcome            == [kind |-> "welcome",        sequence |-> 0]
DisconnectNotice   == [kind |-> "disconnect",     sequence |-> 0]
CommandResult(seq) == [kind |-> "command_result", sequence |-> seq]
WorldEvents(seq)   == [kind |-> "world_events",   sequence |-> seq]
Delta(seq)         == [kind |-> "delta",          sequence |-> seq]

\* A client command on its way to the server.
Command == [sender : Clients, sequence : Nat]
=============================================================================
