-------------------------- MODULE PacketReassembly --------------------------
(***************************************************************************)
(* Messages too large for one datagram: send_envelope splits them into     *)
(* fragments, the server's TransportPacketReassembler puts them together.  *)
(* The network repeats, reorders and loses fragments.  A fragment's        *)
(* payload is the message it was cut from; sizes are counted in fragments. *)
(* Every packet has a number of its own, so that a fragment which does not *)
(* agree with its packet is only met in faulty variants.                   *)
(***************************************************************************)
EXTENDS Naturals, FiniteSets, FiniteSetsExt

CONSTANTS
  Sources,            \* addresses of the clients' sockets
  Messages,           \* messages a client sends, again after a retry delay
  SourceOf,           \* message -> its client's address
  Fragments,          \* message -> number of its fragments
  MaxPendingPackets,  \* TransportPacketFragmentCodecConfig::max_pending_packets
  MaxPendingBytes,    \* max_pending_packet_bytes
  PacketTimeout,      \* pending_packet_timeout_ms
  MaxPackets,         \* bound: packets sent
  MaxCopies           \* bound: fragments the network repeats

\* validate_config: the budget holds at least one packet of any size.
ASSUME ReassemblyAssumption ==
  /\ SourceOf \in [Messages -> Sources]
  /\ Fragments \in [Messages -> Nat \ {0}]
  /\ \A m \in Messages : Fragments[m] <= MaxPendingBytes
  /\ MaxPendingPackets \in Nat \ {0}
  /\ MaxPendingBytes \in Nat \ {0}
  /\ PacketTimeout \in Nat \ {0}
  /\ MaxPackets \in Nat
  /\ MaxCopies \in Nat

VARIABLES
  nextPacketId,       \* next_packet_id_
  flying,             \* fragments sent and not lost for good
  copies,             \* how many the network has repeated
  open,               \* sources whose client is connected
  pending,            \* pending_: <<source, packet id>> -> what has arrived
  pendingBytes,       \* pending_packet_bytes_
  handed              \* history: what the last step handed on: index -> payload

packetVars == <<nextPacketId, flying, copies, open, pending, pendingBytes, handed>>

Indices(m) == 0 .. Fragments[m] - 1

Key(f) == <<SourceOf[f.message], f.id>>

PacketsInit ==
  /\ nextPacketId = 1
  /\ flying = {}
  /\ copies = 0
  /\ open = Sources
  /\ pending = <<>>
  /\ pendingBytes = 0
  /\ handed = {}

-----------------------------------------------------------------------------
(* The sender.                                                             *)

\* fragment_packet, of which the first n were sent before sendto failed.
Cut(m, n) ==
  {[id |-> nextPacketId, index |-> i, message |-> m] : i \in {k \in Indices(m) : k < n}}

\* Faulty variant: a packet that was not sent whole leaves its number to the next.
SendPacketReusingId(m) ==
  /\ nextPacketId <= MaxPackets
  /\ SourceOf[m] \in open
  /\ \E n \in 1 .. Fragments[m] :
       /\ flying' = flying \cup Cut(m, n)
       /\ nextPacketId' = IF n = Fragments[m] THEN nextPacketId + 1 ELSE nextPacketId
  /\ handed' = {}
  /\ UNCHANGED <<copies, open, pending, pendingBytes>>

\* send_envelope of a connected client's message, the first time or again.  (Were
\* not even the first fragment sent, only a number would be gone.)
SendPacket(m) ==
  /\ nextPacketId <= MaxPackets
  /\ SourceOf[m] \in open
  /\ \E n \in 1 .. Fragments[m] : flying' = flying \cup Cut(m, n)
  /\ nextPacketId' = nextPacketId + 1
  /\ handed' = {}
  /\ UNCHANGED <<copies, open, pending, pendingBytes>>

-----------------------------------------------------------------------------
(* The reassembler.                                                        *)

\* The entry of a fragment's packet, a new one if it is the first to arrive.
Entry(f) ==
  IF Key(f) \in DOMAIN pending THEN pending[Key(f)]
  ELSE [parts |-> Fragments[f.message], pieces |-> [i \in {} |-> f.message],
        count |-> 0, age |-> 0]

HasRoom(f) ==
  \/ Key(f) \in DOMAIN pending
  \/ /\ Cardinality(DOMAIN pending) < MaxPendingPackets
     /\ pendingBytes + Fragments[f.message] <= MaxPendingBytes

Repeated(f) == f.index \in DOMAIN Entry(f).pieces

\* Neither mismatched_packet_metadata nor conflicting_duplicate.
Agrees(f) ==
  /\ Entry(f).parts = Fragments[f.message]
  /\ Repeated(f) => Entry(f).pieces[f.index] = f.message

\* Faulty variant: a repeated piece is counted again.
AddedRepeatedly(f) ==
  LET e == Entry(f)
  IN  [parts |-> e.parts, age |-> 0, count |-> e.count + 1,
       pieces |-> [i \in DOMAIN e.pieces \cup {f.index} |->
                     IF i = f.index THEN f.message ELSE e.pieces[i]]]

\* Every piece counts once; a repeated one only keeps the packet young.
Added(f) ==
  LET e == Entry(f)
  IN  IF Repeated(f) THEN [e EXCEPT !.age = 0]
      ELSE [parts |-> e.parts, age |-> 0, count |-> e.count + 1,
            pieces |-> [i \in DOMAIN e.pieces \cup {f.index} |->
                          IF i = f.index THEN f.message ELSE e.pieces[i]]]

Complete(f) == Added(f).count = Added(f).parts

\* The bytes the entries of some packets account for.
Bytes(keys) == MapThenSumSet(LAMBDA k : pending[k].parts, keys)

\* Faulty variant: a packet is erased without giving its bytes back.
ForgetKeepingBytes(keys) ==
  /\ pending' = [k \in DOMAIN pending \ keys |-> pending[k]]
  /\ UNCHANGED pendingBytes

\* pending_.erase with the bytes given back.
Forget(keys) ==
  /\ pending' = [k \in DOMAIN pending \ keys |-> pending[k]]
  /\ pendingBytes' = pendingBytes - Bytes(DOMAIN pending \cap keys)

\* accept_fragment: pending_budget_exceeded.
Refuse(f) == ~HasRoom(f) /\ handed' = {} /\ UNCHANGED <<pending, pendingBytes>>

\* accept_fragment: the packet is still incomplete.
Keep(f) ==
  /\ HasRoom(f) /\ Agrees(f) /\ ~Complete(f)
  /\ pending' = [k \in DOMAIN pending \cup {Key(f)} |->
                   IF k = Key(f) THEN Added(f) ELSE pending[k]]
  /\ pendingBytes' = IF Key(f) \in DOMAIN pending THEN pendingBytes
                     ELSE pendingBytes + Fragments[f.message]
  /\ handed' = {}

\* accept_fragment: the packet is complete, or does not agree and is dropped.
\* drain_server_messages hands it on if its sender is connected.
Finish(f) ==
  /\ HasRoom(f) /\ (Complete(f) \/ ~Agrees(f))
  /\ Forget({Key(f)})
  /\ handed' = IF Agrees(f) /\ SourceOf[f.message] \in open
               THEN {Added(f).pieces} ELSE {}

\* drain_socket, one datagram.  A fragment the network repeats stays in flight.
\* The expire at the head of accept_fragment finds nothing: the clock only moves
\* in poll_maintenance, which has expired everything due.
Arrive(f) ==
  /\ \/ flying' = flying \ {f} /\ UNCHANGED copies
     \/ copies < MaxCopies /\ copies' = copies + 1 /\ UNCHANGED flying
  /\ Refuse(f) \/ Keep(f) \/ Finish(f)
  /\ UNCHANGED <<nextPacketId, open>>

\* poll_maintenance: expire, `elapsed' after the previous call.
Expire(elapsed) ==
  LET late == {k \in DOMAIN pending : pending[k].age + elapsed >= PacketTimeout}
      rest == DOMAIN pending \ late
  IN  /\ pending' = [k \in rest |-> [pending[k] EXCEPT !.age = @ + elapsed]]
      /\ pendingBytes' = pendingBytes - Bytes(late)
      /\ handed' = {}
      /\ UNCHANGED <<nextPacketId, flying, copies, open>>

\* disconnect_client: discard_source.  Fragments in flight may still arrive.
DisconnectEndpoint(s) ==
  /\ s \in open
  /\ open' = open \ {s}
  /\ Forget({k \in DOMAIN pending : k[1] = s})
  /\ handed' = {}
  /\ UNCHANGED <<nextPacketId, flying, copies>>

PacketsNext ==
  \/ \E m \in Messages : SendPacket(m)
  \/ \E f \in flying : Arrive(f)
  \/ \E elapsed \in 1 .. PacketTimeout : Expire(elapsed)
  \/ \E s \in Sources : DisconnectEndpoint(s)

PacketsSpec == PacketsInit /\ [][PacketsNext]_packetVars

-----------------------------------------------------------------------------
(* Properties.                                                             *)

\* "Emits the original encoded transport packet only after every fragment is
\* present" (networking.md:65): what is handed on is one message, whole, never
\* with a piece missing because another arrived twice, nor put together from the
\* pieces of two messages, however sends break off half way and are repeated.
PacketsAreWhole ==
  \A packet \in handed : \E m \in Messages : packet = [i \in Indices(m) |-> m]

\* Incomplete packets do not fill the budget for good: the bytes counted are
\* those of the packets that are pending, within the limits, and each of these
\* has received a fragment within the timeout - also when a late copy opened a
\* packet again after it was complete or its client had gone, which nothing but
\* a poll of the server's own reassembler can forget.
BudgetIsExact ==
  /\ pendingBytes = Bytes(DOMAIN pending)
  /\ pendingBytes <= MaxPendingBytes
  /\ Cardinality(DOMAIN pending) <= MaxPendingPackets
  /\ \A k \in DOMAIN pending : pending[k].age < PacketTimeout
=============================================================================
