--------------------------- MODULE TransportConfig ---------------------------
(***************************************************************************)
(* What both directions of the datagram transport share: the transport's   *)
(* TransportReliabilityConfig, and whether its socket may refuse to send.  *)
(***************************************************************************)
EXTENDS Naturals

CONSTANTS
  MaxAttempts,        \* max_attempts
  MaxInFlight,        \* max_in_flight
  MaxTrackedReceived, \* max_tracked_received_messages
  SendsMayFail        \* whether sendto may fail

ASSUME ReliabilityAssumption ==
  /\ MaxAttempts \in Nat \ {0}
  /\ MaxInFlight \in Nat \ {0}
  /\ MaxTrackedReceived \in Nat \ {0}
  /\ SendsMayFail \in BOOLEAN
=============================================================================
