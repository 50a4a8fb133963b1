------------------------ MODULE MCDatagramTransport ------------------------
(* The two directions of the datagram transport in one run: a behaviour is    *)
(* one of CommandUplink, the downlink standing still, or the other way round. *)
EXTENDS CommandUplink, ReplicationDownlink

VARIABLE direction

MCInit == direction \in {"up", "down"} /\ Init /\ DownlinkInit

MCNext ==
  /\ UNCHANGED direction
  /\ \/ direction = "up" /\ Next /\ UNCHANGED downlinkVars
     \/ direction = "down" /\ DownlinkNext /\ UNCHANGED vars

MCSpec == MCInit /\ [][MCNext]_<<vars, downlinkVars, direction>> /\ Fairness

(* The variables of both directions keep their types.                         *)
TransportTypeOK == TypeOK /\ DownlinkTypeOK
=============================================================================
