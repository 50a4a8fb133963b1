--------------------------- MODULE MCCommandLoop ---------------------------
(* The command loop, the replication of players and the reassembly of packets *)
(* in one run: a behaviour is one of CommandLoop, PlayerReplication or        *)
(* PacketReassembly, the others standing still.                               *)
EXTENDS CommandLoop, PlayerReplication, PacketReassembly

VARIABLE part

(* Two messages of one client and one of another, each of two fragments; the  *)
(* configuration has room for two packets.                                    *)
SourceOfMessage == <<1, 1, 2>>

FragmentsOfMessage == <<2, 2, 2>>

MCInit ==
  /\ Init
  /\ PlayersInit
  /\ PacketsInit
  /\ \/ part = "players"
     \/ part \in {"commands", "packets"} /\ records = {}

(* The bound of the ticks ends the behaviours of the second part.             *)
BoundReached ==
  part = "players" /\ tick = MaxTick /\ UNCHANGED <<vars, playerVars, packetVars>>

MCNext ==
  /\ UNCHANGED part
  /\ \/ part = "commands" /\ Next /\ UNCHANGED <<playerVars, packetVars>>
     \/ part = "players" /\ PlayersNext /\ UNCHANGED <<vars, packetVars>>
     \/ part = "packets" /\ PacketsNext /\ UNCHANGED <<vars, playerVars>>
     \/ BoundReached

MCSpec == MCInit /\ [][MCNext]_<<vars, playerVars, packetVars, part>>

(* Two clients with one command each, or one client with several: the two     *)
(* shapes of interleaving the run is about, without their product.            *)
WideOrDeep ==
  nextClientId > FirstClientId + 1 =>
    \A c \in Clients : nextCommandSequence[c] <= 2
=============================================================================
