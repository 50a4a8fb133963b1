------------------------- MODULE PlayerReplication -------------------------
(***************************************************************************)
(* Players of a runtime session as its own client sees them: the server    *)
(* runtime replicates movement snapshots and removals of players to that   *)
(* client, whose runtime keeps the latest snapshot of each player, from    *)
(* which the presentation keeps one object per player.                     *)
(*                                                                         *)
(* Connections are numbered in the order they are made; the first one is   *)
(* the session's client, the others only play.  A player is its net id,    *)
(* which outlives the connection: player records are persistent, and one   *)
(* nobody plays is given to the next connection.                           *)
(***************************************************************************)
EXTENDS Naturals, FiniteSets, SequencesExt

CONSTANTS
  MaxConnections,     \* bound: connections made
  MaxTick,            \* bound: ticks run
  SavedPlayers,       \* bound: player records in the save
  DeliveryMayFail     \* whether a send to the session's client may fail

ASSUME PlayersAssumption == SavedPlayers \in Nat

VARIABLES
  players,            \* players_: net ids with a controller record
  player,             \* player_connections_: connection -> [net, tick]; its
                      \* simulation_tick is 0 until its first input
  records,            \* net ids of the player records of the world
  nextConnection,
  removals,           \* pending_player_removals_
  tick,               \* the last tick run
  outbound,           \* the host's queue for the client
  inbox,              \* the transport's
  pumpDue,            \* the client has to pump and synchronize before a tick
  snapshots,          \* movement_snapshots_: net id -> simulation_tick
  objects,            \* source_objects_: net id -> [id, revision]
  slots,              \* slots_: [occupied, generation]
  freeSlots,          \* free_slots_
  retained,           \* retained_players_
  sessionFaulted,     \* RuntimeSession::fault_
  overtaken,          \* history: players whose removal arrived with a snapshot
  retired             \* history: object ids given back

playerVars ==
  <<players, player, records, nextConnection, removals, tick, outbound, inbox,
    pumpDue, snapshots, objects, slots, freeSlots, retained, sessionFaulted,
    overtaken, retired>>

serverVars == <<players, player, records, nextConnection, removals, tick, outbound>>
shownVars ==
  <<snapshots, objects, slots, freeSlots, retained, sessionFaulted, overtaken, retired>>

Local == 1

\* The elements of a set of numbers, the least first.
Ascending(S) ==
  CHOOSE s \in SetToSeqs(S) : \A i, j \in DOMAIN s : i < j => s[i] < s[j]

Removal(n) == [kind |-> "removal", net |-> n, tick |-> 0]
Snapshot(n, t) == [kind |-> "snapshot", net |-> n, tick |-> t]

PlayersInit ==
  /\ players = {}
  /\ player = <<>>
  /\ \E n \in 0 .. SavedPlayers : records = 1 .. n
  /\ nextConnection = Local
  /\ removals = <<>>
  /\ tick = 0
  /\ outbound = <<>>
  /\ inbox = <<>>
  /\ pumpDue = FALSE
  /\ snapshots = <<>>
  /\ objects = <<>>
  /\ slots = <<>>
  /\ freeSlots = <<>>
  /\ retained = {}
  /\ sessionFaulted = FALSE
  /\ overtaken = {}
  /\ retired = {}

-----------------------------------------------------------------------------
(* The server.                                                             *)

\* A connection's snapshots, in the order of the connections.
SnapshotsOf(connections) ==
  LET order == Ascending(DOMAIN connections)
  IN  [i \in DOMAIN order |->
         Snapshot(connections[order[i]].net, connections[order[i]].tick)]

\* Faulty variant: every message is tried on its own, past those that wait.
DeliverDirectly(queued, messages) ==
  \E sent \in SUBSET DOMAIN messages :
    /\ DeliveryMayFail \/ sent = DOMAIN messages
    /\ LET Pick(S) == LET order == Ascending(S)
                      IN  [i \in DOMAIN order |-> messages[order[i]]]
       IN  /\ inbox' = inbox \o SubSeq(outbound, 1, Len(outbound) - Len(queued)) \o Pick(sent)
           /\ outbound' = queued \o Pick(DOMAIN messages \ sent)

\* HostSession::send_replication_message for each message, with `queued' of
\* outbound left by the flush before: sent until one send fails, kept in the
\* queue from then on.
Deliver(queued, messages) ==
  \E sent \in 0 .. Len(messages) :
    /\ queued # <<>> => sent = 0
    /\ queued = <<>> /\ ~DeliveryMayFail => sent = Len(messages)
    /\ inbox' = inbox \o SubSeq(outbound, 1, Len(outbound) - Len(queued))
                      \o SubSeq(messages, 1, sent)
    /\ outbound' = queued \o SubSeq(messages, sent + 1, Len(messages))

\* spawn_player: a player record without a controller is taken over, or there
\* is a new one.
Spawn(connection, n) ==
  /\ \/ n \in records \ players
     \/ records \subseteq players /\ n = Cardinality(records) + 1
  /\ players' = players \cup {n}
  /\ records' = records \cup {n}
  /\ player' = [c \in DOMAIN player \cup {connection} |->
                  IF c = connection THEN [net |-> n, tick |-> 0] ELSE player[c]]

\* connect_client; the session's own client is sent a snapshot of every player
\* and pumps at once (RuntimeSession::initialize).  A connection that fails on
\* the way is undone and not modelled.
ConnectPlayer ==
  /\ ~pumpDue /\ ~sessionFaulted
  /\ nextConnection <= MaxConnections
  /\ nextConnection' = nextConnection + 1
  /\ \E n \in 1 .. Cardinality(records) + 1 : Spawn(nextConnection, n)
  /\ IF nextConnection = Local
       THEN Deliver(outbound, SnapshotsOf(player')) /\ pumpDue' = TRUE
       ELSE UNCHANGED <<outbound, inbox, pumpDue>>
  /\ UNCHANGED <<removals, tick, shownVars>>

\* disconnect_client: the controller goes, the record stays, the removal waits
\* for the next tick.
DisconnectPlayer(c) ==
  /\ ~pumpDue /\ ~sessionFaulted
  /\ players' = players \ {player[c].net}
  /\ player' = [k \in DOMAIN player \ {c} |-> player[k]]
  /\ removals' = Append(removals, player[c].net)
  /\ UNCHANGED <<records, nextConnection, tick, outbound, inbox, pumpDue, shownVars>>

\* simulate_players: whoever has had an input moves, with the last one again
\* when there is no new one.
Simulate(active) ==
  player' = [c \in DOMAIN player |->
               IF c \in active \/ player[c].tick > 0
                 THEN [net |-> player[c].net, tick |-> tick + 1]
                 ELSE player[c]]

Removals == [i \in DOMAIN removals |-> Removal(removals[i])]

\* replicate_players, for the session's client: the removals, then a snapshot
\* of every player that has moved.
Replicate(queued) ==
  LET moved == {c \in DOMAIN player' : player'[c].tick > 0}
  IN  /\ Deliver(queued, Removals \o SnapshotsOf([c \in moved |-> player'[c]]))
      /\ removals' = <<>>

\* run_tick: the host flushes what waits for the client and takes the inputs
\* only when nothing is left; movement and replication run in any case.
RunPlayerTick ==
  /\ ~pumpDue /\ ~sessionFaulted
  /\ Local \in DOMAIN player
  /\ tick < MaxTick
  /\ tick' = tick + 1
  /\ \E flushed \in 0 .. Len(outbound), active \in SUBSET DOMAIN player :
       LET queued == SubSeq(outbound, flushed + 1, Len(outbound)) IN
       /\ DeliveryMayFail \/ queued = <<>>
       /\ queued # <<>> => active = {}
       /\ Simulate(active)
       /\ Replicate(queued)
  /\ pumpDue' = TRUE
  /\ UNCHANGED <<players, records, nextConnection, shownVars>>

-----------------------------------------------------------------------------
(* The client.                                                             *)

Removed == {m.net : m \in {k \in ToSet(inbox) : k.kind = "removal"}}
Moved == {m.net : m \in {k \in ToSet(inbox) : k.kind = "snapshot"}}

\* ClientRuntime::synchronize: all removals of the batch first, then its
\* snapshots, of which a later tick replaces an earlier one.
TakeSnapshots ==
  LET kept == DOMAIN snapshots \ Removed
      ticks(n) == {m.tick : m \in {k \in ToSet(inbox) : k = Snapshot(n, k.tick)}}
                    \cup (IF n \in kept THEN {snapshots[n]} ELSE {})
  IN  [n \in kept \cup Moved |-> Max(ticks(n))]

\* Players whose last message of the batch is their removal, though one of
\* their snapshots came before it.
Overtaken ==
  {n \in Removed \cap Moved :
     \E i \in DOMAIN inbox :
       /\ inbox[i] = Removal(n)
       /\ \A j \in i + 1 .. Len(inbox) : inbox[j].net # n}

Proxies == [objects |-> objects, slots |-> slots, free |-> freeSlots]

\* PresentationWorld::allocate_id and what upsert_object makes of the slot: one
\* on the free list is taken before a new one.
UpsertNew(proxies, n, revision) ==
  LET reused == proxies.free # <<>>
      index == IF reused THEN Last(proxies.free) ELSE Len(proxies.slots) + 1
      generation == IF reused THEN proxies.slots[index].generation ELSE 1
      slot == [occupied |-> TRUE, generation |-> generation]
      object == [id |-> <<index, generation>>, revision |-> revision]
  IN  [objects |-> [k \in DOMAIN proxies.objects \cup {n} |->
                      IF k = n THEN object ELSE proxies.objects[k]],
       slots |-> IF reused THEN [proxies.slots EXCEPT ![index] = slot]
                 ELSE Append(proxies.slots, slot),
       free |-> IF reused THEN Front(proxies.free) ELSE proxies.free]

\* PresentationWorld::upsert_object with the revision of a snapshot.
Upsert(proxies, n, revision) ==
  IF n \in DOMAIN proxies.objects
    THEN [objects |-> [proxies.objects EXCEPT
                         ![n] = [id |-> proxies.objects[n].id, revision |-> revision]],
          slots |-> proxies.slots,
          free |-> proxies.free]
    ELSE UpsertNew(proxies, n, revision)

\* Faulty variant: the slot is given back with the generation it had.
RemoveObjectSameGeneration(proxies, n) ==
  LET index == proxies.objects[n].id[1]
  IN  [objects |-> [k \in DOMAIN proxies.objects \ {n} |-> proxies.objects[k]],
       slots |-> [proxies.slots EXCEPT ![index].occupied = FALSE],
       free |-> Append(proxies.free, index)]

\* PresentationWorld::remove_object, which refuses a player without an object.
RemoveObject(proxies, n) ==
  LET index == proxies.objects[n].id[1]
      slot == [occupied |-> FALSE, generation |-> proxies.slots[index].generation + 1]
  IN  IF n \in DOMAIN proxies.objects
        THEN [objects |-> [k \in DOMAIN proxies.objects \ {n} |-> proxies.objects[k]],
              slots |-> [proxies.slots EXCEPT ![index] = slot],
              free |-> Append(proxies.free, index)]
        ELSE proxies

\* ClientPresentationSynchronizer::synchronize: the players shown in the order
\* of their net ids, then those no longer shown in any order.
UpsertAll(proxies, order, shown) ==
  FoldLeft(LAMBDA p, n : Upsert(p, n, shown[n] + 1), proxies, order)

RemoveAll(proxies, gone) == FoldLeft(RemoveObject, proxies, gone)

Present(shown) ==
  \E gone \in SetToSeqs(retained \ DOMAIN shown) :
    LET upserted == UpsertAll(Proxies, Ascending(DOMAIN shown), shown)
        left == RemoveAll(upserted, gone)
    IN  /\ objects' = left.objects
        /\ slots' = left.slots
        /\ freeSlots' = left.free
        /\ retained' = DOMAIN shown
        /\ retired' = retired \cup {upserted.objects[n].id : n \in ToSet(gone)}

\* upsert_object refuses a revision older than the object's, remove_object a
\* player without an object.
StaleUpdate(shown) ==
  \/ \E n \in DOMAIN objects \cap DOMAIN shown : shown[n] + 1 < objects[n].revision
  \/ ~(retained \ DOMAIN shown \subseteq DOMAIN objects)

\* pump_client_messages, synchronize and synchronize_presentation, which follow
\* every tick; an error in the presentation ends the session.
SynchronizePlayers ==
  /\ pumpDue
  /\ pumpDue' = FALSE
  /\ inbox' = <<>>
  /\ snapshots' = TakeSnapshots
  /\ overtaken' = (overtaken \ (Removed \cup Moved)) \cup Overtaken
  /\ IF StaleUpdate(snapshots')
       THEN sessionFaulted' = TRUE /\ UNCHANGED <<objects, slots, freeSlots, retained, retired>>
       ELSE Present(snapshots') /\ UNCHANGED sessionFaulted
  /\ UNCHANGED serverVars

PlayersNext ==
  \/ ConnectPlayer
  \/ \E c \in DOMAIN player \ {Local} : DisconnectPlayer(c)
  \/ RunPlayerTick
  \/ SynchronizePlayers

PlayersSpec == PlayersInit /\ [][PlayersNext]_playerVars

-----------------------------------------------------------------------------
(* Properties.                                                             *)

\* When nothing is on its way, the client's record of the players is the
\* server's: every player that has moved is there with its latest tick, whatever
\* disconnects, takeovers of a player by another connection and deferred sends
\* came before, and a player that has left is gone - except one whose removal
\* arrived together with an older snapshot, which synchronize puts back.
PlayersConverge ==
  ~pumpDue /\ outbound = <<>> /\ removals = <<>> /\ Local \in DOMAIN player =>
    LET moving == {player[c].net : c \in {k \in DOMAIN player : player[k].tick > 0}}
    IN  /\ DOMAIN snapshots = moving \cup {player[Local].net} \cup overtaken
        /\ \A c \in DOMAIN player :
             player[c].tick > 0 => snapshots[player[c].net] = player[c].tick

\* Between frames there is exactly one object per player the client knows, at
\* that player's revision; no object has the id of another, now or earlier (a
\* renderer may still hold it); and the order in which players leave, return
\* and are taken over never makes an update look stale, which would end the
\* session.
ObjectsFollowPlayers ==
  /\ ~sessionFaulted
  /\ ~pumpDue =>
       /\ DOMAIN objects = DOMAIN snapshots
       /\ \A n \in DOMAIN objects : objects[n].revision = snapshots[n] + 1
  /\ \A n \in DOMAIN objects : objects[n].id \notin retired
  /\ \A n, k \in DOMAIN objects : objects[n].id = objects[k].id => n = k

\* The client's record follows the server's, and its objects follow the record.
PlayersAreShown == PlayersConverge /\ ObjectsFollowPlayers
=============================================================================
