# Heartbound: a TLA+ model of the engine's protocols

Heartbound ("Heartstead" in the source) is a C++23 voxel co-op engine. One
process runs a game loop on one thread: a server tick, then the local client's
message pump, then presentation. Commands travel to the server, results and
replication travel back. Worker threads exist only in the job system, and the GPU runs beside them all.

This directory models the parts whose correctness depends on the order of
events, checks them with TLC and proves the most important facts with TLAPS.
Paths below are relative to the repository.

## 1. Inventory

| component | state | operations | talks to |
|---|---|---|---|
| `engine/net/host_session` | `pending_outbound_` (a FIFO per client), `next_replication_sequence_`, running flag | start, stop, connect, disconnect, send command, send replication, tick | transport, command dispatcher |
| `engine/net/transport` (in memory) | client inboxes, server inbox, last command sequence of each client, connected flags | connect, disconnect, send, drain | host session |
| `engine/net/transport` (POSIX datagrams) + `transport_reliability` | per client and direction: pending messages with attempts, bounded receive history, command sequencer | send, drain, `poll_maintenance` | host session, network |
| `engine/net/transport_packet` | per source and packet: received fragments, age; pending bytes; next packet number | fragment, accept a fragment, expire, discard a source | datagram transport |
| `engine/net/client_session` | session state, next command number, pending commands, last replication sequence, queued batches and envelopes | accept welcome, create command, receive, drain | client runtime |
| `game/runtime/client_runtime`, `engine/world/replication_delta` | client world | receive loop, match deltas with batches | client session |
| `game/runtime/server_runtime` | world, players, scheduler | tick phases: commands, movement, replication | host session, world |
| `game/runtime/runtime_session` | fault, running | run frame, submit, pump, shutdown | all of the above |
| `engine/net/server_command` | command registry | dispatch against a staged world copy | world |
| `engine/save` | generations of files, `current.txt`, chunk deltas | write, compact, prune, migrate, recover | file system |
| `engine/jobs` | queued jobs, completed results, workers | submit, drain, wait idle, stop | mesh scheduler, worlds |
| `engine/world/chunks`, `engine/dirty` | resident chunks with their revisions and flags, the edit log, dirty regions | set a voxel, insert with saved edits, erase | streaming, renderer |
| `engine/world/streaming` | a pass of maintenance | load, flush to disk, flush to replication, evict | chunks, save, worldgen |
| `engine/renderer/chunks` | cache entries, pending meshes, active jobs, uploads | synchronise with the world, schedule, take results, upload, keep the byte budget, draw | chunks, jobs, GPU memory |
| `engine/renderer/memory`, chunk GPU cache | arenas, staging ring, frame and upload contexts | allocate, retire, collect, upload a batch | Vulkan device |
| `game/presentation` | objects of players, slots with generations | upsert, remove, synchronise | client runtime |
| `engine/server` | joined players, ban list | join, leave, discover, flush, admin commands | host session, profiles, logs |
| `engine/player_profiles` | one directory per player, with `.tmp` and `.old` | save, load, load or create | file system |
| `engine/movement`, `simulation`, `processes`, `workpieces`, ... | game rules | fixed steps | world |
| renderer, platform, assets, modding, scripting | GPU, windows, parsing | | |

What is hard here, by component:

- **Host session.** A send may fail at any point of a flush, and the rest of
  that client's queue must wait without loss, repetition or overtaking; a tick
  that is blocked must leave the inbound commands for later; clients leave
  while things are queued for them or from them.
- **Client session.** Any unexpected message faults the whole program, so the
  server and the transport must never produce one.
- **Reliability layer.** Loss, repetition and reordering; a bounded duplicate
  filter; a bounded reorder window; acknowledgements that race with drops.
- **Packet fragmentation.** Fragments of several packets and attempts arrive mixed,
  repeated or not at all, and what stays incomplete uses up a budget.
- **Replication deltas.** Two streams (event batches through the queue, deltas
  sent directly) that the client joins again by sequence number.
- **Save database.** Crashes between file operations; a compaction, a migration
  and ordinary writes that all stage generations; leftovers of earlier failures.
- **Job system.** Condition variables, a bounded completion queue, shutdown.
- **Players.** Removals and snapshots of players go through different queues and
  are applied in another order than they were sent; players outlive connections.
- **Chunk streaming.** Edits that are taken back, flushes that fail, crashes
  between flushes, eviction planned before the flushes it depends on.
- **Chunk rendering.** Flags and regions are consumed when a mesh is requested,
  not when it is drawn; meshes become stale while they are built or wait for
  their upload; a byte budget pushes meshes out that must come back.
- **GPU memory.** Ranges of replaced meshes are still drawn by frames in flight;
  a batch of uploads that fails half way must undo all of its allocations.
- **Profiles and bans.** Every operation has several fallible steps, on disk, in
  memory and in a log, and may stop after any of them.

The full list of hazards, each with its line, is `hazards` in `PROJECT.json`.

## 2. Modules

```
NetMessages
 |- ClientSession ----------------------------.
 |- HostSession                               |
 |   \- CommandLoop (+ ClientSession)         |
 |       |- CommandLoopProofs                 |
 |       \- MCCommandLoop (+ PlayerReplication, PacketReassembly)
 |- ReplicationDownlink (+ ClientSession, TransportConfig, ReliableChannel)
PlayerReplication, PacketReassembly
 \- SessionProofs (+ FoldLemmas)
CommandSequencer
 \- CommandUplink (+ TransportConfig, ReliableChannel)
     \- MCDatagramTransport (+ ReplicationDownlink)
         \- DatagramProofs
ChunkGeometry
 |- ChunkDatabase (operators)
 |- ChunkStreaming (+ ChunkDatabase)
 |- ChunkRendering (+ an instance of ChunkDatabase)
 \- MCChunks (ChunkStreaming, ChunkRendering, GpuMemory)
     \- ChunkProofs
GpuArena
 \- GpuMemory
     \- GpuMemoryProofs (+ FoldLemmas)
JobService  <=  ThreadPool (implements it)
                 \- ThreadPoolProofs
SaveStore   <=  SaveDatabase (implements it)
                 \- MCSaveDatabase (+ AuthoritativeServer)
                     \- PersistenceProofs
FileMarkers: what SaveDatabase and AuthoritativeServer find where no data is
FoldLemmas: induction and folds, for the proofs
```

- **NetMessages**: client identities and messages. A message is its kind and its
  sequence number.
- **ClientSession**: `net::ClientSession` and the receive loop of
  `game::ClientRuntime`. One action per message kind (`ReceiveWelcome`,
  `ReceiveCommandResult`, `ReceiveWorldEvents`, `ReceiveDelta`,
  `ReceiveDisconnect`), `RejectMessage` for the error path, `Synchronize` for
  `apply_client_queued_replication_deltas`.
- **HostSession**: `net::HostSession` on `net::InMemoryTransportHost`, and the
  delta phase of `ServerRuntime::run_tick`. A tick is unrolled into the steps of
  its loops; `phase` is the program counter. `FlushSend`/`FlushFail` are the two
  outcomes of one send in `flush_pending_outbound`, `TickDrain`/`TickBlocked` the
  two ways on from the first flush, `DispatchCommit`, `DispatchWithoutCommit` and
  `RefuseExhausted` the bodies of the dispatch loop, `SendDelta` one
  `send_replication_message`.
- **CommandLoop**: composes the two as `RuntimeSession` does. Everything runs on
  one thread: a new operation starts only when no tick (`Idle`) and no receive
  loop (`Quiescent`) is under way.
- **ReliableChannel**: one direction of the datagram transport for one client.
  It has no behaviour of its own; the two modules below instantiate it.
- **TransportConfig**: the limits both directions share
  (`TransportReliabilityConfig`).
- **CommandSequencer**: `TransportReliableCommandSequencer`.
- **CommandUplink**: commands of one client over a `ReliableChannel` into the
  sequencer, as in `PosixDatagramTransportHost`.
- **ReplicationDownlink**: the host's queue, a `ReliableChannel` and the client
  session at its end, without any reordering buffer in between, as in the code.

- **PacketReassembly**: `send_envelope` with its fragments and the server's
  `TransportPacketReassembler`. `SendPacket` may break off after any fragment;
  `Arrive` is one datagram of `drain_socket` (`Refuse`, `Keep` and `Finish` are the
  outcomes of `accept_fragment`); `Expire` is the part of `poll_maintenance` and
  `DisconnectEndpoint` that of `disconnect_client`.

- **JobService**: what `jobs::IJobSystem` promises: an accepted job is owed one
  result, results enter a bounded mailbox in completion order, and only shutdown
  with a full mailbox may drop one.
- **ThreadPool**: `ThreadPoolJobSystem`. `Reserve`, `Enqueue` /
  `RefuseWhileStopping` and `NotifyOne` are the critical sections of `submit`;
  `TakeJob`, `Doze`, `FallAsleep`, `Exit` and `FinishWork` are `worker_loop`;
  `Publish`, `Discard`, `FindFull` and `AwaitSpace` are `publish_result`;
  `Drain` and `NotifySpace` are `drain_completed`; `StoreStopping`,
  `NotifyWorkers`, `NotifyPublishers` and `Join` are the destructor. A wait on a
  condition variable is two steps, because a thread holds the mutex between its
  predicate and the moment it blocks, and a notification in that gap is lost to
  it; the notifier is kept out only if it takes the mutex. Callbacks may call
  `submit` and `drain_completed`.

- **SaveStore**: a saved value that an operation replaces in one step or leaves
  alone; "ok" is answered only after the replacement, "error" only without it.
- **SaveDatabase**: `FileSaveDatabase`. `root` maps each directory (the plain
  root, `generation_<n>`, `generation_<n>.tmp`) to its snapshot file and its
  `chunks`, `chunks.tmp` and `chunks.backup`; `current` is `current.txt`; `pc` and
  `op` are the operation under way (what was asked for, what it works on and, for
  the properties only, the save it started `from` and leads `to`). Each file operation of `write_snapshot`,
  `write_chunk_delta(s)`, `migrate_to_schema`, `maintain` and of the phases
  `recover`, `prune` and `compact` is a step with a failing alternative; `Crash`
  may come between any two, and a removal that fails leaves part of the tree.
  `Saved` is what `read_snapshot` returns. A file is replaced in one step, because
  `write_bytes_atomic` renames a temporary file that no reader opens; with
  `LateWriteErrors` its content may be lost all the same.

- **PlayerReplication**: players of a runtime session and the presentation of
  them. `ConnectPlayer`, `DisconnectPlayer` and `RunPlayerTick` are `connect_client`,
  `disconnect_client` and `run_tick` of `ServerRuntime` (spawning or taking over a
  player record, the queued removals, `replicate_players` with the host's retry
  queue; with `DeliveryMayFail` any send to the session's client may fail),
  `SynchronizePlayers` is the pump, the `synchronize` of the client runtime
  (removals first, then snapshots) and that of the presentation with its objects,
  slots and generations (`UpsertAll`, then `RemoveAll`).

- **ChunkGeometry**: the constants of a world of chunks: coordinates, voxels,
  what a voxel can hold and what the generator puts there.
- **ChunkDatabase**: resident chunks, the edit log and the mesh-dirty regions:
  `set`, `insert` with saved edits, `erase`, and the marking of neighbours.
  Operators only; the next two modules give them behaviour.
- **ChunkStreaming**: `ChunkStreamer`. A pass is `BeginPass` (planning),
  `LoadChunk`, `FlushSave`, `FlushReplication` and `EvictChunk`, a chunk at a time
  in coordinate order, and `FailPass`; `EditVoxel` and `MoveViewer` come between
  passes, `Restart` anywhere.
- **ChunkRendering**: a frame of `ChunkRenderSystem` with the mesh scheduler and
  the GPU cache's records, one action per stage and per chunk of a stage, with
  workers that start, finish or fail jobs between any two of them; the abstract
  mailbox is what `JobService` promises. The camera has a place, which decides
  what is near, and a frustum, the set of chunks it `sees`; a chunk is `Visible`
  within its distance and in the frustum. A frame takes a limited number of
  snapshots, cells of snapshots, jobs, results, uploads and bytes of uploads, and
  `FailSchedule` is a turn of scheduling whose halo, snapshot or job fails. `WorldStep` changes the chunks, the camera
  or the palette between frames, with the operations of `World`, an instance of
  `ChunkDatabase` on the renderer's own chunks (`shownChunks` and so on), so that
  one module can extend it beside `ChunkStreaming`.
- **GpuArena**, **GpuMemory**: `GpuBufferArena` (first fit, growth, retirement,
  collection), `StagingRing`, the frame and upload contexts of the Vulkan backend
  and `ChunkGpuCache::replace_meshes` with its rollback. The GPU completes
  submissions in order, at any time; `executing` is what it has still to do.

- **AuthoritativeServer**: `AuthoritativeServer`, `ServerAdminService` and
  `FilePlayerProfileStore`. `task` and `step` are the operation under way; each file
  operation of `save_unlocked` is a step with a failing alternative, `Enter`,
  `Gone`, `Flushed` and `Replaced` are what join, leave, flush and
  `replace_profile` do with a saved profile, `Audited` and `AuditFails` the two
  ways on from the log entry of a ban. `Crash` may come between any two steps.
  `latest`, `promised` and `overwritten` are history.

The MC modules EXTEND several models that share no state and run them side by
side: `part` (or `direction`) picks one at the start, and the others stand still. A
theorem about one of them is so about the very definitions that TLC checks.

In the network modules, where one C++ call becomes several steps, nothing else runs in between: the
steps exist so that each loop iteration can succeed or fail by itself.
Definitions commented "Faulty variant" are not part of the models; they are
plausible bugs that show that the properties notice them.

## 3. Runs

Every bound is a named constant. Properties marked (L) are liveness, (A) action
properties or refinements; the others are invariants.

| run | module, configuration | question |
|---|---|---|
| `command_loop` | MCCommandLoop, `MCCommandLoop.cfg` | Commands: failing sends, restarts, blocked ticks: `TypeOK`, `NoClientFault`, `DeltaAfterItsEvents`, `CommandInOnePlace`, `EventsInCommitOrder`, `CommandsHandledInOrder`, `OneSequencePerCommit`. Players: `PlayersAreShown` (`PlayersConverge` and `ObjectsFollowPlayers` of their module). Packets: `PacketsAreWhole`, `BudgetIsExact`. |
| `command_answered` | CommandLoop, `CommandAnswered.cfg` | `CommandAnswered` (L) under fair ticks and sends. |
| `stale_command` | CommandLoop, `StaleCommand.cfg` | **Violated.** A command left behind by a disconnected client. |
| `deferred_delta` | CommandLoop, `DeferredDelta.cfg` | **Violated.** A delta whose send is deferred is discarded. |
| `datagram_transport` | MCDatagramTransport, `DatagramTransport.cfg` | Up: `DeliveredInOrder`, `AcknowledgedIsKept`, `CommandSettled` (L): delivered, unless it or a predecessor was reported as dropped or refused, or the session has ended. Down: `AcknowledgedEventsAreTaken`, `StreamNeverRewinds` (A). Both: `TransportTypeOK`. |
| `thread_pool` | ThreadPool, `ThreadPool.cfg` | `ImplementsJobService` (A), `NoIdleWorkerOwedAJob`, `PendingCountsTheUnfinished`, `TypeOK`, `QueuedJobsAreTaken` (L), `ResultsGetPublished` (L). |
| `pool_shutdown` | ThreadPool, `PoolShutdown.cfg` | **Violated.** The destructor's wakeup can be lost. |
| `save_database` | MCSaveDatabase, `SaveDatabase.cfg` | Saves: `ImplementsSaveStore` (A), `DestinationsAreFree`, `MaintenanceReclaims` (A), `CurrentOnlyAdvances` (A). Profiles and bans: `SavedProfileIsKept`, `ChangesAreStoredOrDirty`, `BansAreOnDisk`. Both: `MCTypeOK`. |
| `lost_profile` | AuthoritativeServer, `LostProfile.cfg` | **Violated.** A crash while a profile is parked, then a join. |
| `late_write_error` | MCSaveDatabase, `LateWriteError.cfg` | **Violated.** A write error seen only at close. |
| `chunks` | MCChunks, `Chunks.cfg` | Streaming: `HistoryExplainsChunks`, `NoEditIsLost`, `CleanMeansHandedOff`. Rendering: `NoStaleMeshIsForgotten`, `ResidencyIsBounded`, `MeshesConverge` (L). Memory: `MeshesOwnTheArenas`, `InUseIsKept` (`MemoryInUseIsKept` and `StagingInUseIsKept`). All: `MCTypeOK`. |
| `renderer_settles` | MCChunks, `RendererSettles.cfg` | **Violated.** The renderer of a standing world meshes for ever. |

Why the bounds are enough to be interesting:

- *Commands.* Two clients is the least number for which one can be blocked while
  another is served; three commands of one client fill a tick's batch while
  another waits. `WideOrDeep`, a `CONSTRAINT`, takes both cases without their
  product: more than one identity handed out, or more than one command of a
  client. A sequence space of two is exhausted, so the last sequence and what
  follows it are covered.
- *Players.* Three connections let a player record pass from one connection to
  another and back while the session's own client watches; four ticks are enough
  to spawn, move, leave and return; one saved record is taken over at the start.
  Sends fail at will, so removals and snapshots pile up in one batch.
- *Packets.* Two messages of one client could be mixed up, a third one of another
  client competes for the budget, which two packets fill; three packets, one
  repeated fragment and a timeout of two polls make a message sent again beside
  its first attempt, a packet reopened after it was complete, and an expiry that
  takes one packet and leaves another.
- *Datagrams.* Two attempts and a receive history of one make retransmission, the
  drop, and a duplicate that passes the filter all happen; four commands against
  a reorder window of two put the window at its limit; sends and
  retransmissions fail at will.
- *Pool.* Two workers are the least for which one wakeup can go to the wrong one,
  and a mailbox of one makes both of them wait for room.
- *Saves.* Three generations give a stale one, an active one and one that was
  promoted but not published, and exhaust the numbers; two coordinates make
  half-written and half-removed tables, two deltas make an update that differs
  from what it replaces.
- *Profiles.* Two players who share an address meet in a flush, in a stop and in
  the ban list; two revisions and a map cell tell a profile from its update, its
  reset and an imported copy.
- *Chunks.* Two neighbouring chunks of one voxel, of which each shows in the other's
  mesh; the viewer has one place near both, and one far from them.
  Two disturbances are the least for which a chunk changes while the mesh of an
  earlier change is under way, or the camera goes away and comes back. As in the
  default configuration (16, 18 and 22) the visible, the mesh and the retention
  distance differ: they are 1, 2 and 3. The camera begins where both chunks are
  visible; it may turn so that one of them is behind it, move to where one is
  visible and one near, to where one is near and one is only kept, and to where
  one is out of reach. The byte budget of the GPU holds one of two meshes, that
  of a frame's uploads one, and a frame's snapshots may copy four cells, enough
  for a solid chunk with its halo and an empty one, not for two solid ones. The
  run has 331,685 states.
- *GPU memory.* Blocks of two units that may grow to four, a staging ring of four,
  two contexts and three submissions: blocks grow and run out, the ring wraps,
  and a context is used again while its predecessor's submission is in flight.

The default configurations have 256 messages in flight, five attempts, 1024
remembered keys, 64-bit sequences: the same cases, further apart.

`VIEW`s leave out what no step reads again. In `save_database`, of a directory
that is removed before it is next written (a stale generation, a backup beside
its table, a staged profile) only the existence is kept, or nothing; `SYMMETRY`
there permutes the players, whom no operation tells apart. In `chunks`, streaming reads
neither load generations nor mesh flags. States with the same view have the same
successors up to the view, and the checked formulas read nothing else.

`CHECK_DEADLOCK FALSE` appears in the datagram run, where the connection under
study ends and nothing follows, and in those of the pool, which is joined in the
end. In `command_loop` the bound of the ticks ends the behaviours of the second
part (`BoundReached`); packets keep being polled.

### Fairness

`CommandLoop!Fairness`: `run_frame` runs ticks and pumps over and over (strong
fairness, because other operations of the same thread come in between), a call
that has begun runs to its end (weak fairness of its steps), and a send to a
connected client does not fail for ever. `CommandUplink!Fairness`: the tracker is
polled in every tick and every retry delay ends. Nothing is assumed of the
network.

`ThreadPool!Fairness`: the scheduler runs every thread that can run and a mutex
is granted in the end (strong fairness, since another worker may hold it from
time to time); a call of the interface that has begun goes on; a caller keeps
draining, as `docs/architecture/jobs.md` demands. Nobody need submit or destroy
the pool, and no spurious wakeup is ever relied on.

`MCChunks!RenderingFairness`: the owner thread keeps drawing frames and each
worker that has a job finishes it or fails (weak fairness). The world need not
change, and `MeshesConverge` speaks of the time after world and camera have
stopped, which `MaxDisturbances` brings about. Streaming, GPU memory, players, packets, the
downlink, saves and profiles are checked for safety only: their callers may stop at any
time.

`CommandAnswered` is checked under `CleanFairSpec`, which adds a condition on the
use of the program: a client is disconnected only when none of its commands
waits in the server inbox. `stale_command` shows that it cannot be dropped.

## 4. What the violated runs show

- **`stale_command`.** `disconnect_client` leaves the client's commands in
  `server_inbox_`. The next tick dispatches them and queues the answers in
  `pending_outbound_` for a client that cannot be sent to any more. The entry is
  never erased, so `HostSession::tick` takes its early return from then on and
  no client is served again.
- **`deferred_delta`.** If the direct send of a delta fails once, the host keeps
  it for the next tick; by then the client's `synchronize` has drained the event
  batch, reported it as `pending_delta` and dropped it. The delta that arrives
  later is unmatched and dropped too.
- **`pool_shutdown`.** The destructor stores `stopping_` and calls `notify_all`
  without taking `jobs_mutex_`. A worker that has just found its predicate false
  still holds that mutex and has not yet blocked; the notification passes it by,
  it blocks, and `join` never returns.
- **`late_write_error`.** `write_bytes_atomic` checks its stream before the stream
  is destroyed, so an error in writing the last buffer (the whole of `current.txt`
  or of a small `index.txt`) is not seen, the truncated file replaces the good one
  and the operation returns ok. `save_database` assumes that every error of a
  write is seen before the stream closes, and shows that nothing else can go
  wrong. (`docs/architecture/save_database.md:75` also describes a fallback that
  removes the destination when a rename fails; `core::replace_file` has none.)

- **`lost_profile`.** `save_unlocked` parks the old directory as `.old` before it
  renames the new one into its place. `load_unlocked` puts a parked directory
  back, but `load_or_create`, which `join` uses, looks for `profile.dat` before
  that could happen, makes a new profile, and its save begins by deleting `.old`.
  `SavedProfileIsKept` shows that this is the only way: but for a save that starts
  while only `.old` is there (`overwritten`), no profile is ever lost.
- **`renderer_settles`.** A chunk that is enqueued while its unchanged mesh is
  being built is meshed again; the second mesh equals the resident one, is
  rejected as such and requeued, without end. `MeshesConverge` shows that what
  is drawn is right all the same, as long as one frame can take a snapshot of
  every chunk that should come (`MeshedInOneFrame`). Where it cannot, the run finds
  that the chunk that is meshed without end may take a frame's whole limit every
  time, being visible, and keep a chunk that is near but not visible from ever
  being meshed.

Three more behaviours that a reader should know of are written into the
properties that hold:

- `MeshesConverge` does not say that all chunks near the camera are finally drawn
  if they fit the byte budget. Only a visible chunk pushes others out of it
  (`should_restore_suppressed_residency` returns at `chunk_render_system.cpp:1134`
  for any other). A chunk near the camera that is beyond the visible distance, or
  behind the camera, stays suppressed as long as a chunk the camera has left
  behind holds the budget, which it may up to the retention distance. So the
  property promises the visible chunks if they fit by themselves, and the other
  near chunks if they fit together with all that is kept (`KeptChunks`), in both
  cases if one frame can take their snapshots (see `renderer_settles` above).

- `PlayersConverge` excepts players in `overtaken`: `synchronize` applies the
  removals of a batch before its snapshots (`client_runtime.cpp:76-102`), so a
  player that left after its last snapshot was queued is shown until it moves or
  leaves again, if both arrive in one batch.
- `CleanMeansHandedOff` and `NoEditIsLost` hold although an edit that is taken back
  after its chunk was flushed can never be flushed itself (its record is gone and
  `flush_save_deltas` reports `dirty_without_delta`,
  `chunk_streamer.cpp:340`): the chunk stays dirty and is never evicted, so it
  is right for as long as the process lives; the next one shows the old edit.

## 5. Proofs

Every invariant and every action property of the passing runs is proved, for all
values of the constants that the assumptions at the end of this section allow.
What is left to TLC is the liveness.

`CommandLoopProofs` proves, for every value of the constants,

- `TypeCorrect`: `Spec => []TypeOK`;
- `SequencesAreNotReused`: `Spec => []OneSequencePerCommit`, which is inductive
  once the type of the counter is known;
- `CommandOrder`: `Spec => []CommandsHandledInOrder`.

`CommandsHandledInOrder` speaks of the head of the batch being dispatched only. Its inductive
strengthening `OrderInv` says that the commands of a client in `inbound \o
serverInbox` form an unbroken run (`UnbrokenRun`) from `handled + 1` to
`lastCommandSequence`, and that a client that has never connected has sent
nothing (`NewSession`). Taking the head of a run, appending its successor and
moving it from one queue to the other keep it unbroken; these are the lemmas
`TailOfRun`, `ExtensionOfRun`, `EmptyRun`, `UpstreamTail` and `DispatchKeepsRun`.

It also proves the four other invariants of the command loop, for
any number of clients, commands and commits and any pattern of failing sends:

- `EventsStayOrdered`: `Spec => []EventsInCommitOrder`;
- `DeltasFollowEvents`: `Spec => []DeltaAfterItsEvents`;
- `ClientsNeverFault`: `Spec => []NoClientFault`;
- `CommandsAreAccountedFor`: `Spec => []CommandInOnePlace`.

None of them is inductive without the others: the receive loop rejects a message
unless the stream it comes from is in order, and what it accepts decides what the
rest of the stream may hold. `DeliveryInv` says of every client's whole stream,
`Downstream(c)`, that it is sound (`StreamIsSound`): the welcome is first and a
disconnect notice last (`Framed`); event batches are numbered upwards from what
the client has seen to what has been committed (`Numbered`); deltas rise from
those the client holds, over those on their way, to those the running tick has
yet to send (`DeltasRise`), each after its batch (`BatchesFirst`); the results
answer pending commands that have been handled, one each (`Answers`). With the
run of commands upstream (`OrderInv`) that is one place for each command.
A message at the end, the head taken, a result or batch and a commit at the end of
the dispatch loop keep each part; those are lemmas about sequences, and what a
step of the host does to one client's stream is in `DispatchSound`,
`DeliverySend`, `FlushKeepsStream` and `ReceiveSound`.

`ThreadPoolProofs` proves `PoolTypeCorrect`, `NoIdleWorker` (`Spec =>
[]NoIdleWorkerOwedAJob`) and `PendingExact` (`Spec =>
[]PendingCountsTheUnfinished`), for any finite sets of callers and workers and
any bounds. The three rest on one inductive invariant, `PoolInv`: the properties
themselves and `StagesAgree`, which ties where a thread stands to what it holds
(a worker holds a job exactly between taking and disposing of it; one that is
about to block still sees an empty queue, because it holds the mutex). Types
need the counter to be exact (`pending - 1` is a natural number), the counter
needs `StagesAgree`, and the wakeup argument counts: a submit adds a job and a
pending notification, a notification turns into a worker on its way, and a
worker takes its job along when it leaves the set of the ready (`IdleStep`).
`PoolImplementsService` is the refinement `Spec => ImplementsJobService`: each
critical section is one step of `JobService` or none. What the service owes is
what is queued or in a worker's hands, so the proof needs `ServiceInv`: the ids
of jobs that are queued, held, published or dropped are apart and below the next
id, and completion numbers count the results.

`DatagramProofs` proves, for any limits of the transport, any number of commands
and batches, and whatever the network loses, repeats or reorders,

- `SequencerOrder`: `Spec => []DeliveredInOrder`. The invariant `SequencerInv`
  adds `CountsDelivered`: while the client is connected, the number of commands
  handed on is one less than the next expected sequence, and all of the sequence
  space once that is exhausted. The work is in `ReadyRunIsInterval` (what leaves
  the reorder buffer is an interval that starts at the gap, by counting it) and
  `IntervalInOrder` (the interval comes out in increasing order);
- `AcknowledgedKept`: `Spec => []AcknowledgedIsKept`, with `AckInv`: what the
  receive history remembers was acknowledged, so the duplicates that skip the
  sequencer are no new acknowledgements, and `SequenceKeeps`: nothing that was
  taken over is lost when a run leaves the buffer, and a sequence older than the
  gap has been handed on;
- `AcknowledgedEvents`: `DownlinkSpec => []AcknowledgedEventsAreTaken`. The client
  acknowledges a batch before its session has looked at it, and the session may
  reject it. `DownlinkInv` adds `LoopAgrees` (the receive loop is the client's, and
  what its session has queued for presentation counts as taken) and
  `DownlinkTypes`, in which every message in the channel, in the vector or in the
  loop is one the server has produced so far (`Produced`). The one step that may
  drop an acknowledged batch is the end of the loop after an error, and it leaves
  the session faulted (`LoopEndKeeps`);
- `StreamIsMonotone`: `DownlinkSpec => StreamNeverRewinds`, from `DownlinkInv`: the
  only message that lowers the sequence is a welcome, and only a disconnected
  session takes it;
- `TransportTypeCorrect`: `MCSpec => []TransportTypeOK`, for both directions side by
  side. `SendTypes`, `PollTypes`, `AckTypes`, `RemoveTypes` and `AcceptTypes` are
  about the operators of `ReliableChannel`, for any set of messages, and serve
  both: the window stays bounded because a send checks it, the history because
  the oldest key makes room for the newest.

`SessionProofs` proves about packets, for any messages, limits and timeout,

- `WholePackets`: `PacketsSpec => []PacketsAreWhole`. `PacketInv` says that a packet
  number belongs to one message, in flight and in the table, and that a pending
  entry holds pieces of that message only, has counted each of them once and is
  not complete. The step that matters is `OneFragment`: a fragment in flight agrees
  with its packet, and as many pieces as the message has are all of its pieces
  (`OneMorePiece`, by counting);
- `ExactBudget`: `PacketsSpec => []BudgetIsExact`. `BudgetInv` has the table finite
  and the count equal to a sum over it; a packet that opens adds its part, and
  those that go, one by one or together, take theirs along (`KeepKeepsBudget`,
  `ForgettingKeepsBudget`), by the laws of sums in `FoldLemmas`;

and about players, for any number of connections, ticks and saved players,

- `PlayersShown`: `PlayersSpec => []PlayersAreShown`.

`PlayersAreShown` compares the two ends when nothing is on its way, so its
invariant, `PlayersInv`, is about what is: the inbox, the host's queue and the
removals that wait for a tick form one `Stream`. `StreamInv` says that the last
message of the stream about a player is what the client has to be told
(`Expected`: its snapshot at the last tick if it has moved, else its first
snapshot if it is the client's own, else its removal), and that a player the stream
does not name is in the client's record exactly if it should be, or in
`overtaken`. `TicksInv`: ticks do not go back along the stream, nor behind the
record; that is why no update is stale. `ClientInv`: objects, slots and free list
fit each other (`ProxiesOK`), and an id given back is of an earlier generation of
its slot (`AllGone`). The server only appends to the stream (`DeliverLemma`, whichever
sends fail; `StreamGrows`, `TicksGrow`); the client takes a prefix of it
(`RecordFollows`, where a removal that came with an older snapshot is the case
that `overtaken` excepts). The loops of the presentation are folds; a fold over a
sequence is turned into a run of its steps (`UpsertAllRuns`, `RemoveAllRuns`), along
which the invariant of one step goes by induction.

`ChunkProofs` proves, for streaming, for any coordinates, voxels, radii and pass
limits, whatever passes fail and however often the process restarts,

- `StreamingTypeCorrect`: `StreamingSpec => []StreamingTypeOK`;
- `HistoryIsExact`: `StreamingSpec => []HistoryExplainsChunks`;
- `EditsAreKept`: `StreamingSpec => []NoEditIsLost`;
- `CleanIsHandedOff`: `StreamingSpec => []CleanMeansHandedOff`.

The properties speak of resident chunks; `StreamingInv` adds what must be true of
the others for a reload to bring them back. A delta on disk has exactly the
records that distinguish the chunk it gives from the generated one
(`DiskIsCanonical`), a chunk that has left has no history or the one on disk
(`AbsentCanReturn`), and the lists of a pass that runs name resident chunks once
its loads are done (`PassIsAboutResidents`). The hard step is an edit that takes
an earlier one back: its record disappears from the history, and the dirty flags
alone keep the chunk.

For rendering, for any coordinates, voxels, haloes, camera places and frustums,
distances and limits, however the world, the frames and the workers interleave
and whatever snapshots, meshes and uploads fail, it proves

- `StaleMeshesAreRebuilt`: `RenderingSpec => []NoStaleMeshIsForgotten`;
- `ResidencyBound`: `RenderingSpec => []ResidencyIsBounded`;
- `MCTypeCorrect`: `MCSpec => []MCTypeOK`, for streaming and rendering side by side.

`NoStaleMeshIsForgotten` speaks of the end of a frame; `RenderingInv` says what
holds at each of its steps and between frames. A frame first deals with the
loaded chunks one by one, and from then on each is `Attended` or still to come
(`NothingIsForgotten`): cached, and resident as it is, suppressed, or `UnderWay` in
a queue, with a worker or among the results in hand. Two things make this true
although the world changes between frames and meshes arrive late.
`MeshesAreSound`: a mesh on its way remembers the versions its snapshot was taken
of, and whatever has that version now, or ever had it, looks as the mesh shows it;
so a mesh whose dependencies match is a mesh of the world as it is
(`CurrentIsShown`), and `SoundEvolves` keeps this through every change, since a
changed chunk has a new revision or a new generation. `CleanMeshesAreShown`: the
dirty flag is a promise, a resident mesh whose chunk is not marked shows that
chunk and what its neighbours leave open. This is where the database's marking of
neighbours has to reach as far as the snapshots' halo: `UntouchedIsShown` shows
that a chunk an edit, a load or an unload has not marked looks as before,
`HaloReaches` that a snapshot with a halo depends on both neighbours. The other
parts say that generations are never used twice (`GenerationsArePast`), that each
published result is that of one finished job (`MailboxAgrees`), and what the
stages of a frame establish (`FrameAgrees`): the table is the palette's, the
cache has loaded chunks only, then none beyond the retention distance, then none
above the budget. TLC checked `RenderingInv` on the run's instance before it was
proved. That a set of numbers has a largest member (`Halo`, the budget's choice)
comes from the well-foundedness of the naturals, without induction.

`GpuMemoryProofs` proves, for any arenas, staging ring, number of contexts and
batches, and however far the GPU lags behind,

- `ArenasAreOwned`: `MemorySpec => []MeshesOwnTheArenas`;
- `SubmissionsKeepTheirMemory`: `MemorySpec => []InUseIsKept`;

from `MemoryInvariant`: `MemorySpec => []MemoryInv`, which TLC checked on the run's
instance first. `ArenasInv`: every block is tiled by its live allocations and its
free ranges, of which no two overlap or touch, and each allocation that is not
retired belongs to one mesh. `SerialsInv`: submissions end in
their order, and a context remembers one that exists. `UsesInv`: what a submission
draws is allocated, and if it is retired then with a serial that comes no earlier.
`RingInv`: active staging ranges are apart, and what is being copied is active.
The work is in the operators of the arena, each with a lemma about any arena:
a range given back is merged on both sides (`insert_free_range`), an allocation cuts
the first range that fits or opens a block, a collection gives back many ranges;
and in a batch that fails half way, whose earlier allocations must leave again.

`PersistenceProofs` proves about saves, for any worlds, chunks, plain roots to start with and
number of generations, with any file operation failing and the process dying
between any two,

- `SaveTypeCorrect`: `Spec => []TypeOK`;
- `DatabaseImplementsStore`: `Spec => ImplementsSaveStore`, the refinement;
- `DestinationsStayFree`: `Spec => []DestinationsAreFree`;
- `CurrentAdvances`: `Spec => CurrentOnlyAdvances`;
- `MaintenanceReclaimsAll`: `Spec => MaintenanceReclaims`.

All five assume `~LateWriteErrors`, which is the value in the run
`save_database`; the run `late_write_error` shows that the refinement fails without
it. `SaveInv` has seven parts. `DiskIsSound`: the active root can always be read.
`RequestAgrees` and `GenerationIsNew`: what an operation works on follows from
its request, in a generation with a number above all that are committed.
`TargetAgrees` (with `TargetAfter`) says for each step what the earlier steps have
made of the directories of the target. `OutcomeSoFar`: a reader finds the old save
until the one step that replaces it, and the new one after it. `PhasesAreDone`
keeps what the phases of a maintenance pass have reclaimed. For the refinement,
`Effect` lists what a step may do to the triple of saved value, operation and
answer, and `EffectIsStoreStep` shows that each is a step of `SaveStore` or none;
so each of the file operations is looked at once for the invariant and once for
its effect.

About profiles and bans it proves, for any players and revisions, whatever file
operation, message or log entry fails and wherever the process dies,

- `ServerTypeCorrect`: `ServerSpec => []ServerTypeOK`;
- `SavedProfilesAreKept`: `ServerSpec => []SavedProfileIsKept`;
- `ChangesAreNotDropped`: `ServerSpec => []ChangesAreStoredOrDirty`;
- `BansStayOnDisk`: `ServerSpec => []BansAreOnDisk`;

and of the two side by side `SavesAndProfilesTyped`: `MCSpec => []MCTypeOK`.

`ServerInv` ties the three together. `PromisesAreKept` is stronger than the
property: what can be loaded is what was promised, also when that is nothing, so
that a crash, after which the store is all there is, leaves nothing unsaved;
`ChangesAreKept` says so between the steps too. They rest on `SaveAgrees` (what
each step of a save has made of the three directories), `OperationAgrees` (a
profile being saved for a leave, a stop or a flush is still the player's when the
save is over) and `NewIsNew` (a fresh profile replaces only one that is in
`overwritten`). `SaveKeeps` deals with the steps that leave what is loadable,
`InstallStep` and `CleanUpStep` with the two that do not, `NothingStored` and
`OnePlayer` with the operations of the server.

`FoldLemmas` has what these proofs share: induction over numbers and over the
subsets of a finite set, where what is to be proved is given as a set and not as an
operator; the existence of folds over finite sets and along sequences, from which
the equation of a `FoldLeft` or a sum follows; and the laws of sums.

Assumptions used: the constants' types (`MaxClientIdAssumption`,
`HostAssumption`, `MaxCommandsAssumption`, `PoolAssumption`,
`SequencerAssumption`, `ReassemblyAssumption`, `PlayersAssumption`, `ChunkAssumption`,
`StreamingAssumption`, `RenderingAssumption`, by which `None` is neither the version
of a chunk nor a mesh, `ArenaAssumption`, by which the first block is no larger than
the largest, `MemoryAssumption`, by which a batch names a chunk once and a mesh has
vertices if it has indices, `SaveConstants`, `ReliabilityAssumption`,
`DownlinkAssumption`, which has it that there is a client, and `UplinkAssumption`,
by which a command number is a sequence number, as both are 64 bits wide); that a save left
by an earlier version without generations can be read (`PlainRootsAreReadable`);
and that the markers `None` and `Broken` are no data (`MarkersStandApart`,
`ServerAssumption`).

Model-checked only: liveness under fairness (`CommandAnswered`, `CommandSettled`,
`QueuedJobsAreTaken`, `ResultsGetPublished`, `MeshesConverge`) and whatever needs
ENABLED, which the prover cannot do; and the violated properties of section 4,
whose counterexamples are TLC's.

## 6. Abstractions, and what is left out

- Payloads, payload types, timestamps, wording of errors and reports.
- Validation of messages that the code itself builds always succeeds; an
  over-long payload is the one case where it would not.
- Retry timers: any tracked message may have outlived its delay when polled.
- An acknowledgement, once sent, may arrive at any later time, repeatedly or
  never.
- Fragments: their sizes are counted in fragments, and one client's message is
  sent by one socket. The codecs are left out, and so is the table of a client,
  which is the same class with one source; time does not run backwards.
- Unreliable messages; chunk slices on connection. A connection
  that fails half way is undone and not modelled in `PlayerReplication`. The
  host's queue for a blocked client has no limit in the code, nor in the model.
- Power loss (the code never calls fsync and `save_database.md` claims no
  durability), several writers at a time (callers serialize), the codecs, size
  limits, and save slots' `slot.txt`.
- The world itself: a commit is a sequence number.
- Job names, outcomes and callbacks' effects; the clean-up of a pool whose
  constructor fails half way; the immediate backend (one thread, straight-line).
- Chunks lie on a line: the other axes add more neighbours of the same kind. A
  mesh is what it shows of its chunk and its neighbours; face extraction is
  taken as right.
- The frustum has a chunk or has not, where the code tests the bounds of the
  chunk's mesh, which change with its cells; distances are between chunks, where
  the code measures from the camera to the centre of those bounds to rank meshes.
- A halo or snapshot that fails, a job that is refused, a mesh or an upload that
  fails happen at will, as often as `MaxDisturbances` allows. Of the refusals of
  `submit` those that end the loop (no capacity, a job of the same identity)
  are excluded by the tests before it.
- GPU: sizes are in units of the alignment, allocation generations are left out
  (no modelled owner keeps a stale handle), every frame draws every mesh; image
  uploads, static meshes, resizing and shutdown of the backend are left out.
- A profile is its revision and one map cell; messages, chat, backups, the
  contents of logs and the limit of 100,000 bans are left out.

### Not modelled

Most of the repository's lines are not state machines. The rest of
`vulkan_backend.cpp`, `render_device.cpp`, `platform.cpp` and the inspection UI
call drivers and lay out text; the save, protocol and asset codecs,
`world_commands.cpp`, the registries and the mod loader are pure or
straight-line functions of large records, whose faults a unit test reaches and
whose models would be as long as they are; movement, fire, processes and
workpieces are numeric rules on one thread. `server_command.cpp` runs a handler
on a staged copy of the world and moves or drops it, in one piece; the command
loop models the outcome. What is modelled is where order, failure and
concurrency decide.

## 7. Plan

1. *Done*: everything in section 2, with the theorems of section 5.
2. An abstract specification of exactly-once commands that `CommandLoop` and
   `CommandUplink` implement; movement input sequencing.
