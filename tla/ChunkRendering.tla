--------------------------- MODULE ChunkRendering ---------------------------
(* The chunk renderer (src/engine/renderer/chunks/chunk_render_system.cpp,    *)
(* chunk_mesh_scheduler.cpp and chunk_gpu_cache.cpp).  Each frame the owner   *)
(* thread brings its records in line with the world, takes the meshes the     *)
(* workers have published, uploads them, keeps what is resident within a      *)
(* distance and a byte budget, and submits snapshots of the chunks that need  *)
(* a mesh; every step of a frame is an action, and the workers run between    *)
(* any two of them.  The world and the camera change between frames.  Edits,  *)
(* loads, unloads, camera moves, palette changes and failures of snapshots,   *)
(* meshes and uploads are capped together by MaxDisturbances.                 *)
EXTENDS ChunkGeometry, Sequences, Functions, FiniteSetsExt

CONSTANTS Air,
          DependencyRadius,   \* [Cells -> Nat], of the block render table
          MaxDependencyRadius,   \* BlockModelDefinition::max_dependency_radius
          Cameras,            \* where a camera can be, with the chunks in its frustum
          MeshDistance, RetainDistance, VisibleDistance,
          MaxJobs, MeshedPerFrame, UploadedPerFrame, DrainedPerFrame,
          SnapshotCellsPerFrame,
          BytesUploadedPerFrame,
          TerrainBudget,      \* in bytes; a mesh has one for each solid voxel
          MaxDisturbances,    \* bound: changes of the world and failures together
          None

(* A mesh, with what its snapshot was taken of: the chunk's revision, the     *)
(* render table, the neighbours' versions and the cells it shows.             *)
Meshes ==
    [revision : Nat, table : Nat,
     deps : SUBSET (Coords \X (Nat \X Nat \cup {None})),
     shown : [own : [Voxels -> Cells], beside : {<<>>} \cup Cells \X Cells]]

(* ChunkRenderConfig::validate, WorldRenderDistances::validate; None is       *)
(* neither the version of a chunk nor a mesh.                                 *)
ASSUME RenderingAssumption ==
    /\ Air \in Cells
    /\ MaxDependencyRadius \in Nat
    /\ DependencyRadius \in [Cells -> 0..MaxDependencyRadius]
    /\ Cameras \subseteq [at : Int, sees : SUBSET Coords]
    /\ {MeshDistance, RetainDistance, VisibleDistance} \subseteq Nat
    /\ VisibleDistance <= MeshDistance
    /\ MeshDistance <= RetainDistance
    /\ {MaxJobs, MeshedPerFrame, UploadedPerFrame, DrainedPerFrame} \subseteq Nat \ {0}
    /\ {BytesUploadedPerFrame, TerrainBudget} \subseteq Nat \ {0}
    /\ SnapshotCellsPerFrame \in Nat
    /\ SnapshotCellsPerFrame >= EdgeLength + 2 * MaxDependencyRadius
    /\ MaxDisturbances \in Nat
    /\ None \notin Nat \X Nat
    /\ None \notin Meshes

VARIABLES shownChunks, shownEditLog, shownMeshRegions, shownNextGeneration, \* the world
          camera,
          palette,    \* the palette's render revision
          table,      \* the revision of the render table the meshes are built with
          entry,      \* the cache: at most one record per coordinate
          pending,    \* the identities waiting for a snapshot
          jobs,       \* the active jobs of the scheduler, by identity
          mailbox,    \* the published results
          uploads,    \* the meshes waiting for their upload, by identity
          frame,      \* where the owner thread is in its frame
          disturbances

World == INSTANCE ChunkDatabase WITH
    chunks <- shownChunks, editLog <- shownEditLog, meshRegions <- shownMeshRegions,
    nextGeneration <- shownNextGeneration

shownVars == <<shownChunks, shownEditLog, shownMeshRegions, shownNextGeneration>>

Loaded == World!Resident

meshVars == <<entry, pending, jobs, mailbox, uploads>>

inputVars == <<shownVars, camera, palette, table, disturbances>>

renderVars == <<inputVars, meshVars, frame>>

NearCamera(c, radius) == c - camera.at \in -radius..radius

Identity(c) == <<c, shownChunks[c].generation>>

IsLoaded(id) == id[1] \in Loaded /\ Identity(id[1]) = id

IsCached(id) == id[1] \in DOMAIN entry /\ entry[id[1]].generation = id[2]

Visible(c) == NearCamera(c, VisibleDistance) /\ c \in camera.sees

Distance(c) == IF c < camera.at THEN camera.at - c ELSE c - camera.at

(* The halo of a snapshot, and the neighbouring chunks it reaches.            *)
Halo(cells) ==
    CHOOSE r \in {0} \cup {DependencyRadius[cells[v]] : v \in {w \in Voxels : cells[w] # Air}} :
        \A v \in Voxels : cells[v] # Air => DependencyRadius[cells[v]] <= r

Reached(c, halo) ==
    {d \in Coords : /\ d - c >= (0 - halo) \div EdgeLength
                    /\ d - c <= (EdgeLength - 1 + halo) \div EdgeLength}

Version(c) ==
    IF c \in Loaded THEN <<shownChunks[c].generation, shownChunks[c].revision>> ELSE None

Dependencies(c) == {<<d, Version(d)>> : d \in Reached(c, Halo(shownChunks[c].cells))}

DependenciesMatch(deps) == \A d \in deps : d[2] = Version(d[1])

(* What a mesh of a chunk shows: its cells, and the faces that the adjacent   *)
(* cells of its neighbours leave open when the snapshot reaches them.         *)
Shown(c) ==
    [own |-> shownChunks[c].cells,
     beside |-> IF Halo(shownChunks[c].cells) = 0 THEN <<>>
                ELSE <<IF c - 1 \in Loaded THEN shownChunks[c - 1].cells[EdgeLength - 1] ELSE Air,
                       IF c + 1 \in Loaded THEN shownChunks[c + 1].cells[0] ELSE Air>>]

Bytes(mesh) == IF mesh = None THEN 0
               ELSE Cardinality({v \in Voxels : mesh.shown.own[v] # Air})

Snapshot(c) ==
    [revision |-> shownChunks[c].revision, table |-> table, deps |-> Dependencies(c),
     shown |-> Shown(c)]

(* A record is inserted or replaced.                                          *)
Put(records, key, record) ==
    [k \in DOMAIN records \cup {key} |-> IF k = key THEN record ELSE records[k]]

NewEntry(generation) ==
    [generation |-> generation, state |-> "missing", mesh |-> None,
     suppressed |-> FALSE, lastBytes |-> 0, seen |-> 0]

ResidentMeshes(cache) == {c \in DOMAIN cache : cache[c].state = "resident"}

ResidentBytes(cache) == MapThenSumSet(LAMBDA c : Bytes(cache[c].mesh), ResidentMeshes(cache))

RenderingInit ==
    /\ \E S \in SUBSET Coords :
           shownChunks = [c \in S |-> [generation |-> 1, revision |-> 2, cells |-> Baseline[c],
                                  dirty |-> {"mesh"}]]
    /\ shownEditLog = [c \in Coords |-> World!NoDelta]
    /\ shownMeshRegions = Loaded
    /\ shownNextGeneration = 2
    /\ camera \in Cameras
    /\ palette = 1
    /\ table = 0
    /\ entry = [c \in {} |-> c]
    /\ pending = {}
    /\ jobs = [id \in {} |-> id]
    /\ mailbox = <<>>
    /\ uploads = [id \in {} |-> id]
    /\ frame = [at |-> "idle", todo |-> {}, results |-> <<>>, scheduled |-> 0, copied |-> 0]
    /\ disturbances = 0
-----------------------------------------------------------------------------
(* The world and the camera, between frames.                                  *)
Disturb ==
    /\ disturbances < MaxDisturbances
    /\ disturbances' = disturbances + 1

Change ==
    /\ frame.at = "idle"
    /\ Disturb
    /\ UNCHANGED <<frame, mailbox>>

Edit(c, v, cell) ==
    /\ Change
    /\ World!SetVoxel(c, v, cell)
    /\ UNCHANGED <<camera, palette, table, entry, pending, jobs, uploads>>

CancelAll(active, ids) ==
    [i \in DOMAIN active |-> IF i \in ids THEN [active[i] EXCEPT !.cancelled = TRUE]
                                          ELSE active[i]]

(* erase() of the records of some identities, with what waits for them.       *)
Forget(ids) ==
    /\ jobs' = CancelAll(jobs, ids)
    /\ pending' = pending \ ids
    /\ uploads' = Restrict(uploads, DOMAIN uploads \ ids)
    /\ entry' = Restrict(entry, {c \in DOMAIN entry : <<c, entry[c].generation>> \notin ids})

(* A chunk is loaded; process_chunk_loads() is told at once or, when it is    *)
(* not, the next frame finds out.                                             *)
Load(c, reported) ==
    LET id    == <<c, shownNextGeneration>>
        stale == IF c \in DOMAIN entry THEN {<<c, entry[c].generation>>} ELSE {}
    IN /\ Change
       /\ World!InsertGenerated(c)
       /\ IF reported
          THEN /\ jobs' = CancelAll(jobs, stale)
               /\ pending' = (pending \ stale) \cup {id}
               /\ uploads' = Restrict(uploads, DOMAIN uploads \ stale)
               /\ entry' = Put(entry, c, NewEntry(shownNextGeneration))
          ELSE UNCHANGED <<jobs, pending, uploads, entry>>
       /\ UNCHANGED <<camera, palette, table>>

(* A chunk is unloaded; process_chunk_evictions() is told at once or not.     *)
Unload(c, reported) ==
    /\ Change
    /\ World!Erase(c)
    /\ IF reported THEN Forget({Identity(c)}) ELSE UNCHANGED <<jobs, pending, uploads, entry>>
    /\ UNCHANGED <<camera, palette, table>>

MoveCamera(p) ==
    /\ Change
    /\ p # camera
    /\ camera' = p
    /\ UNCHANGED <<shownVars, palette, table, entry, pending, jobs, uploads>>

ChangePalette ==
    /\ Change
    /\ palette' = palette + 1
    /\ UNCHANGED <<shownVars, camera, table, entry, pending, jobs, uploads>>
-----------------------------------------------------------------------------
(* A worker: the cancellation flag is read once, before the mesh is built;    *)
(* building may fail.                                                         *)
StartJob(id) ==
    /\ id \in DOMAIN jobs
    /\ jobs[id].stage = "queued"
    /\ IF jobs[id].cancelled
       THEN /\ mailbox' = Append(mailbox, [id |-> id, state |-> "cancelled"])
            /\ jobs' = [jobs EXCEPT ![id].stage = "done"]
       ELSE /\ jobs' = [jobs EXCEPT ![id].stage = "meshing"]
            /\ UNCHANGED mailbox
    /\ UNCHANGED <<inputVars, entry, pending, uploads, frame>>

FinishJob(id) ==
    /\ id \in DOMAIN jobs
    /\ jobs[id].stage = "meshing"
    /\ jobs' = [jobs EXCEPT ![id].stage = "done"]
    /\ mailbox' = Append(mailbox, [id |-> id, state |-> "succeeded"])
    /\ UNCHANGED <<inputVars, entry, pending, uploads, frame>>

FailJob(id) ==
    /\ Disturb
    /\ id \in DOMAIN jobs
    /\ jobs[id].stage = "meshing"
    /\ jobs' = [jobs EXCEPT ![id].stage = "done"]
    /\ mailbox' = Append(mailbox, [id |-> id, state |-> "failed"])
    /\ UNCHANGED <<shownVars, camera, palette, table, entry, pending, uploads, frame>>
-----------------------------------------------------------------------------
(* synchronize(), step by step.                                               *)
At(phase) == frame.at = phase

GoTo(phase, todo) ==
    frame' = [at |-> phase, todo |-> todo, results |-> <<>>, scheduled |-> 0, copied |-> 0]

NearChunks == {c \in Loaded : NearCamera(c, MeshDistance)}

RefreshRenderTable ==
    /\ At("idle")
    /\ GoTo("reconcile", Loaded)
    /\ IF table = palette
       THEN UNCHANGED <<table, jobs, uploads, pending>>
       ELSE /\ table' = palette
            /\ jobs' = CancelAll(jobs, DOMAIN jobs)
            /\ uploads' = [id \in {} |-> id]
            /\ pending' = pending \cup {Identity(c) : c \in NearChunks}
    /\ UNCHANGED <<shownVars, camera, palette, disturbances, entry, mailbox>>

(* Whether a mesh that the byte budget pushed out may come back.              *)
LessUseful(c, d) ==
    \/ ~Visible(c) /\ Visible(d)
    \/ Visible(c) = Visible(d) /\ Distance(c) > Distance(d)

LeastUseful(cache) ==
    CHOOSE c \in {d \in ResidentMeshes(cache) : Bytes(cache[d].mesh) > 0} :
        \A d \in ResidentMeshes(cache) : Bytes(cache[d].mesh) > 0 => ~LessUseful(d, c)

(* Faulty variant: only what is farther away is pushed out.                   *)
MayReturnIfNearer(cache, c) ==
    \/ cache[c].lastBytes + ResidentBytes(cache) <= TerrainBudget
    \/ cache[c].lastBytes = 0
    \/ /\ Visible(c)
       /\ \/ \A d \in ResidentMeshes(cache) : Bytes(cache[d].mesh) = 0
          \/ Distance(c) < Distance(LeastUseful(cache))

MayReturn(cache, c) ==
    \/ cache[c].lastBytes + ResidentBytes(cache) <= TerrainBudget
    \/ cache[c].lastBytes = 0
    \/ /\ Visible(c)
       /\ \/ \A d \in ResidentMeshes(cache) : Bytes(cache[d].mesh) = 0
          \/ ~Visible(LeastUseful(cache))
          \/ Distance(c) < Distance(LeastUseful(cache))

HeldBack(cache, c) == cache[c].suppressed /\ ~MayReturn(cache, c)

IsCurrent(e, c) ==
    e.state = "resident" /\ e.mesh.revision = shownChunks[c].revision /\ e.mesh.table = table

(* One identity of reconcile_loaded_chunks().                                 *)
Reconcile(c) ==
    LET id       == Identity(c)
        old      == IF c \in DOMAIN entry /\ ~IsCached(id) THEN {<<c, entry[c].generation>>}
                                                            ELSE {}
        inserted == ~IsCached(id)
        cache    == IF inserted THEN Put(entry, c, NewEntry(id[2])) ELSE entry
        near     == NearCamera(c, MeshDistance)
        held     == HeldBack(cache, c)
        queued   == id \in DOMAIN uploads /\ uploads[id].revision = shownChunks[c].revision
                                          /\ uploads[id].table = table
        flying   == id \in DOMAIN jobs /\ jobs[id].mesh.revision = shownChunks[c].revision
        superseded == id \in DOMAIN jobs /\ ~flying
        needed   == /\ ~queued /\ ~flying
                    /\ ~IsCurrent(cache[c], c) \/ "mesh" \in shownChunks[c].dirty
    IN /\ At("reconcile")
       /\ c \in frame.todo
       /\ \A d \in frame.todo : c <= d
       /\ entry' = IF near /\ ~held THEN [cache EXCEPT ![c].suppressed = FALSE] ELSE cache
       /\ jobs' = CancelAll(jobs, old \cup (IF ~near \/ (~held /\ superseded) THEN {id} ELSE {}))
       /\ pending' = IF ~near THEN pending \ (old \cup {id})
                     ELSE (pending \ old) \cup (IF inserted \/ (~held /\ needed) THEN {id} ELSE {})
       /\ uploads' = Restrict(uploads, DOMAIN uploads \ (old \cup (IF near THEN {} ELSE {id})))
       /\ frame' = [frame EXCEPT !.todo = @ \ {c}]
       /\ UNCHANGED <<inputVars, mailbox>>

(* Its end: what is cached and no longer loaded is evicted.                   *)
ReconcileUnloaded ==
    /\ At("reconcile")
    /\ frame.todo = {}
    /\ Forget({id \in {<<c, entry[c].generation>> : c \in DOMAIN entry} : ~IsLoaded(id)})
    /\ GoTo("regions", {})
    /\ UNCHANGED <<inputVars, mailbox>>

ConsumeDirtyRegions ==
    /\ At("regions")
    /\ pending' = pending \cup
           {Identity(c) : c \in {d \in shownMeshRegions \cap Loaded :
                /\ NearCamera(d, MeshDistance)
                /\ IsCached(Identity(d)) => ~HeldBack(entry, d)}}
    /\ shownMeshRegions' = {}
    /\ GoTo("distance", {})
    /\ UNCHANGED <<shownChunks, shownEditLog, shownNextGeneration, camera, palette, table, disturbances,
                   entry, jobs, mailbox, uploads>>

(* release_mesh()                                                             *)
Released(e, suppressed) ==
    [e EXCEPT !.state = "missing", !.mesh = None, !.lastBytes = Bytes(e.mesh),
              !.suppressed = suppressed]

EnforceDistance ==
    /\ At("distance")
    /\ entry' = [c \in DOMAIN entry |->
                    IF entry[c].state = "resident" /\ ~NearCamera(c, RetainDistance)
                    THEN Released(entry[c], FALSE) ELSE entry[c]]
    /\ GoTo("drain", {})
    /\ UNCHANGED <<inputVars, pending, jobs, mailbox, uploads>>

(* drain_completed(): the active job of every drained result ends.            *)
DrainCompleted ==
    LET n == IF Len(mailbox) < DrainedPerFrame THEN Len(mailbox) ELSE DrainedPerFrame
        taken == SubSeq(mailbox, 1, n)
    IN /\ At("drain")
       /\ mailbox' = SubSeq(mailbox, n + 1, Len(mailbox))
       /\ frame' = [at |-> "results", todo |-> {}, scheduled |-> 0, copied |-> 0,
                    results |-> [i \in 1..n |->
                                    [id |-> taken[i].id, state |-> taken[i].state,
                                     mesh |-> jobs[taken[i].id].mesh]]]
       /\ jobs' = Restrict(jobs, DOMAIN jobs \ {taken[i].id : i \in 1..n})
       /\ UNCHANGED <<inputVars, entry, pending, uploads>>

(* pending_upload_is_current() and, with the mesh that is already resident,   *)
(* mesh_result_is_current().                                                  *)
MeshIsCurrent(id, mesh) ==
    /\ mesh.table = table
    /\ IsCached(id)
    /\ IsLoaded(id)
    /\ mesh.revision = shownChunks[id[1]].revision
    /\ DependenciesMatch(mesh.deps)

AlreadyResident(id, mesh) ==
    /\ IsCached(id)
    /\ entry[id[1]].state = "resident"
    /\ entry[id[1]].mesh.revision = mesh.revision
    /\ entry[id[1]].mesh.table = mesh.table
    /\ entry[id[1]].mesh.deps = mesh.deps

(* Faulty variant: a rejected mesh is requeued only if its chunk was reloaded.*)
LatestIfReloaded(c) ==
    {id \in {<<c, shownChunks[d].generation>> : d \in {c} \cap Loaded} :
        IsCached(id) /\ entry[c].generation # shownChunks[c].generation}

(* requeue_latest                                                             *)
Latest(c) ==
    {id \in {<<c, shownChunks[d].generation>> : d \in {c} \cap Loaded} :
        IsCached(id) /\ NearCamera(c, MeshDistance)}

Marked(id, state) ==
    [c \in DOMAIN entry |->
        IF IsCached(id) /\ c = id[1] /\ entry[c].state # "resident"
        THEN [entry[c] EXCEPT !.state = state] ELSE entry[c]]

(* One result of process_completed_meshes().                                  *)
ProcessResult ==
    LET r  == Head(frame.results)
        id == r.id
        stale == \/ IsCached(id) /\ HeldBack(entry, id[1])
                 \/ ~NearCamera(id[1], MeshDistance)
                 \/ ~MeshIsCurrent(id, r.mesh)
                 \/ AlreadyResident(id, r.mesh)
        duplicate == id \in DOMAIN uploads /\ uploads[id] = r.mesh
    IN /\ At("results")
       /\ frame.results # <<>>
       /\ frame' = [frame EXCEPT !.results = Tail(@)]
       /\ \/ /\ r.state = "cancelled" \/ (r.state = "succeeded" /\ stale)
             /\ pending' = pending \cup Latest(id[1])
             /\ UNCHANGED <<entry, uploads>>
          \/ /\ r.state = "failed"
             /\ entry' = Marked(id, "failed")
             /\ pending' = pending \cup Latest(id[1])
             /\ UNCHANGED uploads
          \/ /\ r.state = "succeeded" /\ ~stale /\ ~duplicate
             /\ uploads' = Put(uploads, id, r.mesh)
             /\ entry' = Marked(id, "upload_pending")
             /\ UNCHANGED pending
          \/ /\ r.state = "succeeded" /\ ~stale /\ duplicate
             /\ UNCHANGED <<entry, uploads, pending>>
       /\ UNCHANGED <<inputVars, jobs, mailbox>>

ResultsDone ==
    /\ At("results")
    /\ frame.results = <<>>
    /\ GoTo("upload", {})
    /\ UNCHANGED <<inputVars, meshVars>>

(* The order of both queues; ties, which the code breaks by age, are open.    *)
UploadBefore(i, j) ==
    \/ Visible(i[1]) /\ ~Visible(j[1])
    \/ Visible(i[1]) = Visible(j[1]) /\ Distance(i[1]) < Distance(j[1])

IsMissing(id) == ~IsCached(id) \/ entry[id[1]].state # "resident"

MeshBefore(i, j) ==
    \/ Visible(i[1]) /\ ~Visible(j[1])
    \/ /\ Visible(i[1]) = Visible(j[1])
       /\ \/ IsMissing(i) /\ ~IsMissing(j)
          \/ IsMissing(i) = IsMissing(j) /\ Distance(i[1]) < Distance(j[1])

(* The uploads one frame takes from its queue: those it drops on the way, and *)
(* those it selects, up to a number and to a byte budget that only the first  *)
(* of them may exceed.                                                        *)
Selectable(id) ==
    /\ MeshIsCurrent(id, uploads[id])
    /\ NearCamera(id[1], MeshDistance)
    /\ ~HeldBack(entry, id[1])

Weight(ids) == MapThenSumSet(LAMBDA id : Bytes(uploads[id]), ids)

RoomFor(id, selected) ==
    /\ Cardinality(selected) < UploadedPerFrame
    /\ selected = {} \/ Weight(selected) + Bytes(uploads[id]) <= BytesUploadedPerFrame

TakenUploads ==
    {S \in SUBSET DOMAIN uploads :
        LET selected == {id \in S : Selectable(id)}
            left     == DOMAIN uploads \ S
        IN /\ \A i \in S, j \in left : ~UploadBefore(j, i)
           /\ \A i \in S : RoomFor(i, {j \in selected : UploadBefore(j, i)})
           /\ \A i \in selected : RoomFor(i, selected \ {i})
           /\ \/ left = {}
              \/ \E i \in left : ~RoomFor(i, selected) /\ \A j \in left : ~UploadBefore(j, i)}

Outdated(S) ==
    {id \in {Identity(c) : c \in {i[1] : i \in {j \in S : ~MeshIsCurrent(j, uploads[j])}}
                                 \cap Loaded} : IsCached(id)}

ProcessUploads ==
    \E S \in TakenUploads :
        LET selected == {id \in S : Selectable(id)}
        IN /\ At("upload")
           /\ pending' = pending \cup Outdated(S)
           /\ uploads' = Restrict(uploads, DOMAIN uploads \ S)
           /\ entry' = [c \in DOMAIN entry |->
                           IF \E id \in selected : id[1] = c
                           THEN LET mesh == uploads[<<c, entry[c].generation>>]
                                IN [entry[c] EXCEPT !.state = "resident", !.mesh = mesh,
                                                    !.suppressed = FALSE,
                                                    !.lastBytes = Bytes(mesh)]
                           ELSE entry[c]]
           /\ shownChunks' = [c \in Loaded |->
                            IF \E id \in selected : id[1] = c
                            THEN [shownChunks[c] EXCEPT !.dirty = @ \ {"mesh"}] ELSE shownChunks[c]]
           /\ GoTo("budget", {})
           /\ UNCHANGED <<shownEditLog, shownMeshRegions, shownNextGeneration, camera, palette, table,
                          disturbances, jobs, mailbox>>

(* replace_meshes() fails for the whole batch: it waits for another frame.    *)
FailUploads ==
    \E S \in TakenUploads :
        LET selected == {id \in S : Selectable(id)}
        IN /\ At("upload")
           /\ selected # {}
           /\ Disturb
           /\ pending' = pending \cup Outdated(S)
           /\ uploads' = Restrict(uploads, (DOMAIN uploads \ S) \cup selected)
           /\ GoTo("budget", {})
           /\ UNCHANGED <<shownVars, camera, palette, table, entry, jobs, mailbox>>

OverBudget == ~(ResidentBytes(entry) <= TerrainBudget)

(* One turn of enforce_gpu_residency_budget().                                *)
EvictedBefore(c, d) ==
    \/ ~Visible(c) /\ Visible(d)
    \/ /\ Visible(c) = Visible(d)
       /\ \/ entry[c].seen < entry[d].seen
          \/ entry[c].seen = entry[d].seen /\ Distance(c) > Distance(d)
          \/ entry[c].seen = entry[d].seen /\ Distance(c) = Distance(d) /\ c < d

EnforceBudget(c) ==
    LET candidates == {d \in ResidentMeshes(entry) : Bytes(entry[d].mesh) > 0}
        id == <<c, entry[c].generation>>
    IN /\ At("budget")
       /\ OverBudget
       /\ c \in candidates
       /\ \A d \in candidates \ {c} : EvictedBefore(c, d)
       /\ entry' = [entry EXCEPT ![c] = Released(@, TRUE)]
       /\ jobs' = CancelAll(jobs, {id})
       /\ pending' = pending \ {id}
       /\ uploads' = Restrict(uploads, DOMAIN uploads \ {id})
       /\ UNCHANGED <<inputVars, mailbox, frame>>

(* Faulty variant: what is visible is never evicted.                          *)
BudgetMetOrVisible ==
    /\ At("budget")
    /\ OverBudget => \A c \in ResidentMeshes(entry) : Visible(c)
    /\ GoTo("schedule", pending)
    /\ UNCHANGED <<inputVars, meshVars>>

BudgetMet ==
    /\ At("budget")
    /\ ~OverBudget
    /\ GoTo("schedule", pending)
    /\ UNCHANGED <<inputVars, meshVars>>

HasCapacity == Cardinality(DOMAIN jobs) < MaxJobs

MayAttempt == frame.todo # {} /\ frame.scheduled < MeshedPerFrame /\ HasCapacity

Wanted(id) ==
    /\ IsLoaded(id)
    /\ IsCached(id)
    /\ ~entry[id[1]].suppressed
    /\ NearCamera(id[1], MeshDistance)

(* The front of the queue, as long as the loop goes on.                       *)
NextToMesh(id) ==
    /\ At("schedule")
    /\ MayAttempt
    /\ id \in frame.todo
    /\ \A other \in frame.todo : ~MeshBefore(other, id)

SnapshotCells(c) == EdgeLength + 2 * Halo(shownChunks[c].cells)

SnapshotFits(c) == frame.copied + SnapshotCells(c) <= SnapshotCellsPerFrame

(* One turn of schedule_mesh_jobs().                                          *)
Schedule(id) ==
    LET active == id \in DOMAIN jobs
    IN /\ NextToMesh(id)
       /\ \/ /\ ~Wanted(id)
             /\ pending' = pending \ {id}
             /\ frame' = [frame EXCEPT !.todo = @ \ {id}]
             /\ UNCHANGED jobs
          \/ /\ Wanted(id) /\ active
             /\ jobs' = IF jobs[id].mesh.revision = shownChunks[id[1]].revision
                        THEN jobs ELSE CancelAll(jobs, {id})
             /\ frame' = [frame EXCEPT !.todo = @ \ {id}]
             /\ UNCHANGED pending
          \/ /\ Wanted(id) /\ ~active /\ SnapshotFits(id[1])
             /\ jobs' = Put(jobs, id, [mesh |-> Snapshot(id[1]), cancelled |-> FALSE,
                                       stage |-> "queued"])
             /\ pending' = pending \ {id}
             /\ frame' = [frame EXCEPT !.todo = @ \ {id}, !.scheduled = @ + 1,
                                       !.copied = @ + SnapshotCells(id[1])]
       /\ UNCHANGED <<inputVars, entry, mailbox, uploads>>

(* A turn whose halo or snapshot cannot be had marks the chunk as failed; one *)
(* whose job is refused does not.  Either way the identity stays pending.     *)
FailSchedule(id) ==
    /\ Disturb
    /\ NextToMesh(id)
    /\ Wanted(id)
    /\ id \notin DOMAIN jobs
    /\ \/ /\ entry' = Marked(id, "failed")
          /\ frame' = [frame EXCEPT !.todo = @ \ {id}]
       \/ /\ SnapshotFits(id[1])
          /\ frame' = [frame EXCEPT !.todo = @ \ {id}, !.copied = @ + SnapshotCells(id[1])]
          /\ UNCHANGED entry
    /\ UNCHANGED <<shownVars, camera, palette, table, pending, jobs, mailbox, uploads>>

(* The loop ends at its limits, or at a snapshot that no longer fits.         *)
SnapshotsSpent ==
    \E id \in frame.todo :
        /\ NextToMesh(id) /\ Wanted(id) /\ id \notin DOMAIN jobs
        /\ ~SnapshotFits(id[1])

ScheduleDone ==
    /\ At("schedule")
    /\ ~MayAttempt \/ SnapshotsSpent
    /\ GoTo("draw", {})
    /\ UNCHANGED <<inputVars, meshVars>>

(* build_draw_list(): what is visible has been seen in this frame.  Only the  *)
(* order of the visibility epochs is ever read, so they are renumbered.       *)
Drawn == {c \in ResidentMeshes(entry) : Visible(c)}

Draw ==
    LET others == {entry[c].seen : c \in DOMAIN entry \ Drawn} \ {0}
        Rank(n) == Cardinality({m \in others : m <= n})
    IN /\ At("draw")
       /\ entry' = [c \in DOMAIN entry |->
                       [entry[c] EXCEPT !.seen = IF c \in Drawn THEN Cardinality(others) + 1
                                                 ELSE Rank(@)]]
       /\ GoTo("idle", {})
       /\ UNCHANGED <<inputVars, pending, jobs, mailbox, uploads>>

Owner ==
    \/ RefreshRenderTable
    \/ \E c \in Coords : Reconcile(c)
    \/ ReconcileUnloaded
    \/ ConsumeDirtyRegions
    \/ EnforceDistance
    \/ DrainCompleted
    \/ ProcessResult
    \/ ResultsDone
    \/ ProcessUploads
    \/ FailUploads
    \/ \E c \in Coords : EnforceBudget(c)
    \/ BudgetMet
    \/ \E id \in pending : Schedule(id) \/ FailSchedule(id)
    \/ ScheduleDone
    \/ Draw

Worker(id) ==
    \/ StartJob(id)
    \/ FinishJob(id)
    \/ FailJob(id)

WorldStep ==
    \/ \E c \in Coords, v \in Voxels, cell \in Cells : Edit(c, v, cell)
    \/ \E c \in Coords, reported \in BOOLEAN : Load(c, reported) \/ Unload(c, reported)
    \/ \E p \in Cameras : MoveCamera(p)
    \/ ChangePalette

RenderingNext ==
    \/ WorldStep
    \/ Owner
    \/ \E id \in DOMAIN jobs : Worker(id)

RenderingSpec == RenderingInit /\ [][RenderingNext]_renderVars
-----------------------------------------------------------------------------
Identities == Coords \X Nat

Entries ==
    [generation : Nat, state : {"missing", "upload_pending", "resident", "failed"},
     mesh : Meshes \cup {None}, suppressed : BOOLEAN, lastBytes : Nat, seen : Nat]

Jobs == [mesh : Meshes, cancelled : BOOLEAN, stage : {"queued", "meshing", "done"}]

ResultStates == {"cancelled", "succeeded", "failed"}

FramePhases ==
    {"idle", "reconcile", "regions", "distance", "drain", "results", "upload", "budget",
     "schedule", "draw"}

RenderingTypeOK ==
    /\ World!ChunksTypeOK
    /\ camera \in Cameras
    /\ palette \in Nat
    /\ table \in Nat
    /\ DOMAIN entry \subseteq Coords
    /\ entry \in [DOMAIN entry -> Entries]
    /\ \A c \in DOMAIN entry : entry[c].state = "resident" <=> entry[c].mesh # None
    /\ pending \subseteq Identities
    /\ DOMAIN jobs \subseteq Identities
    /\ jobs \in [DOMAIN jobs -> Jobs]
    /\ Cardinality(DOMAIN jobs) <= MaxJobs
    /\ mailbox \in Seq([id : DOMAIN jobs, state : ResultStates])
    /\ DOMAIN uploads \subseteq Identities
    /\ uploads \in [DOMAIN uploads -> Meshes]
    /\ frame \in [at : FramePhases, todo : {frame.todo}, scheduled : Nat, copied : Nat,
                  results : Seq([id : Identities, state : ResultStates, mesh : Meshes])]
    /\ frame.todo \subseteq IF At("schedule") THEN Identities ELSE Coords
    /\ disturbances \in 0..MaxDisturbances

(* No rebuild is forgotten: when a frame is drawn, every loaded chunk near    *)
(* the camera is resident as it is, with what its neighbours leave open of    *)
(* it, or held back by the budget, or its next mesh waits for a snapshot, a   *)
(* worker or an upload.  Neighbour changes mark flags and regions, and a      *)
(* frame consumes both while meshes it must reject are in flight.             *)
NoStaleMeshIsForgotten ==
    At("draw") =>
        \A c \in NearChunks :
            /\ IsCached(Identity(c))
            /\ \/ /\ entry[c].state = "resident"
                  /\ entry[c].mesh.shown = Shown(c)
                  /\ entry[c].mesh.table = palette
               \/ entry[c].suppressed
               \/ Identity(c) \in pending \cup DOMAIN jobs \cup DOMAIN uploads

(* When a frame is drawn the resident meshes fit the terrain budget, and none *)
(* is of a chunk beyond the retention distance or no longer loaded.           *)
ResidencyIsBounded ==
    At("draw") =>
        /\ ResidentBytes(entry) <= TerrainBudget
        /\ \A c \in ResidentMeshes(entry) :
               NearCamera(c, RetainDistance) /\ IsLoaded(<<c, entry[c].generation>>)

(* What a chunk needs of the byte budget: as much as it needs now, and as it  *)
(* needed when it was last uploaded, which is all the renderer knows of a     *)
(* chunk it has suppressed.                                                   *)
Need(c) ==
    World!Larger(Cardinality({v \in Voxels : shownChunks[c].cells[v] # Air}), entry[c].lastBytes)

FitTogether(S) == S \subseteq DOMAIN entry /\ MapThenSumSet(Need, S) <= TerrainBudget

(* One frame may take a snapshot of each of some chunks.                      *)
MeshedInOneFrame(S) ==
    /\ Cardinality(S) <= MaxJobs
    /\ Cardinality(S) <= MeshedPerFrame
    /\ MapThenSumSet(SnapshotCells, S) <= SnapshotCellsPerFrame

UpToDate(c) ==
    /\ entry[c].state = "resident"
    /\ entry[c].mesh.shown = Shown(c)
    /\ entry[c].mesh.table = palette

VisibleChunks == {c \in Loaded : Visible(c)}

(* The chunks near the camera, and those it has left behind whose meshes keep *)
(* their part of the budget up to the retention distance.                     *)
KeptChunks == NearChunks \cup (ResidentMeshes(entry) \cap Loaded)

(* Once the world stands still, the visible chunks are drawn as they are if   *)
(* they fit the byte budget, whatever else is kept; the other chunks near the *)
(* camera are resident as they are if they fit it together with all that is   *)
(* kept.  This holds through cancelled, failed and superseded meshes, after   *)
(* the camera has moved or turned, and after a time of too little room.  What *)
(* is near and not visible pushes nothing out (should_restore_suppressed_     *)
(* residency), and since chunks may be meshed without end (RendererSettles)   *)
(* those that are to come must find room in the limits of one frame.          *)
MeshesConverge ==
    <>[](/\ NearChunks \subseteq DOMAIN entry
         /\ FitTogether(VisibleChunks) /\ MeshedInOneFrame(VisibleChunks) =>
                \A c \in VisibleChunks : UpToDate(c)
         /\ FitTogether(KeptChunks) /\ MeshedInOneFrame(NearChunks) =>
                \A c \in NearChunks : UpToDate(c))

(* tests/renderer_frontend_tests.cpp:371: once the world stands still, frames *)
(* without pending work follow ("did not settle" otherwise).                  *)
RendererSettles == <>[](pending = {} /\ DOMAIN jobs = {})
=============================================================================
