--------------------------- MODULE ChunkStreaming ---------------------------
(* Chunk streaming (src/engine/world/streaming/chunk_streamer.cpp): a pass    *)
(* loads the chunks near the viewer from generated terrain and saved deltas,  *)
(* hands the deltas of dirty chunks out of its range to persistence and to    *)
(* replication, and evicts what is clean.  A pass runs on the thread that     *)
(* also edits the world, one chunk at a time; a read, a write or a handoff    *)
(* that fails ends it where it is, and the process may die between any two    *)
(* of its steps.                                                              *)
EXTENDS ChunkDatabase, FiniteSets

CONSTANTS ViewerCoords,   \* where the viewer can be, in chunks
          LoadRadius,
          RetainRadius

ASSUME StreamingAssumption ==
    /\ ViewerCoords \subseteq Int
    /\ LoadRadius \in Nat
    /\ RetainRadius \in Nat
    /\ LoadRadius <= RetainRadius   \* ChunkStreamInterestPolicy::validate

VARIABLES viewer,
          pass,         \* the maintenance pass under way
          disk,         \* the delta file of every coordinate
          replicated,   \* the cells the replication side has of every coordinate
          edited        \* history: the cells every coordinate should have

streamVars == <<chunkVars, viewer, pass, disk, replicated, edited>>

Phases == {"idle", "load", "save", "replicate", "evict"}

Sinks == {"save", "replication"}

NoPass == [at |-> "idle", todo |-> {}, pinned |-> {}, evictable |-> {}, sinks |-> {}]

StreamingTypeOK ==
    /\ ChunksTypeOK
    /\ viewer \in ViewerCoords
    /\ pass \in [at : Phases, todo : SUBSET Coords, pinned : SUBSET Coords,
                 evictable : SUBSET Coords, sinks : SUBSET Sinks]
    /\ disk \in [Coords -> Deltas]
    /\ replicated \in [Coords -> [Voxels -> Cells]]
    /\ edited \in [Coords -> [Voxels -> Cells]]

(* What a process that starts now finds at a coordinate.                      *)
Durable(c) == Overlaid(Baseline[c], disk[c])

StreamingInit ==
    /\ ChunksInit
    /\ viewer \in ViewerCoords
    /\ pass = NoPass
    /\ disk = [c \in Coords |-> NoDelta]
    /\ replicated = Baseline
    /\ edited = Baseline

(* Faulty variant: the radius reaches past the edge of the world.             *)
WithinUnclipped(radius) == (viewer - radius)..(viewer + radius)

Within(radius) == {c \in Coords : c - viewer \in -radius..radius}

(* is_dirty_for_persistence_or_replication                                    *)
Unsaved(c) == chunks[c].dirty \cap {"save", "replication"} # {}

EditVoxel(c, v, cell) ==
    /\ pass = NoPass
    /\ SetVoxel(c, v, cell)
    /\ edited' = [edited EXCEPT ![c][v] = cell]
    /\ UNCHANGED <<viewer, pass, disk, replicated>>

MoveViewer(p) ==
    /\ pass = NoPass
    /\ p # viewer
    /\ viewer' = p
    /\ UNCHANGED <<chunkVars, pass, disk, replicated, edited>>

(* plan_interest(), before anything is loaded: maintain_interest() loads      *)
(* nothing, maintain_loaded_interest() what is in range and missing.  Each    *)
(* sink is given or not.                                                      *)
BeginPass(loading, sinks) ==
    LET beyond == Resident \ Within(RetainRadius)
    IN /\ pass = NoPass
       /\ pass' = [at |-> "load",
                   todo |-> IF loading THEN Within(LoadRadius) \ Resident ELSE {},
                   pinned |-> {c \in beyond : Unsaved(c)},
                   evictable |-> {c \in beyond : ~Unsaved(c)},
                   sinks |-> sinks]
       /\ UNCHANGED <<chunkVars, viewer, disk, replicated, edited>>

Lowest(c, S) == c \in S /\ \A d \in S : c <= d

(* load_chunk(): the delta is read before the generated chunk is published.   *)
LoadChunk(c) ==
    /\ pass.at = "load"
    /\ Lowest(c, pass.todo)
    /\ \/ disk[c] = NoDelta /\ InsertGenerated(c)
       \/ InsertGeneratedWithSavedEdits(c, disk[c], Cardinality(DOMAIN disk[c]))
    /\ pass' = [pass EXCEPT !.todo = @ \ {c}]
    /\ UNCHANGED <<viewer, disk, replicated, edited>>

LoadsDone ==
    /\ pass.at = "load"
    /\ pass.todo = {}
    /\ pass' = [pass EXCEPT !.at = "save",
                            !.todo = IF "save" \in pass.sinks THEN pass.pinned ELSE {}]
    /\ UNCHANGED <<chunkVars, viewer, disk, replicated, edited>>

(* A flush of one chunk needs the flag and a delta; a dirty chunk without one *)
(* is reported and left as it is.                                             *)
Flushes(c, flag) == flag \in chunks[c].dirty /\ editLog[c] # NoDelta

ClearFlag(c, flag) ==
    /\ chunks' = [chunks EXCEPT ![c].dirty = @ \ {flag}]
    /\ UNCHANGED <<editLog, meshRegions, nextGeneration>>

(* Faulty variant: a dirty chunk without a delta is taken for saved.          *)
FlushSaveClearing(c) ==
    /\ pass.at = "save"
    /\ Lowest(c, pass.todo)
    /\ IF Flushes(c, "save")
       THEN disk' = [disk EXCEPT ![c] = editLog[c]]
       ELSE UNCHANGED disk
    /\ ClearFlag(c, "save")
    /\ pass' = [pass EXCEPT !.todo = @ \ {c}]
    /\ UNCHANGED <<viewer, replicated, edited>>

FlushSave(c) ==
    /\ pass.at = "save"
    /\ Lowest(c, pass.todo)
    /\ IF Flushes(c, "save")
       THEN disk' = [disk EXCEPT ![c] = editLog[c]] /\ ClearFlag(c, "save")
       ELSE UNCHANGED <<chunkVars, disk>>
    /\ pass' = [pass EXCEPT !.todo = @ \ {c}]
    /\ UNCHANGED <<viewer, replicated, edited>>

SavesDone ==
    /\ pass.at = "save"
    /\ pass.todo = {}
    /\ pass' = [pass EXCEPT !.at = "replicate",
                            !.todo = IF "replication" \in pass.sinks THEN pass.pinned ELSE {}]
    /\ UNCHANGED <<chunkVars, viewer, disk, replicated, edited>>

FlushReplication(c) ==
    /\ pass.at = "replicate"
    /\ Lowest(c, pass.todo)
    /\ IF Flushes(c, "replication")
       THEN /\ replicated' = [replicated EXCEPT ![c] = Overlaid(Baseline[c], editLog[c])]
            /\ ClearFlag(c, "replication")
       ELSE UNCHANGED <<chunkVars, replicated>>
    /\ pass' = [pass EXCEPT !.todo = @ \ {c}]
    /\ UNCHANGED <<viewer, disk, edited>>

ReplicationDone ==
    /\ pass.at = "replicate"
    /\ pass.todo = {}
    /\ pass' = [pass EXCEPT !.at = "evict", !.todo = pass.evictable \cup pass.pinned]
    /\ UNCHANGED <<chunkVars, viewer, disk, replicated, edited>>

(* Faulty variant: what could not be flushed is evicted all the same.         *)
EvictChunkUnchecked(c) ==
    /\ pass.at = "evict"
    /\ Lowest(c, pass.todo)
    /\ Erase(c)
    /\ pass' = [pass EXCEPT !.todo = @ \ {c}]
    /\ UNCHANGED <<viewer, disk, replicated, edited>>

EvictChunk(c) ==
    /\ pass.at = "evict"
    /\ Lowest(c, pass.todo)
    /\ IF Unsaved(c) THEN UNCHANGED chunkVars ELSE Erase(c)
    /\ pass' = [pass EXCEPT !.todo = @ \ {c}]
    /\ UNCHANGED <<viewer, disk, replicated, edited>>

EndPass ==
    /\ pass.at = "evict"
    /\ pass.todo = {}
    /\ pass' = NoPass
    /\ UNCHANGED <<chunkVars, viewer, disk, replicated, edited>>

(* A read, a write or a handoff fails: the pass returns its error.            *)
FailPass ==
    /\ \/ pass.at = "load" /\ pass.todo # {}
       \/ /\ pass.at \in {"save", "replicate"}
          /\ \E c \in pass.todo :
                 /\ Lowest(c, pass.todo)
                 /\ Flushes(c, IF pass.at = "save" THEN "save" ELSE "replication")
    /\ pass' = NoPass
    /\ UNCHANGED <<chunkVars, viewer, disk, replicated, edited>>

(* The process dies and another one starts on the same save: edits that never *)
(* reached the disk are gone, and clients start over.                         *)
Restart ==
    /\ chunks' = [c \in {} |-> c]
    /\ editLog' = [c \in Coords |-> NoDelta]
    /\ meshRegions' = {}
    /\ nextGeneration' = 1
    /\ pass' = NoPass
    /\ replicated' = [c \in Coords |-> Durable(c)]
    /\ edited' = [c \in Coords |-> Durable(c)]
    /\ UNCHANGED <<viewer, disk>>

StreamingNext ==
    \/ \E c \in Coords, v \in Voxels, cell \in Cells : EditVoxel(c, v, cell)
    \/ \E p \in ViewerCoords : MoveViewer(p)
    \/ \E loading \in BOOLEAN, sinks \in SUBSET Sinks : BeginPass(loading, sinks)
    \/ \E c \in Coords : LoadChunk(c)
    \/ LoadsDone
    \/ \E c \in Coords : FlushSave(c)
    \/ SavesDone
    \/ \E c \in Coords : FlushReplication(c)
    \/ ReplicationDone
    \/ \E c \in Coords : EvictChunk(c)
    \/ EndPass
    \/ FailPass
    \/ Restart

StreamingSpec == StreamingInit /\ [][StreamingNext]_streamVars
-----------------------------------------------------------------------------
(* An edit survives eviction and reloading: a resident chunk has the cells    *)
(* that the edits of this process and the disk it started from give it, and   *)
(* a chunk that is not resident can be rebuilt with them (chunks.md:78).      *)
NoEditIsLost ==
    \A c \in Coords :
        edited[c] = IF c \in Resident THEN chunks[c].cells ELSE Durable(c)

(* A chunk without the save flag is on disk as it is, and one without the     *)
(* replication flag is what the replication side has, through reverted edits, *)
(* failed writes and passes with one sink only.                               *)
CleanMeansHandedOff ==
    \A c \in Resident :
        /\ "save" \notin chunks[c].dirty => Durable(c) = chunks[c].cells
        /\ "replication" \notin chunks[c].dirty => replicated[c] = chunks[c].cells
=============================================================================
