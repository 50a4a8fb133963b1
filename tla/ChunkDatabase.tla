---------------------------- MODULE ChunkDatabase ----------------------------
(* The resident chunks of a world, the log of what differs from the generated *)
(* terrain, and the dirty regions (src/engine/world/chunks/chunk_database.cpp,*)
(* src/engine/world/voxels/voxel_chunk.cpp, src/engine/dirty/dirty_region.cpp)*)
(* Chunks lie on a line and voxels along it, so a chunk has two neighbours;   *)
(* the other two axes add a second and a third pair of neighbours.  On a line *)
(* the merged regions of a tracker cover exactly the marked coordinates, so   *)
(* the tracker is the set of these; the log is searched by address and never  *)
(* by position, so it is the delta of every coordinate.  The module has no    *)
(* behaviour of its own: ChunkStreaming and ChunkRendering compose its        *)
(* operations.                                                                *)
EXTENDS ChunkGeometry, Functions

VARIABLES chunks,          \* the resident chunks, by coordinate
          editLog,         \* the retained edit records of every coordinate
          meshRegions,     \* the coordinates the chunk_mesh dirty regions cover
          nextGeneration   \* the process-wide load generation counter

chunkVars == <<chunks, editLog, meshRegions, nextGeneration>>

Resident == DOMAIN chunks

(* A delta: for each voxel it names, the baseline and the present cell.       *)
Deltas == UNION {[S -> [previous : Cells, next : Cells]] : S \in SUBSET Voxels}

NoDelta == [v \in {} |-> v]

DirtyFlags == {"mesh", "save", "replication"}

ChunkRecords == [generation : Nat, revision : Nat, cells : [Voxels -> Cells],
                 dirty : SUBSET DirtyFlags]

ChunksTypeOK ==
    /\ Resident \subseteq Coords
    /\ chunks \in [Resident -> ChunkRecords]
    /\ editLog \in [Coords -> Deltas]
    /\ meshRegions \subseteq Coords
    /\ nextGeneration \in Nat

ChunksInit ==
    /\ chunks = [c \in {} |-> c]
    /\ editLog = [c \in Coords |-> NoDelta]
    /\ meshRegions = {}
    /\ nextGeneration = 1

FaceNeighbors(c) == {c - 1, c + 1} \cap Resident

BoundaryNeighbors(c, v) ==
    {n \in FaceNeighbors(c) : \/ n = c - 1 /\ v = 0
                              \/ n = c + 1 /\ v = EdgeLength - 1}

RichNeighbors(c, v, radius) ==
    {n \in Resident \ {c} : /\ radius > 0
                            /\ n - c >= (v - radius) \div EdgeLength
                            /\ n - c <= (v + radius) \div EdgeLength}

MarkMesh(resident, coords) ==
    [c \in DOMAIN resident |->
        IF c \in coords THEN [resident[c] EXCEPT !.dirty = @ \cup {"mesh"}]
                        ELSE resident[c]]

Larger(a, b) == IF a > b THEN a ELSE b

(* Faulty variant: a record stays when its voxel is back to what it was.      *)
RecordedForGood(delta, v, previous, cell) ==
    IF v \notin DOMAIN delta
    THEN [w \in DOMAIN delta \cup {v} |->
             IF w = v THEN [previous |-> previous, next |-> cell] ELSE delta[w]]
    ELSE [delta EXCEPT ![v].next = cell]

(* The delta of a chunk after one more edit: an edit of a voxel that has a    *)
(* record extends that record, and removes it when the voxel is back to what  *)
(* the record says it was at first.                                           *)
Recorded(delta, v, previous, cell) ==
    IF v \notin DOMAIN delta
    THEN [w \in DOMAIN delta \cup {v} |->
             IF w = v THEN [previous |-> previous, next |-> cell] ELSE delta[w]]
    ELSE IF delta[v].previous = cell
    THEN Restrict(delta, DOMAIN delta \ {v})
    ELSE [delta EXCEPT ![v].next = cell]

(* set() with a dirty region tracker and a palette, as the voxel commands     *)
(* call it: for a resident chunk.  An unchanged cell is no edit, and a record *)
(* that does not end in the resident cell refuses one.                        *)
SetVoxel(c, v, cell) ==
    LET previous == chunks[c].cells[v]
        radius   == Larger(InvalidationRadius[previous], InvalidationRadius[cell])
        rich     == RichNeighbors(c, v, radius)
        touched  == {c} \cup rich \cup BoundaryNeighbors(c, v)
    IN /\ c \in Resident
       /\ cell # previous
       /\ v \in DOMAIN editLog[c] => editLog[c][v].next = previous
       /\ chunks' = MarkMesh([chunks EXCEPT ![c].cells[v] = cell,
                                            ![c].revision = @ + 1,
                                            ![c].dirty = DirtyFlags], touched)
       /\ editLog' = [editLog EXCEPT ![c] = Recorded(@, v, previous, cell)]
       /\ meshRegions' = meshRegions \cup touched
       /\ UNCHANGED nextGeneration

(* A chunk with the given cells becomes resident: the generator loaded its    *)
(* cells once (revision 2), each restored cell is one revision more, and it   *)
(* is dirty for rebuilding only.                                              *)
Insert(c, cells, restored) ==
    /\ c \notin Resident
    /\ chunks' = MarkMesh([d \in Resident \cup {c} |->
                              IF d = c THEN [generation |-> nextGeneration,
                                             revision |-> 2 + restored,
                                             cells |-> cells,
                                             dirty |-> {"mesh"}]
                                       ELSE chunks[d]], FaceNeighbors(c))
    /\ meshRegions' = meshRegions \cup {c} \cup FaceNeighbors(c)
    /\ nextGeneration' = nextGeneration + 1

InsertGenerated(c) ==
    /\ Insert(c, Baseline[c], 0)
    /\ UNCHANGED editLog

(* What a delta makes of the cells it is applied to.                          *)
Overlaid(cells, delta) ==
    [v \in Voxels |-> IF v \in DOMAIN delta THEN delta[v].next ELSE cells[v]]

(* Every record of a saved delta starts from the generated cell.              *)
MatchesBaseline(c, delta) ==
    \A v \in DOMAIN delta : delta[v].previous = Baseline[c][v]

(* The records of a delta that change their cell: canonical history keeps     *)
(* no others.                                                                 *)
Effective(delta) ==
    Restrict(delta, {v \in DOMAIN delta : delta[v].previous # delta[v].next})

InsertGeneratedWithSavedEdits(c, delta, restored) ==
    /\ delta # NoDelta
    /\ MatchesBaseline(c, delta)
    /\ Insert(c, Overlaid(Baseline[c], delta), restored)
    /\ editLog' = [editLog EXCEPT ![c] = Effective(delta)]

(* erase(): the log keeps the records of the erased chunk.                    *)
Without(c) ==
    MarkMesh(Restrict(chunks, Resident \ {c}), FaceNeighbors(c) \ {c})

Erase(c) ==
    /\ c \in Resident
    /\ chunks' = Without(c)
    /\ UNCHANGED <<editLog, meshRegions, nextGeneration>>

(* The history of a resident chunk is what distinguishes it from the          *)
(* generated terrain: one record for each voxel that differs, from the        *)
(* generated cell to the present one.  Edits, reverts, evictions and reloads  *)
(* maintain it together; an edit of a chunk for which it fails is refused.    *)
HistoryExplainsChunks ==
    \A c \in Resident :
        /\ DOMAIN editLog[c] = {v \in Voxels : chunks[c].cells[v] # Baseline[c][v]}
        /\ \A v \in DOMAIN editLog[c] :
               editLog[c][v] = [previous |-> Baseline[c][v], next |-> chunks[c].cells[v]]
=============================================================================
