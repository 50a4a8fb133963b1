----------------------------- MODULE ChunkProofs -----------------------------
(* Proofs about chunks.  Streaming: for every world, viewer and radius,       *)
(* whatever passes run, fail or are cut short by a crash, the history of a    *)
(* resident chunk explains it, no edit is lost, and a chunk that is clean has *)
(* been handed off.  Rendering: however the workers, the world and the frames *)
(* interleave, no stale mesh is forgotten and what is resident is bounded.    *)
EXTENDS MCChunks, FiniteSetTheorems, SequenceTheorems, WellFoundedInduction, TLAPS

-----------------------------------------------------------------------------
(* The inductive invariant.                                                   *)

\* A delta names exactly the voxels in which the cells differ from the
\* generated ones, and says how.
Explains(c, delta, cells) ==
    /\ DOMAIN delta = {v \in Voxels : cells[v] # Baseline[c][v]}
    /\ \A v \in DOMAIN delta :
           delta[v] = [previous |-> Baseline[c][v], next |-> cells[v]]

\* Every delta on disk can be applied to the generated chunk and has no
\* record that changes nothing.
DiskIsCanonical == \A c \in Coords : Explains(c, disk[c], Durable(c))

\* An absent chunk was handed off before it left, so that loading it again
\* brings back its history and what the replication side has.
AbsentCanReturn ==
    \A c \in Coords \ Resident :
        /\ editLog[c] = NoDelta \/ editLog[c] = disk[c]
        /\ replicated[c] = Durable(c)

\* After its loads a pass is about resident chunks only.
PassIsAboutResidents ==
    /\ pass.at \in {"load", "save", "replicate"} =>
           pass.pinned \cup pass.evictable \subseteq Resident
    /\ pass.at \in {"save", "replicate", "evict"} => pass.todo \subseteq Resident

StreamingInv ==
    /\ StreamingTypeOK
    /\ HistoryExplainsChunks
    /\ NoEditIsLost
    /\ CleanMeansHandedOff
    /\ DiskIsCanonical
    /\ AbsentCanReturn
    /\ PassIsAboutResidents

-----------------------------------------------------------------------------
(* Deltas.                                                                    *)

EditRecord == [previous : Cells, next : Cells]

\* A delta is a function from some of the voxels.
LEMMA DeltaIsFunction ==
  ASSUME NEW delta
  PROVE  delta \in Deltas <=> /\ DOMAIN delta \subseteq Voxels
                              /\ delta \in [DOMAIN delta -> EditRecord]
<1>1. ASSUME delta \in Deltas
      PROVE  DOMAIN delta \subseteq Voxels /\ delta \in [DOMAIN delta -> EditRecord]
  <2>1. PICK S \in SUBSET Voxels : delta \in [S -> EditRecord]
    BY <1>1 DEF Deltas, EditRecord
  <2> QED
    BY <2>1
<1>2. ASSUME DOMAIN delta \subseteq Voxels, delta \in [DOMAIN delta -> EditRecord]
      PROVE  delta \in Deltas
  <2>1. DOMAIN delta \in SUBSET Voxels
    BY <1>2
  <2> QED
    BY <1>2, <2>1 DEF Deltas, EditRecord
<1> QED
  BY <1>1, <1>2

\* The empty delta is the only one without a record.
LEMMA EmptyDelta ==
  /\ NoDelta \in Deltas /\ DOMAIN NoDelta = {}
  /\ \A delta \in Deltas : DOMAIN delta = {} => delta = NoDelta
<1>1. DOMAIN NoDelta = {} /\ NoDelta \in [{} -> EditRecord]
  BY DEF NoDelta
<1>2. NoDelta \in Deltas
  BY <1>1, DeltaIsFunction
<1>3. ASSUME NEW delta \in Deltas, DOMAIN delta = {}
      PROVE  delta = NoDelta
  <2>1. delta = [v \in DOMAIN delta |-> delta[v]]
    BY DeltaIsFunction
  <2>2. delta = [v \in {} |-> v]
    BY <1>3, <2>1
  <2> QED
    BY <2>2 DEF NoDelta
<1> QED
  BY <1>1, <1>2, <1>3

\* Applying a delta to a generated chunk gives a chunk's cells.
LEMMA OverlaidType ==
  ASSUME NEW c \in Coords, NEW delta \in Deltas
  PROVE  Overlaid(Baseline[c], delta) \in [Voxels -> Cells]
<1>1. \A v \in DOMAIN delta : delta[v].next \in Cells
  BY DeltaIsFunction DEF EditRecord
<1>2. Baseline[c] \in [Voxels -> Cells]
  BY ChunkAssumption
<1> QED
  BY <1>1, <1>2 DEF Overlaid

\* What each record of an explanation says.
LEMMA ExplainedRecords ==
  ASSUME NEW c, NEW delta, NEW cells, Explains(c, delta, cells)
  PROVE  /\ \A v \in DOMAIN delta : /\ v \in Voxels
                                    /\ delta[v].previous = Baseline[c][v]
                                    /\ delta[v].next = cells[v]
                                    /\ cells[v] # Baseline[c][v]
         /\ \A v \in Voxels \ DOMAIN delta : cells[v] = Baseline[c][v]
<1>1. ASSUME NEW v \in DOMAIN delta
      PROVE  delta[v].previous = Baseline[c][v] /\ delta[v].next = cells[v]
  <2>1. delta[v] = [previous |-> Baseline[c][v], next |-> cells[v]]
    BY DEF Explains
  <2> QED
    BY <2>1
<1> QED
  BY <1>1 DEF Explains

\* Applied to the generated chunk, a delta that explains some cells gives them.
LEMMA ExplainedIsRebuilt ==
  ASSUME NEW c \in Coords, NEW delta, NEW cells \in [Voxels -> Cells],
         Explains(c, delta, cells)
  PROVE  Overlaid(Baseline[c], delta) = cells
<1>1. \A v \in Voxels : Overlaid(Baseline[c], delta)[v] = cells[v]
  BY ExplainedRecords DEF Overlaid
<1> QED
  BY <1>1 DEF Overlaid

\* There is only one delta that explains given cells.
LEMMA ExplanationIsUnique ==
  ASSUME NEW c \in Coords, NEW delta \in Deltas, NEW other \in Deltas, NEW cells,
         Explains(c, delta, cells), Explains(c, other, cells)
  PROVE  delta = other
<1>1. DOMAIN delta = DOMAIN other /\ \A v \in DOMAIN delta : delta[v] = other[v]
  BY DEF Explains
<1>2. delta = [v \in DOMAIN delta |-> delta[v]] /\ other = [v \in DOMAIN other |-> other[v]]
  BY DeltaIsFunction
<1> QED
  BY <1>1, <1>2

\* The generated chunk needs no explanation, and nothing else does without one.
LEMMA GeneratedIsUnexplained ==
  ASSUME NEW c \in Coords
  PROVE  /\ Explains(c, NoDelta, Baseline[c])
         /\ Overlaid(Baseline[c], NoDelta) = Baseline[c]
<1>1. Baseline[c] \in [Voxels -> Cells]
  BY ChunkAssumption
<1>2. Explains(c, NoDelta, Baseline[c])
  BY EmptyDelta DEF Explains
<1> QED
  BY <1>1, <1>2, ExplainedIsRebuilt

\* Recording an edit turns the explanation of the cells before it into the
\* explanation of the cells after it: the heart of edit history.
LEMMA RecordedExplains ==
  ASSUME NEW c \in Coords, NEW delta \in Deltas, NEW cells \in [Voxels -> Cells],
         NEW v \in Voxels, NEW cell \in Cells,
         Explains(c, delta, cells), cell # cells[v]
  PROVE  /\ Recorded(delta, v, cells[v], cell) \in Deltas
         /\ Explains(c, Recorded(delta, v, cells[v], cell), [cells EXCEPT ![v] = cell])
<1> DEFINE new == Recorded(delta, v, cells[v], cell)
           after == [cells EXCEPT ![v] = cell]
<1>1. Baseline[c] \in [Voxels -> Cells]
  BY ChunkAssumption
<1>2. /\ DOMAIN delta \subseteq Voxels /\ delta \in [DOMAIN delta -> EditRecord]
      /\ after \in [Voxels -> Cells] /\ after[v] = cell
      /\ \A w \in Voxels \ {v} : after[w] = cells[w]
  BY DeltaIsFunction
<1>3. CASE v \notin DOMAIN delta
  <2>1. new = [w \in DOMAIN delta \cup {v} |->
                 IF w = v THEN [previous |-> cells[v], next |-> cell] ELSE delta[w]]
    BY <1>3 DEF Recorded
  <2>2. cells[v] = Baseline[c][v]
    BY <1>3 DEF Explains
  <2> HIDE DEF new, after
  <2>3. DOMAIN new \subseteq Voxels /\ new \in [DOMAIN new -> EditRecord]
    BY <1>2, <2>1 DEF EditRecord
  <2>4. DOMAIN new = {w \in Voxels : after[w] # Baseline[c][w]}
    BY <1>2, <2>1, <2>2 DEF Explains
  <2>5. \A w \in DOMAIN new : new[w] = [previous |-> Baseline[c][w], next |-> after[w]]
    BY <1>2, <2>1, <2>2 DEF Explains
  <2> QED
    BY <2>3, <2>4, <2>5, DeltaIsFunction DEF Explains, new, after
<1>4. CASE v \in DOMAIN delta /\ delta[v].previous = cell
  <2>1. new = [w \in DOMAIN delta \ {v} |-> delta[w]]
    BY <1>4 DEF Recorded, Restrict
  <2>2. cell = Baseline[c][v]
    BY <1>4, ExplainedRecords
  <2> HIDE DEF new, after
  <2>3. DOMAIN new \subseteq Voxels /\ new \in [DOMAIN new -> EditRecord]
    BY <1>2, <2>1
  <2>4. DOMAIN new = {w \in Voxels : after[w] # Baseline[c][w]}
    BY <1>2, <2>1, <2>2 DEF Explains
  <2>5. \A w \in DOMAIN new : new[w] = [previous |-> Baseline[c][w], next |-> after[w]]
    BY <1>2, <2>1, <2>2 DEF Explains
  <2> QED
    BY <2>3, <2>4, <2>5, DeltaIsFunction DEF Explains, new, after
<1>5. CASE v \in DOMAIN delta /\ delta[v].previous # cell
  <2>1. new = [delta EXCEPT ![v].next = cell]
    BY <1>5 DEF Recorded
  <2>2. cell # Baseline[c][v] /\ delta[v].previous = Baseline[c][v]
    BY <1>5, ExplainedRecords
  <2>6. new[v] = [previous |-> Baseline[c][v], next |-> cell]
    <3>1. delta[v] = [previous |-> Baseline[c][v], next |-> cells[v]]
      BY <1>5 DEF Explains
    <3> QED
      BY <1>2, <1>5, <2>1, <3>1
  <2>7. DOMAIN new = DOMAIN delta /\ \A w \in DOMAIN delta \ {v} : new[w] = delta[w]
    BY <2>1
  <2>8. new = [w \in DOMAIN new |-> new[w]]
    BY <2>1
  <2> HIDE DEF new, after
  <2>3. DOMAIN new \subseteq Voxels /\ new \in [DOMAIN new -> EditRecord]
    <3>1. \A w \in DOMAIN new : new[w] \in EditRecord
      BY <1>1, <1>2, <2>6, <2>7 DEF EditRecord
    <3> QED
      BY <1>2, <2>7, <2>8, <3>1
  <2>4. DOMAIN new = {w \in Voxels : after[w] # Baseline[c][w]}
    BY <1>2, <1>5, <2>2, <2>7 DEF Explains
  <2>5. \A w \in DOMAIN new : new[w] = [previous |-> Baseline[c][w], next |-> after[w]]
    BY <1>2, <2>6, <2>7 DEF Explains
  <2> QED
    BY <2>3, <2>4, <2>5, DeltaIsFunction DEF Explains, new, after
<1> QED
  BY <1>3, <1>4, <1>5

\* Canonical history keeps all of a delta that explains its cells.
LEMMA ExplanationIsEffective ==
  ASSUME NEW c \in Coords, NEW delta \in Deltas, NEW cells, Explains(c, delta, cells)
  PROVE  Effective(delta) = delta /\ MatchesBaseline(c, delta)
<1>1. {v \in DOMAIN delta : delta[v].previous # delta[v].next} = DOMAIN delta
  <2>1. \A v \in DOMAIN delta : delta[v].previous # delta[v].next
    BY ExplainedRecords
  <2> QED
    BY <2>1
<1>2. delta = [v \in DOMAIN delta |-> delta[v]]
  BY DeltaIsFunction
<1>3. Effective(delta) = delta
  BY <1>1, <1>2 DEF Effective, Restrict
<1> QED
  BY <1>3, ExplainedRecords DEF MatchesBaseline

-----------------------------------------------------------------------------
(* What the operations on chunks do to the cells and the flags.               *)

\* Marking a chunk for meshing changes neither its cells nor its other flags.
LEMMA MarkMeshKeeps ==
  ASSUME NEW R, NEW resident \in [R -> ChunkRecords], NEW S
  PROVE  /\ MarkMesh(resident, S) \in [R -> ChunkRecords]
         /\ \A d \in R :
              /\ MarkMesh(resident, S)[d].cells = resident[d].cells
              /\ \A flag \in Sinks :
                   flag \in MarkMesh(resident, S)[d].dirty <=> flag \in resident[d].dirty
<1> DEFINE marked == MarkMesh(resident, S)
<1>1. marked = [d \in R |-> IF d \in S THEN [resident[d] EXCEPT !.dirty = @ \cup {"mesh"}]
                                       ELSE resident[d]]
  BY DEF MarkMesh
<1> HIDE DEF marked
<1>2. ASSUME NEW d \in R
      PROVE  /\ marked[d] \in ChunkRecords
             /\ marked[d].cells = resident[d].cells
             /\ \A flag \in Sinks : flag \in marked[d].dirty <=> flag \in resident[d].dirty
  <2>1. resident[d] \in ChunkRecords
    OBVIOUS
  <2>2. CASE d \in S
    <3>1. marked[d] = [resident[d] EXCEPT !.dirty = @ \cup {"mesh"}]
      BY <1>1, <2>2
    <3>2. /\ marked[d].cells = resident[d].cells
          /\ marked[d].dirty = resident[d].dirty \cup {"mesh"}
          /\ marked[d] \in ChunkRecords
      BY <2>1, <3>1 DEF ChunkRecords, DirtyFlags
    <3> QED
      BY <3>2 DEF Sinks
  <2>3. CASE d \notin S
    BY <1>1, <2>1, <2>3
  <2> QED
    BY <2>2, <2>3
<1>3. marked \in [R -> ChunkRecords]
  BY <1>1, <1>2
<1> QED
  BY <1>2, <1>3 DEF marked

\* An edit changes one cell of one chunk and makes that chunk dirty for both
\* sinks.
LEMMA SetVoxelEffect ==
  ASSUME ChunksTypeOK, NEW c \in Coords, NEW v \in Voxels, NEW cell \in Cells,
         SetVoxel(c, v, cell)
  PROVE  /\ c \in Resident /\ Resident' = Resident
         /\ chunks' \in [Resident -> ChunkRecords]
         /\ meshRegions' \subseteq Coords /\ nextGeneration' \in Nat
         /\ cell # chunks[c].cells[v]
         /\ chunks'[c].cells = [chunks[c].cells EXCEPT ![v] = cell]
         /\ Sinks \subseteq chunks'[c].dirty
         /\ \A d \in Resident \ {c} :
              /\ chunks'[d].cells = chunks[d].cells
              /\ \A flag \in Sinks : flag \in chunks'[d].dirty <=> flag \in chunks[d].dirty
         /\ editLog' = [editLog EXCEPT ![c] = Recorded(@, v, chunks[c].cells[v], cell)]
<1> DEFINE edit == [chunks EXCEPT ![c].cells[v] = cell, ![c].revision = @ + 1,
                                  ![c].dirty = DirtyFlags]
<1>1. PICK S \in SUBSET Coords :
          chunks' = MarkMesh(edit, S) /\ meshRegions' = meshRegions \cup S
  BY DEF SetVoxel, RichNeighbors, BoundaryNeighbors, FaceNeighbors, ChunksTypeOK
<1>2. /\ c \in Resident /\ cell # chunks[c].cells[v]
      /\ editLog' = [editLog EXCEPT ![c] = Recorded(@, v, chunks[c].cells[v], cell)]
      /\ nextGeneration' = nextGeneration
  BY DEF SetVoxel
<1>3. chunks[c] \in ChunkRecords
  BY <1>2 DEF ChunksTypeOK
<1>4. /\ edit[c].cells = [chunks[c].cells EXCEPT ![v] = cell]
      /\ edit[c].dirty = DirtyFlags
      /\ edit[c] \in ChunkRecords
  <2>1. edit[c] = [chunks[c] EXCEPT !.cells = [chunks[c].cells EXCEPT ![v] = cell],
                                    !.revision = @ + 1, !.dirty = DirtyFlags]
    BY <1>2, <1>3 DEF ChunksTypeOK
  <2>2. /\ [chunks[c].cells EXCEPT ![v] = cell] \in [Voxels -> Cells]
        /\ chunks[c].revision + 1 \in Nat
    BY <1>3 DEF ChunkRecords
  <2> HIDE DEF edit
  <2> QED
    BY <1>3, <2>1, <2>2 DEF ChunkRecords
<1>5. DOMAIN edit = Resident /\ \A d \in Resident \ {c} : edit[d] = chunks[d]
  BY <1>2 DEF ChunksTypeOK
<1>6. edit \in [Resident -> ChunkRecords]
  BY <1>2, <1>3, <1>4, <1>5 DEF ChunksTypeOK
<1> HIDE DEF edit
<1>7. /\ chunks' \in [Resident -> ChunkRecords]
      /\ \A d \in Resident :
           /\ chunks'[d].cells = edit[d].cells
           /\ \A flag \in Sinks : flag \in chunks'[d].dirty <=> flag \in edit[d].dirty
  BY <1>1, <1>6, MarkMeshKeeps
<1>8. Sinks \subseteq chunks'[c].dirty
  BY <1>2, <1>4, <1>7 DEF DirtyFlags, Sinks
<1>9. meshRegions' \subseteq Coords /\ nextGeneration' \in Nat
  BY <1>1, <1>2 DEF ChunksTypeOK
<1> QED
  BY <1>2, <1>4, <1>5, <1>7, <1>8, <1>9 DEF Resident

\* A chunk that arrives has the given cells and is dirty for no sink; the
\* others keep theirs.
LEMMA InsertEffect ==
  ASSUME ChunksTypeOK, NEW c \in Coords, NEW cells \in [Voxels -> Cells],
         NEW restored \in Nat, Insert(c, cells, restored)
  PROVE  /\ c \notin Resident /\ Resident' = Resident \cup {c}
         /\ chunks' \in [Resident \cup {c} -> ChunkRecords]
         /\ meshRegions' \subseteq Coords /\ nextGeneration' \in Nat
         /\ chunks'[c].cells = cells
         /\ \A flag \in Sinks : flag \notin chunks'[c].dirty
         /\ \A d \in Resident :
              /\ chunks'[d].cells = chunks[d].cells
              /\ \A flag \in Sinks : flag \in chunks'[d].dirty <=> flag \in chunks[d].dirty
<1> DEFINE arrival == [generation |-> nextGeneration, revision |-> 2 + restored,
                       cells |-> cells, dirty |-> {"mesh"}]
           more == [d \in Resident \cup {c} |-> IF d = c THEN arrival ELSE chunks[d]]
<1>1. /\ c \notin Resident
      /\ chunks' = MarkMesh(more, FaceNeighbors(c))
      /\ meshRegions' = meshRegions \cup {c} \cup FaceNeighbors(c)
      /\ nextGeneration' = nextGeneration + 1
  BY DEF Insert
<1>2. arrival \in ChunkRecords /\ arrival.cells = cells /\ arrival.dirty = {"mesh"}
  BY DEF ChunkRecords, ChunksTypeOK, DirtyFlags
<1> HIDE DEF arrival
<1>3. /\ more \in [Resident \cup {c} -> ChunkRecords]
      /\ more[c] = arrival /\ \A d \in Resident : more[d] = chunks[d]
  BY <1>1, <1>2 DEF ChunksTypeOK
<1> HIDE DEF more
<1>4. /\ chunks' \in [Resident \cup {c} -> ChunkRecords]
      /\ \A d \in Resident \cup {c} :
           /\ chunks'[d].cells = more[d].cells
           /\ \A flag \in Sinks : flag \in chunks'[d].dirty <=> flag \in more[d].dirty
  BY <1>1, <1>3, MarkMeshKeeps
<1>5. meshRegions' \subseteq Coords /\ nextGeneration' \in Nat
  BY <1>1 DEF ChunksTypeOK, FaceNeighbors
<1>6. \A flag \in Sinks : flag \notin {"mesh"}
  BY DEF Sinks
<1> QED
  BY <1>1, <1>2, <1>3, <1>4, <1>5, <1>6 DEF Resident

\* A chunk that leaves changes nothing of the others but their mesh flag.
LEMMA EraseEffect ==
  ASSUME ChunksTypeOK, NEW c \in Coords, Erase(c)
  PROVE  /\ c \in Resident /\ Resident' = Resident \ {c}
         /\ chunks' \in [Resident \ {c} -> ChunkRecords]
         /\ UNCHANGED <<editLog, meshRegions, nextGeneration>>
         /\ \A d \in Resident \ {c} :
              /\ chunks'[d].cells = chunks[d].cells
              /\ \A flag \in Sinks : flag \in chunks'[d].dirty <=> flag \in chunks[d].dirty
<1> DEFINE rest == Restrict(chunks, Resident \ {c})
<1>1. /\ c \in Resident
      /\ chunks' = MarkMesh(rest, FaceNeighbors(c) \ {c})
      /\ UNCHANGED <<editLog, meshRegions, nextGeneration>>
  BY DEF Erase, Without
<1>2. /\ rest \in [Resident \ {c} -> ChunkRecords]
      /\ \A d \in Resident \ {c} : rest[d] = chunks[d]
  BY DEF ChunksTypeOK, Restrict
<1> HIDE DEF rest
<1>3. /\ chunks' \in [Resident \ {c} -> ChunkRecords]
      /\ \A d \in Resident \ {c} :
           /\ chunks'[d].cells = rest[d].cells
           /\ \A flag \in Sinks : flag \in chunks'[d].dirty <=> flag \in rest[d].dirty
  BY <1>1, <1>2, MarkMeshKeeps
<1> QED
  BY <1>1, <1>2, <1>3 DEF Resident

\* Clearing a flag of a resident chunk clears nothing else.
LEMMA ClearFlagEffect ==
  ASSUME ChunksTypeOK, NEW c \in Resident, NEW flag \in Sinks, ClearFlag(c, flag)
  PROVE  /\ Resident' = Resident
         /\ chunks' \in [Resident -> ChunkRecords]
         /\ UNCHANGED <<editLog, meshRegions, nextGeneration>>
         /\ \A d \in Resident :
              /\ chunks'[d].cells = chunks[d].cells
              /\ \A other \in Sinks :
                   other \in chunks'[d].dirty <=>
                     other \in chunks[d].dirty /\ (d # c \/ other # flag)
<1>1. /\ chunks' = [chunks EXCEPT ![c].dirty = @ \ {flag}]
      /\ UNCHANGED <<editLog, meshRegions, nextGeneration>>
  BY DEF ClearFlag
<1>2. chunks[c] \in ChunkRecords
  BY DEF ChunksTypeOK
<1>3. /\ chunks'[c].cells = chunks[c].cells
      /\ chunks'[c].dirty = chunks[c].dirty \ {flag}
      /\ chunks'[c] \in ChunkRecords
  BY <1>1, <1>2 DEF ChunksTypeOK, ChunkRecords
<1>4. DOMAIN chunks' = Resident /\ \A d \in Resident \ {c} : chunks'[d] = chunks[d]
  BY <1>1 DEF ChunksTypeOK
<1>5. chunks' \in [Resident -> ChunkRecords]
  BY <1>1, <1>3, <1>4 DEF ChunksTypeOK
<1> QED
  BY <1>1, <1>3, <1>4, <1>5 DEF Resident

-----------------------------------------------------------------------------
(* The steps.                                                                 *)

PassRecords == [at : Phases, todo : SUBSET Coords, pinned : SUBSET Coords,
                evictable : SUBSET Coords, sinks : SUBSET Sinks]

\* The idle pass is a pass, and about nobody.
LEMMA NoPassFacts ==
  NoPass \in PassRecords /\ NoPass.at = "idle"
  BY DEF NoPass, PassRecords, Phases

\* What the invariant says of each coordinate, for use below.
LEMMA PointwiseFacts ==
  ASSUME StreamingInv
  PROVE  /\ \A c \in Coords :
              /\ disk[c] \in Deltas /\ editLog[c] \in Deltas
              /\ Durable(c) \in [Voxels -> Cells]
              /\ Explains(c, disk[c], Durable(c))
         /\ \A c \in Resident :
              /\ c \in Coords
              /\ chunks[c] \in ChunkRecords
              /\ chunks[c].cells \in [Voxels -> Cells]
              /\ Explains(c, editLog[c], chunks[c].cells)
              /\ edited[c] = chunks[c].cells
         /\ \A c \in Coords \ Resident : edited[c] = Durable(c)
<1> USE DEF StreamingInv, StreamingTypeOK, ChunksTypeOK
<1>1. ASSUME NEW c \in Coords
      PROVE  /\ disk[c] \in Deltas /\ editLog[c] \in Deltas
             /\ Durable(c) \in [Voxels -> Cells]
             /\ Explains(c, disk[c], Durable(c))
  BY OverlaidType DEF Durable, DiskIsCanonical
<1>2. ASSUME NEW c \in Resident
      PROVE  /\ c \in Coords
             /\ chunks[c] \in ChunkRecords
             /\ chunks[c].cells \in [Voxels -> Cells]
             /\ Explains(c, editLog[c], chunks[c].cells)
             /\ edited[c] = chunks[c].cells
  <2>1. c \in Coords /\ chunks[c] \in ChunkRecords
    OBVIOUS
  <2> QED
    BY <2>1 DEF ChunkRecords, HistoryExplainsChunks, Explains, NoEditIsLost
<1> QED
  BY <1>1, <1>2 DEF NoEditIsLost

\* A step of the pass that touches no chunk keeps the invariant.
LEMMA PassOnlyStep ==
  ASSUME StreamingInv, UNCHANGED <<chunkVars, disk, replicated, edited>>,
         viewer' \in ViewerCoords, pass' \in PassRecords, PassIsAboutResidents'
  PROVE  StreamingInv'
<1>1. /\ chunks' = chunks /\ editLog' = editLog /\ meshRegions' = meshRegions
      /\ nextGeneration' = nextGeneration /\ disk' = disk
      /\ replicated' = replicated /\ edited' = edited
  BY DEF chunkVars
<1>2. Resident' = Resident /\ \A c : Durable(c)' = Durable(c)
  BY <1>1 DEF Resident, Durable
<1>3. StreamingTypeOK'
  BY <1>1, <1>2 DEF StreamingInv, StreamingTypeOK, ChunksTypeOK, PassRecords
<1>4. HistoryExplainsChunks' /\ NoEditIsLost' /\ CleanMeansHandedOff'
  BY <1>1, <1>2 DEF StreamingInv, HistoryExplainsChunks, NoEditIsLost, CleanMeansHandedOff
<1>5. DiskIsCanonical' /\ AbsentCanReturn'
  BY <1>1, <1>2 DEF StreamingInv, DiskIsCanonical, AbsentCanReturn
<1> QED
  BY <1>3, <1>4, <1>5 DEF StreamingInv

\* An edit: the only step that changes what a coordinate should have.
LEMMA EditStep ==
  ASSUME StreamingInv, NEW c \in Coords, NEW v \in Voxels, NEW cell \in Cells,
         EditVoxel(c, v, cell)
  PROVE  StreamingInv'
<1>1. /\ ChunksTypeOK /\ StreamingTypeOK /\ CleanMeansHandedOff /\ AbsentCanReturn
      /\ SetVoxel(c, v, cell)
      /\ edited' = [edited EXCEPT ![c][v] = cell]
      /\ disk' = disk /\ replicated' = replicated /\ viewer' = viewer
      /\ pass' = pass /\ pass.at = "idle"
  BY NoPassFacts DEF EditVoxel, StreamingInv, StreamingTypeOK
<1>2. /\ c \in Resident /\ Resident' = Resident
      /\ chunks' \in [Resident -> ChunkRecords]
      /\ meshRegions' \subseteq Coords /\ nextGeneration' \in Nat
      /\ cell # chunks[c].cells[v]
      /\ chunks'[c].cells = [chunks[c].cells EXCEPT ![v] = cell]
      /\ Sinks \subseteq chunks'[c].dirty
      /\ \A d \in Resident \ {c} :
           /\ chunks'[d].cells = chunks[d].cells
           /\ \A flag \in Sinks : flag \in chunks'[d].dirty <=> flag \in chunks[d].dirty
      /\ editLog' = [editLog EXCEPT ![c] = Recorded(@, v, chunks[c].cells[v], cell)]
  BY <1>1, SetVoxelEffect
<1> DEFINE record == Recorded(editLog[c], v, chunks[c].cells[v], cell)
<1>3. /\ record \in Deltas
      /\ Explains(c, record, chunks'[c].cells)
  <2>1. /\ editLog[c] \in Deltas /\ chunks[c].cells \in [Voxels -> Cells]
        /\ Explains(c, editLog[c], chunks[c].cells)
    BY <1>2, PointwiseFacts
  <2> QED
    BY <1>2, <2>1, RecordedExplains
<1>4. editLog'[c] = record /\ editLog' \in [Coords -> Deltas]
      /\ \A d \in Coords \ {c} : editLog'[d] = editLog[d]
  BY <1>1, <1>2, <1>3 DEF ChunksTypeOK
<1> HIDE DEF record
<1>5. /\ edited' \in [Coords -> [Voxels -> Cells]]
      /\ edited'[c] = [edited[c] EXCEPT ![v] = cell]
      /\ \A d \in Coords \ {c} : edited'[d] = edited[d]
  <2>1. edited \in [Coords -> [Voxels -> Cells]]
    BY <1>1 DEF StreamingTypeOK
  <2> QED
    BY <1>1, <2>1
<1>6. \A d : Durable(d)' = Durable(d)
  BY <1>1 DEF Durable
<1>7. StreamingTypeOK'
  BY <1>1, <1>2, <1>4, <1>5 DEF StreamingTypeOK, ChunksTypeOK
<1>8. HistoryExplainsChunks'
  <2>1. \A d \in Resident : Explains(d, editLog'[d], chunks'[d].cells)
    BY <1>2, <1>3, <1>4, PointwiseFacts
  <2> QED
    BY <1>2, <2>1 DEF HistoryExplainsChunks, Explains
<1>9. NoEditIsLost'
  BY <1>2, <1>5, <1>6, PointwiseFacts DEF NoEditIsLost
<1>10. CleanMeansHandedOff'
  BY <1>1, <1>2, <1>6 DEF CleanMeansHandedOff, Sinks
<1>11. DiskIsCanonical'
  BY <1>1, <1>6, PointwiseFacts DEF DiskIsCanonical
<1>12. AbsentCanReturn'
  BY <1>1, <1>2, <1>4, <1>6 DEF AbsentCanReturn
<1>13. PassIsAboutResidents'
  BY <1>1 DEF PassIsAboutResidents
<1> QED
  BY <1>7, <1>8, <1>9, <1>10, <1>11, <1>12, <1>13 DEF StreamingInv

\* Loading brings a chunk back as it left.
LEMMA LoadStep ==
  ASSUME StreamingInv, NEW c \in Coords, LoadChunk(c)
  PROVE  StreamingInv'
<1>1. /\ ChunksTypeOK /\ StreamingTypeOK /\ CleanMeansHandedOff /\ AbsentCanReturn
      /\ PassIsAboutResidents
      /\ pass.at = "load" /\ pass' = [pass EXCEPT !.todo = @ \ {c}]
      /\ disk' = disk /\ replicated' = replicated /\ edited' = edited /\ viewer' = viewer
  BY DEF LoadChunk, StreamingInv, StreamingTypeOK
<1>2. \E restored \in Nat :
          /\ Insert(c, Durable(c), restored)
          /\ editLog' \in [Coords -> Deltas] /\ editLog'[c] = disk[c]
          /\ \A d \in Coords \ {c} : editLog'[d] = editLog[d]
  <2>1. CASE disk[c] = NoDelta /\ InsertGenerated(c)
    <3>1. Insert(c, Durable(c), 0) /\ c \notin Resident /\ editLog' = editLog
      BY <2>1, GeneratedIsUnexplained DEF InsertGenerated, Insert, Durable
    <3>2. editLog[c] = disk[c]
      BY <1>1, <2>1, <3>1 DEF AbsentCanReturn
    <3> QED
      BY <1>1, <3>1, <3>2 DEF ChunksTypeOK
  <2>2. CASE InsertGeneratedWithSavedEdits(c, disk[c], Cardinality(DOMAIN disk[c]))
    <3>1. Cardinality(DOMAIN disk[c]) \in Nat
      <4>1. IsFiniteSet(Voxels)
        BY ChunkAssumption, FS_Interval DEF Voxels
      <4>2. DOMAIN disk[c] \subseteq Voxels
        BY PointwiseFacts, DeltaIsFunction
      <4> QED
        BY <4>1, <4>2, FS_Subset, FS_CardinalityType
    <3>2. Effective(disk[c]) = disk[c]
      BY PointwiseFacts, ExplanationIsEffective
    <3>3. editLog' = [editLog EXCEPT ![c] = disk[c]]
      BY <2>2, <3>2 DEF InsertGeneratedWithSavedEdits
    <3>4. Insert(c, Durable(c), Cardinality(DOMAIN disk[c]))
      BY <2>2 DEF InsertGeneratedWithSavedEdits, Durable
    <3> QED
      BY <1>1, <3>1, <3>3, <3>4, PointwiseFacts DEF ChunksTypeOK
  <2> QED
    BY <2>1, <2>2 DEF LoadChunk
<1>3. PICK restored \in Nat : Insert(c, Durable(c), restored)
  BY <1>2
<1>4. /\ c \notin Resident /\ Resident' = Resident \cup {c}
      /\ chunks' \in [Resident \cup {c} -> ChunkRecords]
      /\ meshRegions' \subseteq Coords /\ nextGeneration' \in Nat
      /\ chunks'[c].cells = Durable(c)
      /\ \A flag \in Sinks : flag \notin chunks'[c].dirty
      /\ \A d \in Resident :
           /\ chunks'[d].cells = chunks[d].cells
           /\ \A flag \in Sinks : flag \in chunks'[d].dirty <=> flag \in chunks[d].dirty
  BY <1>1, <1>3, PointwiseFacts, InsertEffect
<1>5. \A d : Durable(d)' = Durable(d)
  BY <1>1 DEF Durable
<1>6. /\ pass' \in PassRecords /\ pass'.at = "load"
      /\ pass'.pinned = pass.pinned /\ pass'.evictable = pass.evictable
  BY <1>1 DEF StreamingTypeOK, PassRecords
<1>7. StreamingTypeOK'
  BY <1>1, <1>2, <1>4, <1>6 DEF StreamingTypeOK, ChunksTypeOK, PassRecords
<1>8. HistoryExplainsChunks'
  <2>1. \A d \in Resident' : Explains(d, editLog'[d], chunks'[d].cells)
    BY <1>2, <1>4, PointwiseFacts
  <2> QED
    BY <2>1 DEF HistoryExplainsChunks, Explains
<1>9. NoEditIsLost'
  BY <1>1, <1>4, <1>5, PointwiseFacts DEF NoEditIsLost
<1>10. CleanMeansHandedOff'
  <2>1. replicated[c] = Durable(c)
    BY <1>1, <1>4 DEF AbsentCanReturn
  <2> QED
    BY <1>1, <1>4, <1>5, <2>1 DEF CleanMeansHandedOff, Sinks
<1>11. DiskIsCanonical'
  BY <1>1, <1>5, PointwiseFacts DEF DiskIsCanonical
<1>12. AbsentCanReturn'
  BY <1>1, <1>2, <1>4, <1>5 DEF AbsentCanReturn
<1>13. PassIsAboutResidents'
  BY <1>1, <1>4, <1>6 DEF PassIsAboutResidents
<1> QED
  BY <1>7, <1>8, <1>9, <1>10, <1>11, <1>12, <1>13 DEF StreamingInv

\* A saved chunk is on disk as it is.
LEMMA SaveStep ==
  ASSUME StreamingInv, NEW c \in Coords, FlushSave(c)
  PROVE  StreamingInv'
<1>1. /\ ChunksTypeOK /\ StreamingTypeOK /\ CleanMeansHandedOff /\ AbsentCanReturn
      /\ PassIsAboutResidents
      /\ pass.at = "save" /\ c \in pass.todo /\ pass' = [pass EXCEPT !.todo = @ \ {c}]
      /\ replicated' = replicated /\ edited' = edited /\ viewer' = viewer
  BY DEF FlushSave, Lowest, StreamingInv, StreamingTypeOK
<1>2. c \in Resident
  BY <1>1 DEF PassIsAboutResidents
<1>3. /\ pass' \in PassRecords /\ pass'.at = "save" /\ pass'.todo = pass.todo \ {c}
      /\ pass'.pinned = pass.pinned /\ pass'.evictable = pass.evictable
  BY <1>1 DEF StreamingTypeOK, PassRecords
<1>4. CASE ~Flushes(c, "save")
  <2>1. UNCHANGED <<chunkVars, disk>>
    BY <1>4 DEF FlushSave
  <2>2. PassIsAboutResidents'
    BY <1>1, <1>3, <2>1 DEF PassIsAboutResidents, chunkVars, Resident
  <2> QED
    BY <1>1, <1>3, <2>1, <2>2, PassOnlyStep DEF StreamingTypeOK
<1>5. CASE Flushes(c, "save")
  <2>1. disk' = [disk EXCEPT ![c] = editLog[c]] /\ ClearFlag(c, "save")
    BY <1>5 DEF FlushSave
  <2>2. /\ Resident' = Resident
        /\ chunks' \in [Resident -> ChunkRecords]
        /\ editLog' = editLog /\ meshRegions' = meshRegions
        /\ nextGeneration' = nextGeneration
        /\ \A d \in Resident :
             /\ chunks'[d].cells = chunks[d].cells
             /\ \A other \in Sinks :
                  other \in chunks'[d].dirty <=>
                    other \in chunks[d].dirty /\ (d # c \/ other # "save")
    BY <1>1, <1>2, <2>1, ClearFlagEffect DEF Sinks
  <2>3. disk'[c] = editLog[c] /\ \A d \in Coords \ {c} : disk'[d] = disk[d]
    BY <1>1, <2>1 DEF StreamingTypeOK
  <2>4. Durable(c)' = chunks[c].cells
    BY <1>2, <2>3, PointwiseFacts, ExplainedIsRebuilt DEF Durable
  <2>5. \A d \in Coords \ {c} : Durable(d)' = Durable(d)
    BY <2>3 DEF Durable
  <2>6. StreamingTypeOK'
    <3>1. disk' \in [Coords -> Deltas]
      BY <1>1, <2>1, PointwiseFacts DEF StreamingTypeOK
    <3> QED
      BY <1>1, <1>3, <2>2, <3>1 DEF StreamingTypeOK, ChunksTypeOK, PassRecords
  <2>7. HistoryExplainsChunks'
    <3>1. \A d \in Resident : Explains(d, editLog'[d], chunks'[d].cells)
      BY <2>2, PointwiseFacts
    <3> QED
      BY <2>2, <3>1 DEF HistoryExplainsChunks, Explains
  <2>8. NoEditIsLost'
    BY <1>1, <1>2, <2>2, <2>5, PointwiseFacts DEF NoEditIsLost
  <2>9. CleanMeansHandedOff'
    BY <1>1, <2>2, <2>4, <2>5, PointwiseFacts DEF CleanMeansHandedOff, Sinks
  <2>10. DiskIsCanonical'
    BY <1>2, <2>3, <2>4, <2>5, PointwiseFacts DEF DiskIsCanonical
  <2>11. AbsentCanReturn'
    BY <1>1, <1>2, <2>2, <2>3, <2>5 DEF AbsentCanReturn
  <2>12. PassIsAboutResidents'
    BY <1>1, <1>3, <2>2 DEF PassIsAboutResidents
  <2> QED
    BY <2>6, <2>7, <2>8, <2>9, <2>10, <2>11, <2>12 DEF StreamingInv
<1> QED
  BY <1>4, <1>5

\* A replicated chunk is what the replication side has.
LEMMA ReplicateStep ==
  ASSUME StreamingInv, NEW c \in Coords, FlushReplication(c)
  PROVE  StreamingInv'
<1>1. /\ ChunksTypeOK /\ StreamingTypeOK /\ CleanMeansHandedOff /\ AbsentCanReturn
      /\ PassIsAboutResidents
      /\ pass.at = "replicate" /\ c \in pass.todo
      /\ pass' = [pass EXCEPT !.todo = @ \ {c}]
      /\ disk' = disk /\ edited' = edited /\ viewer' = viewer
  BY DEF FlushReplication, Lowest, StreamingInv, StreamingTypeOK
<1>2. c \in Resident
  BY <1>1 DEF PassIsAboutResidents
<1>3. /\ pass' \in PassRecords /\ pass'.at = "replicate" /\ pass'.todo = pass.todo \ {c}
      /\ pass'.pinned = pass.pinned /\ pass'.evictable = pass.evictable
  BY <1>1 DEF StreamingTypeOK, PassRecords
<1>4. CASE ~Flushes(c, "replication")
  <2>1. UNCHANGED <<chunkVars, replicated>>
    BY <1>4 DEF FlushReplication
  <2>2. PassIsAboutResidents'
    BY <1>1, <1>3, <2>1 DEF PassIsAboutResidents, chunkVars, Resident
  <2> QED
    BY <1>1, <1>3, <2>1, <2>2, PassOnlyStep DEF StreamingTypeOK
<1>5. CASE Flushes(c, "replication")
  <2>1. /\ replicated' = [replicated EXCEPT ![c] = Overlaid(Baseline[c], editLog[c])]
        /\ ClearFlag(c, "replication")
    BY <1>5 DEF FlushReplication
  <2>2. /\ Resident' = Resident
        /\ chunks' \in [Resident -> ChunkRecords]
        /\ editLog' = editLog /\ meshRegions' = meshRegions
        /\ nextGeneration' = nextGeneration
        /\ \A d \in Resident :
             /\ chunks'[d].cells = chunks[d].cells
             /\ \A other \in Sinks :
                  other \in chunks'[d].dirty <=>
                    other \in chunks[d].dirty /\ (d # c \/ other # "replication")
    BY <1>1, <1>2, <2>1, ClearFlagEffect DEF Sinks
  <2>3. /\ replicated'[c] = chunks[c].cells
        /\ replicated' \in [Coords -> [Voxels -> Cells]]
        /\ \A d \in Coords \ {c} : replicated'[d] = replicated[d]
    <3>1. Overlaid(Baseline[c], editLog[c]) = chunks[c].cells
      BY <1>2, PointwiseFacts, ExplainedIsRebuilt
    <3>2. chunks[c].cells \in [Voxels -> Cells]
      BY <1>2, PointwiseFacts
    <3> QED
      BY <1>1, <2>1, <3>1, <3>2 DEF StreamingTypeOK
  <2>4. \A d : Durable(d)' = Durable(d)
    BY <1>1 DEF Durable
  <2>5. StreamingTypeOK'
    BY <1>1, <1>3, <2>2, <2>3 DEF StreamingTypeOK, ChunksTypeOK, PassRecords
  <2>6. HistoryExplainsChunks'
    <3>1. \A d \in Resident : Explains(d, editLog'[d], chunks'[d].cells)
      BY <2>2, PointwiseFacts
    <3> QED
      BY <2>2, <3>1 DEF HistoryExplainsChunks, Explains
  <2>7. NoEditIsLost'
    BY <1>1, <2>2, <2>4, PointwiseFacts DEF NoEditIsLost
  <2>8. CleanMeansHandedOff'
    BY <1>1, <2>2, <2>3, <2>4, PointwiseFacts DEF CleanMeansHandedOff, Sinks
  <2>9. DiskIsCanonical'
    BY <1>1, <2>4, PointwiseFacts DEF DiskIsCanonical
  <2>10. AbsentCanReturn'
    BY <1>1, <1>2, <2>2, <2>3, <2>4 DEF AbsentCanReturn
  <2>11. PassIsAboutResidents'
    BY <1>1, <1>3, <2>2 DEF PassIsAboutResidents
  <2> QED
    BY <2>5, <2>6, <2>7, <2>8, <2>9, <2>10, <2>11 DEF StreamingInv
<1> QED
  BY <1>4, <1>5

\* Only a chunk that was handed off to both sinks leaves.
LEMMA EvictStep ==
  ASSUME StreamingInv, NEW c \in Coords, EvictChunk(c)
  PROVE  StreamingInv'
<1>1. /\ ChunksTypeOK /\ StreamingTypeOK /\ CleanMeansHandedOff /\ AbsentCanReturn
      /\ PassIsAboutResidents
      /\ pass.at = "evict" /\ c \in pass.todo /\ pass' = [pass EXCEPT !.todo = @ \ {c}]
      /\ disk' = disk /\ replicated' = replicated /\ edited' = edited /\ viewer' = viewer
  BY DEF EvictChunk, Lowest, StreamingInv, StreamingTypeOK
<1>2. /\ pass' \in PassRecords /\ pass'.at = "evict" /\ pass'.todo = pass.todo \ {c}
  BY <1>1 DEF StreamingTypeOK, PassRecords
<1>3. CASE Unsaved(c)
  <2>1. UNCHANGED chunkVars
    BY <1>3 DEF EvictChunk
  <2>2. PassIsAboutResidents'
    BY <1>1, <1>2, <2>1 DEF PassIsAboutResidents, chunkVars, Resident
  <2> QED
    BY <1>1, <1>2, <2>1, <2>2, PassOnlyStep DEF StreamingTypeOK
<1>4. CASE ~Unsaved(c)
  <2>1. Erase(c)
    BY <1>4 DEF EvictChunk
  <2>2. /\ c \in Resident /\ Resident' = Resident \ {c}
        /\ chunks' \in [Resident \ {c} -> ChunkRecords]
        /\ editLog' = editLog /\ meshRegions' = meshRegions
        /\ nextGeneration' = nextGeneration
        /\ \A d \in Resident \ {c} :
             /\ chunks'[d].cells = chunks[d].cells
             /\ \A flag \in Sinks : flag \in chunks'[d].dirty <=> flag \in chunks[d].dirty
    BY <1>1, <2>1, EraseEffect
  <2>3. Durable(c) = chunks[c].cells /\ replicated[c] = chunks[c].cells
    BY <1>1, <1>4, <2>2 DEF Unsaved, CleanMeansHandedOff
  <2>4. editLog[c] = disk[c]
    BY <2>2, <2>3, PointwiseFacts, ExplanationIsUnique
  <2>5. \A d : Durable(d)' = Durable(d)
    BY <1>1 DEF Durable
  <2>6. StreamingTypeOK'
    BY <1>1, <1>2, <2>2 DEF StreamingTypeOK, ChunksTypeOK, PassRecords
  <2>7. HistoryExplainsChunks'
    <3>1. \A d \in Resident' : Explains(d, editLog'[d], chunks'[d].cells)
      BY <2>2, PointwiseFacts
    <3> QED
      BY <3>1 DEF HistoryExplainsChunks, Explains
  <2>8. NoEditIsLost'
    BY <1>1, <2>2, <2>3, <2>5, PointwiseFacts DEF NoEditIsLost
  <2>9. CleanMeansHandedOff'
    BY <1>1, <2>2, <2>5 DEF CleanMeansHandedOff, Sinks
  <2>10. DiskIsCanonical'
    BY <1>1, <2>5, PointwiseFacts DEF DiskIsCanonical
  <2>11. AbsentCanReturn'
    BY <1>1, <2>2, <2>3, <2>4, <2>5 DEF AbsentCanReturn
  <2>12. PassIsAboutResidents'
    BY <1>1, <1>2, <2>2 DEF PassIsAboutResidents
  <2> QED
    BY <2>6, <2>7, <2>8, <2>9, <2>10, <2>11, <2>12 DEF StreamingInv
<1> QED
  BY <1>3, <1>4

\* The next process starts from what was durable.
LEMMA RestartStep ==
  ASSUME StreamingInv, Restart
  PROVE  StreamingInv'
<1>1. /\ chunks' = [c \in {} |-> c] /\ editLog' = [c \in Coords |-> NoDelta]
      /\ meshRegions' = {} /\ nextGeneration' = 1 /\ pass' = NoPass
      /\ replicated' = [c \in Coords |-> Durable(c)]
      /\ edited' = [c \in Coords |-> Durable(c)]
      /\ viewer' = viewer /\ disk' = disk
  BY DEF Restart
<1>2. Resident' = {} /\ chunks' \in [{} -> ChunkRecords]
  BY <1>1 DEF Resident
<1>3. \A d : Durable(d)' = Durable(d)
  BY <1>1 DEF Durable
<1>4. StreamingTypeOK'
  <2>1. /\ editLog' \in [Coords -> Deltas]
        /\ replicated' \in [Coords -> [Voxels -> Cells]]
        /\ edited' \in [Coords -> [Voxels -> Cells]]
    BY <1>1, EmptyDelta, PointwiseFacts
  <2>2. disk' \in [Coords -> Deltas] /\ viewer' \in ViewerCoords
    BY <1>1 DEF StreamingInv, StreamingTypeOK
  <2> QED
    BY <1>1, <1>2, <2>1, <2>2, NoPassFacts DEF StreamingTypeOK, ChunksTypeOK, PassRecords
<1>5. HistoryExplainsChunks' /\ CleanMeansHandedOff'
  BY <1>2 DEF HistoryExplainsChunks, CleanMeansHandedOff
<1>6. NoEditIsLost'
  BY <1>1, <1>2, <1>3 DEF NoEditIsLost
<1>7. DiskIsCanonical'
  BY <1>1, <1>3, PointwiseFacts DEF DiskIsCanonical
<1>8. AbsentCanReturn'
  BY <1>1, <1>2, <1>3 DEF AbsentCanReturn
<1>9. PassIsAboutResidents'
  BY <1>1, NoPassFacts DEF PassIsAboutResidents
<1> QED
  BY <1>4, <1>5, <1>6, <1>7, <1>8, <1>9 DEF StreamingInv

\* Every step keeps the invariant.
LEMMA StreamingStep ==
  ASSUME StreamingInv, [StreamingNext]_streamVars
  PROVE  StreamingInv'
<1>1. /\ viewer \in ViewerCoords /\ pass \in PassRecords /\ Resident \subseteq Coords
      /\ PassIsAboutResidents
  BY DEF StreamingInv, StreamingTypeOK, ChunksTypeOK, PassRecords
<1>2. ASSUME NEW p \in ViewerCoords, MoveViewer(p)
      PROVE  StreamingInv'
  BY <1>1, <1>2, PassOnlyStep DEF MoveViewer, PassIsAboutResidents, chunkVars, Resident
<1>3. ASSUME NEW loading \in BOOLEAN, NEW sinks \in SUBSET Sinks, BeginPass(loading, sinks)
      PROVE  StreamingInv'
  <2>1. /\ UNCHANGED <<chunkVars, disk, replicated, edited>> /\ viewer' = viewer
        /\ pass'.at = "load" /\ pass' \in PassRecords
        /\ pass'.pinned \cup pass'.evictable \subseteq Resident
    BY <1>1, <1>3 DEF BeginPass, PassRecords, Phases, Within
  <2>2. PassIsAboutResidents'
    BY <2>1 DEF PassIsAboutResidents, chunkVars, Resident
  <2> QED
    BY <1>1, <2>1, <2>2, PassOnlyStep
<1>4. ASSUME LoadsDone \/ SavesDone \/ ReplicationDone
      PROVE  StreamingInv'
  <2>1. /\ UNCHANGED <<chunkVars, disk, replicated, edited>> /\ viewer' = viewer
        /\ pass.pinned \cup pass.evictable \subseteq Resident
    BY <1>1, <1>4 DEF LoadsDone, SavesDone, ReplicationDone, PassIsAboutResidents
  <2>2. /\ pass' \in PassRecords
        /\ pass'.pinned = pass.pinned /\ pass'.evictable = pass.evictable
        /\ pass'.todo \subseteq Resident
    BY <1>1, <1>4, <2>1 DEF LoadsDone, SavesDone, ReplicationDone, PassRecords, Phases
  <2>3. PassIsAboutResidents'
    BY <2>1, <2>2 DEF PassIsAboutResidents, chunkVars, Resident
  <2> QED
    BY <1>1, <2>1, <2>2, <2>3, PassOnlyStep
<1>5. ASSUME EndPass \/ FailPass
      PROVE  StreamingInv'
  <2>1. /\ UNCHANGED <<chunkVars, disk, replicated, edited>> /\ viewer' = viewer
        /\ pass' = NoPass
    BY <1>5 DEF EndPass, FailPass
  <2>2. PassIsAboutResidents'
    BY <2>1, NoPassFacts DEF PassIsAboutResidents
  <2> QED
    BY <1>1, <2>1, <2>2, NoPassFacts, PassOnlyStep
<1>6. CASE UNCHANGED streamVars
  <2>1. UNCHANGED <<chunkVars, disk, replicated, edited>> /\ viewer' = viewer /\ pass' = pass
    BY <1>6 DEF streamVars
  <2>2. PassIsAboutResidents'
    BY <1>1, <2>1 DEF PassIsAboutResidents, chunkVars, Resident
  <2> QED
    BY <1>1, <2>1, <2>2, PassOnlyStep
<1> QED
  BY <1>2, <1>3, <1>4, <1>5, <1>6, EditStep, LoadStep, SaveStep, ReplicateStep, EvictStep,
     RestartStep DEF StreamingNext

-----------------------------------------------------------------------------
\* A new world has no resident chunk and an empty disk.
LEMMA StreamingStart == StreamingInit => StreamingInv
<1> SUFFICES ASSUME StreamingInit
             PROVE  StreamingInv
  OBVIOUS
<1>1. /\ chunks = [c \in {} |-> c] /\ editLog = [c \in Coords |-> NoDelta]
      /\ meshRegions = {} /\ nextGeneration = 1 /\ viewer \in ViewerCoords
      /\ pass = NoPass /\ disk = [c \in Coords |-> NoDelta]
      /\ replicated = Baseline /\ edited = Baseline
  BY DEF StreamingInit, ChunksInit
<1>2. Resident = {} /\ chunks \in [{} -> ChunkRecords]
  BY <1>1 DEF Resident
<1>3. \A c \in Coords : Durable(c) = Baseline[c] /\ Explains(c, disk[c], Durable(c))
  BY <1>1, GeneratedIsUnexplained DEF Durable
<1>4. StreamingTypeOK
  BY <1>1, <1>2, EmptyDelta, NoPassFacts, ChunkAssumption
     DEF StreamingTypeOK, ChunksTypeOK, PassRecords
<1>5. HistoryExplainsChunks /\ CleanMeansHandedOff
  BY <1>2 DEF HistoryExplainsChunks, CleanMeansHandedOff
<1>6. NoEditIsLost /\ DiskIsCanonical /\ AbsentCanReturn
  BY <1>1, <1>2, <1>3 DEF NoEditIsLost, DiskIsCanonical, AbsentCanReturn
<1>7. PassIsAboutResidents
  BY <1>1, NoPassFacts DEF PassIsAboutResidents
<1> QED
  BY <1>4, <1>5, <1>6, <1>7 DEF StreamingInv

\* Hence the invariant always holds.
LEMMA StreamingInvariant == StreamingSpec => []StreamingInv
<1>1. StreamingInv /\ [StreamingNext]_streamVars => StreamingInv'
  BY StreamingStep
<1> QED
  BY <1>1, StreamingStart, PTL DEF StreamingSpec

\* The types of the chunk database, the pass, the disk and the replication side.
THEOREM StreamingTypeCorrect == StreamingSpec => []StreamingTypeOK
<1>1. StreamingInv => StreamingTypeOK
  BY DEF StreamingInv
<1> QED
  BY <1>1, StreamingInvariant, PTL

\* The history of a resident chunk is what distinguishes it from the generated
\* terrain, so an edit of it is never refused for its history.
THEOREM HistoryIsExact == StreamingSpec => []HistoryExplainsChunks
<1>1. StreamingInv => HistoryExplainsChunks
  BY DEF StreamingInv
<1> QED
  BY <1>1, StreamingInvariant, PTL

\* Eviction, reloading and failed passes lose no edit; a restart loses what had
\* not reached the disk and nothing else.
THEOREM EditsAreKept == StreamingSpec => []NoEditIsLost
<1>1. StreamingInv => NoEditIsLost
  BY DEF StreamingInv
<1> QED
  BY <1>1, StreamingInvariant, PTL

\* A clear save or replication flag is the truth about the disk or the
\* replication side.
THEOREM CleanIsHandedOff == StreamingSpec => []CleanMeansHandedOff
<1>1. StreamingInv => CleanMeansHandedOff
  BY DEF StreamingInv
<1> QED
  BY <1>1, StreamingInvariant, PTL

-----------------------------------------------------------------------------
(* The inductive invariant of rendering.                                      *)

\* What is remembered of a voxel of a chunk: if the chunk is still the one it
\* was, no change is unknown without a new revision.
Remembers(id, revision, v, cell) ==
    /\ id[2] < shownNextGeneration
    /\ IsLoaded(id) =>
           /\ revision <= shownChunks[id[1]].revision
           /\ revision = shownChunks[id[1]].revision => shownChunks[id[1]].cells[v] = cell

\* What a mesh shows of voxel v of a neighbour: a chunk that is absent is air,
\* and so is one that cannot be.
ShowsNeighbour(m, n, v, cell) ==
    \/ n \notin Coords /\ cell = Air
    \/ \E d \in m.deps : /\ d[1] = n
                         /\ IF d[2] = None THEN cell = Air
                            ELSE Remembers(<<n, d[2][1]>>, d[2][2], v, cell)

\* A mesh shows what there was at the versions its snapshot has noted.
Sound(id, m) ==
    /\ \A v \in Voxels : Remembers(id, m.revision, v, m.shown.own[v])
    /\ IF Halo(m.shown.own) = 0 THEN m.shown.beside = <<>>
       ELSE /\ m.shown.beside \in Cells \X Cells
            /\ ShowsNeighbour(m, id[1] - 1, EdgeLength - 1, m.shown.beside[1])
            /\ ShowsNeighbour(m, id[1] + 1, 0, m.shown.beside[2])

\* The meshes on their way: of the active jobs, of the uploads and of the results
\* a frame has taken.
Carried ==
    {<<id, jobs[id].mesh>> : id \in DOMAIN jobs}
        \cup {<<id, uploads[id]>> : id \in DOMAIN uploads}
        \cup {<<frame.results[i].id, frame.results[i].mesh>> : i \in DOMAIN frame.results}

MeshesAreSound == \A p \in Carried : Sound(p[1], p[2])

\* The dirty flag is a promise: without it a resident mesh shows its chunk.
CleanMeshesAreShown ==
    \A c \in Loaded :
        IsCached(Identity(c)) /\ entry[c].state = "resident" /\ "mesh" \notin shownChunks[c].dirty
            => entry[c].mesh.shown = Shown(c)

GenerationsArePast ==
    /\ \A c \in Loaded : shownChunks[c].generation < shownNextGeneration
    /\ \A c \in DOMAIN entry : entry[c].generation < shownNextGeneration

\* A published result is that of a job that is done, and there is one of each.
MailboxAgrees ==
    /\ \A i \in DOMAIN mailbox : jobs[mailbox[i].id].stage = "done"
    /\ \A i, j \in DOMAIN mailbox : mailbox[i].id = mailbox[j].id => i = j

CacheIsFinite == IsFiniteSet(DOMAIN jobs) /\ IsFiniteSet(DOMAIN entry)

\* What the steps of a frame have established so far.
FrameAgrees ==
    /\ frame.results # <<>> => At("results")
    /\ At("reconcile") => frame.todo \subseteq Loaded
    /\ ~At("idle") => table = palette
    /\ frame.at \notin {"idle", "reconcile"} =>
           \A c \in DOMAIN entry : c \in Loaded /\ entry[c].generation = shownChunks[c].generation
    /\ frame.at \notin {"idle", "reconcile", "regions", "distance"} =>
           \A c \in ResidentMeshes(entry) : NearCamera(c, RetainDistance)
    /\ frame.at \in {"schedule", "draw"} => ResidentBytes(entry) <= TerrainBudget

\* The mesh of a chunk is what it should be, given up for want of room, or
\* under way.
UnderWay ==
    pending \cup DOMAIN jobs \cup DOMAIN uploads
        \cup {frame.results[i].id : i \in DOMAIN frame.results}

Attended(c) ==
    /\ IsCached(Identity(c))
    /\ \/ /\ entry[c].state = "resident"
          /\ entry[c].mesh.shown = Shown(c)
          /\ entry[c].mesh.table = palette
       \/ entry[c].suppressed
       \/ Identity(c) \in UnderWay

NothingIsForgotten ==
    ~At("idle") => \A c \in NearChunks : Attended(c) \/ (At("reconcile") /\ c \in frame.todo)

RenderingInv ==
    /\ RenderingTypeOK
    /\ CacheIsFinite
    /\ GenerationsArePast
    /\ MailboxAgrees
    /\ MeshesAreSound
    /\ CleanMeshesAreShown
    /\ FrameAgrees
    /\ NothingIsForgotten

-----------------------------------------------------------------------------
(* Haloes.                                                                    *)

\* The naturals are well-founded.
LEMMA NatIsWellFounded == IsWellFoundedOn({p \in Nat \X Nat : p[1] < p[2]}, Nat)
  BY NatLessThanWellFounded DEF OpToRel

\* A set of numbers up to a bound has a greatest one.
LEMMA BoundedSetHasMaximum ==
  ASSUME NEW b \in Nat, NEW T, T \subseteq 0..b, T # {}
  PROVE  \E r \in T : \A t \in T : t <= r
<1> DEFINE gaps == {b - t : t \in T}
           R == {p \in Nat \X Nat : p[1] < p[2]}
<1>1. ASSUME NEW t \in T
      PROVE  t \in Nat /\ b - t \in Nat
  OBVIOUS
<1>2. gaps \subseteq Nat /\ gaps # {}
  BY <1>1
<1> HIDE DEF gaps, R
<1>3. PICK g \in gaps : \A h \in gaps : ~(<<h, g>> \in R)
  BY <1>2, WFMin, NatIsWellFounded DEF R
<1>4. \A h \in gaps : ~(h < g)
  BY <1>2, <1>3 DEF R
<1>5. PICK r \in T : g = b - r
  BY DEF gaps
<1>6. ASSUME NEW t \in T
      PROVE  t <= r
  <2>1. b - t \in gaps
    BY DEF gaps
  <2> QED
    BY <1>1, <1>4, <1>5, <2>1
<1> QED
  BY <1>6

\* The halo of a snapshot is a number of cells.
LEMMA HaloType ==
  ASSUME NEW cells \in [Voxels -> Cells]
  PROVE  Halo(cells) \in Nat
<1> DEFINE solid == {w \in Voxels : cells[w] # Air}
           radii == {0} \cup {DependencyRadius[cells[v]] : v \in solid}
           Covers(r) == \A v \in Voxels : cells[v] # Air => DependencyRadius[cells[v]] <= r
<1>1. MaxDependencyRadius \in Nat /\ radii \subseteq 0..MaxDependencyRadius
  BY RenderingAssumption
<1>2. PICK r \in radii : \A s \in radii : s <= r
  BY <1>1, BoundedSetHasMaximum
<1>3. Covers(r)
  BY <1>2
<1>4. Halo(cells) = CHOOSE s \in radii : Covers(s)
  BY DEF Halo
<1> HIDE DEF Covers, radii
<1>5. Halo(cells) \in radii
  BY <1>2, <1>3, <1>4
<1>6. \A s \in radii : s \in Nat
  BY <1>1
<1> QED
  BY <1>5, <1>6

\* Division rounds down.
LEMMA DivisionRoundsDown ==
  ASSUME NEW d \in Nat \ {0}, NEW a \in Int
  PROVE  /\ a < 0 => a \div d <= -1
         /\ d <= a => 1 <= a \div d
<1>1. a \div d \in Int /\ a % d \in 0..(d - 1) /\ a = d * (a \div d) + (a % d)
  OBVIOUS
<1>2. ASSUME a < 0, a \div d >= 0
      PROVE  FALSE
  <2>1. d * (a \div d) >= 0
    BY <1>1, <1>2
  <2> QED
    BY <1>1, <1>2, <2>1
<1>3. ASSUME d <= a, a \div d <= 0
      PROVE  FALSE
  <2>1. d * (a \div d) <= 0
    BY <1>1, <1>3
  <2> QED
    BY <1>1, <1>3, <2>1
<1> QED
  BY <1>1, <1>2, <1>3

\* A snapshot with a halo reads both neighbours.
LEMMA HaloReaches ==
  ASSUME NEW c \in Int, NEW halo \in Nat, halo # 0, NEW n \in Coords,
         n = c - 1 \/ n = c + 1
  PROVE  n \in Reached(c, halo)
<1>1. EdgeLength \in Nat \ {0} /\ n \in Int
  BY ChunkAssumption
<1>2. (0 - halo) \div EdgeLength <= -1
  BY <1>1, DivisionRoundsDown
<1>3. 1 <= (EdgeLength - 1 + halo) \div EdgeLength
  BY <1>1, DivisionRoundsDown
<1>4. /\ (0 - halo) \div EdgeLength \in Int
      /\ (EdgeLength - 1 + halo) \div EdgeLength \in Int
  BY <1>1
<1> DEFINE low == (0 - halo) \div EdgeLength
           high == (EdgeLength - 1 + halo) \div EdgeLength
<1> HIDE DEF low, high
<1>5. low \in Int /\ high \in Int /\ low <= -1 /\ 1 <= high
  BY <1>2, <1>3, <1>4 DEF low, high
<1>6. n - c >= low /\ n - c <= high
  BY <1>1, <1>5
<1> QED
  BY <1>6 DEF Reached, low, high

-----------------------------------------------------------------------------
(* What a step of the world leaves of what is remembered of it.               *)

\* The parts of the chunks.
LEMMA ChunkFacts ==
  ASSUME World!ChunksTypeOK
  PROVE  /\ Loaded \subseteq Coords /\ Loaded = DOMAIN shownChunks
         /\ shownNextGeneration \in Nat
         /\ \A c \in Loaded :
              /\ shownChunks[c] \in World!ChunkRecords
              /\ shownChunks[c].generation \in Nat
              /\ shownChunks[c].revision \in Nat
              /\ shownChunks[c].cells \in [Voxels -> Cells]
              /\ shownChunks[c].dirty \subseteq World!DirtyFlags
              /\ Identity(c) \in Identities /\ Identity(c)[1] = c
              /\ Identity(c)[2] = shownChunks[c].generation
<1>1. /\ Loaded \subseteq Coords /\ Loaded = DOMAIN shownChunks
      /\ shownNextGeneration \in Nat
      /\ \A c \in Loaded : shownChunks[c] \in World!ChunkRecords
  BY DEF World!ChunksTypeOK, Loaded
<1>2. ASSUME NEW c \in Loaded
      PROVE  /\ shownChunks[c].generation \in Nat
             /\ shownChunks[c].revision \in Nat
             /\ shownChunks[c].cells \in [Voxels -> Cells]
             /\ shownChunks[c].dirty \subseteq World!DirtyFlags
             /\ Identity(c) \in Identities /\ Identity(c)[1] = c
             /\ Identity(c)[2] = shownChunks[c].generation
  BY <1>1 DEF World!ChunkRecords, World!Voxels, Voxels, Identity, Identities
<1> QED
  BY <1>1, <1>2

\* A chunk that is still the one it was has a new revision if its cells have
\* changed, and any other chunk has a new generation.
Evolves ==
    /\ shownNextGeneration <= shownNextGeneration'
    /\ \A c \in Loaded' :
           \/ /\ c \in Loaded
              /\ shownChunks'[c].generation = shownChunks[c].generation
              /\ shownChunks[c].revision <= shownChunks'[c].revision
              /\ shownChunks'[c].revision = shownChunks[c].revision =>
                     shownChunks'[c].cells = shownChunks[c].cells
           \/ shownNextGeneration <= shownChunks'[c].generation

LEMMA RemembersEvolves ==
  ASSUME World!ChunksTypeOK, World!ChunksTypeOK', Evolves,
         NEW id, id[2] \in Nat, NEW revision \in Nat, NEW v, NEW cell,
         Remembers(id, revision, v, cell)
  PROVE  Remembers(id, revision, v, cell)'
<1>1. id[2] < shownNextGeneration'
  BY ChunkFacts DEF Evolves, Remembers, World!ChunksTypeOK
<1>2. ASSUME IsLoaded(id)'
      PROVE  /\ revision <= shownChunks'[id[1]].revision
             /\ revision = shownChunks'[id[1]].revision =>
                    shownChunks'[id[1]].cells[v] = cell
  <2> DEFINE c == id[1]
  <2>1. c \in Loaded' /\ shownChunks'[c].generation = id[2]
    BY <1>2 DEF IsLoaded, Identity
  <2>2. shownChunks'[c].revision \in Nat
    BY <2>1 DEF World!ChunksTypeOK, World!ChunkRecords, Loaded, World!Resident
  <2>3. /\ c \in Loaded /\ shownChunks'[c].generation = shownChunks[c].generation
        /\ shownChunks[c].revision <= shownChunks'[c].revision
        /\ shownChunks'[c].revision = shownChunks[c].revision =>
               shownChunks'[c].cells = shownChunks[c].cells
    BY <2>1, ChunkFacts DEF Evolves, Remembers
  <2>4. IsLoaded(id)
    <3>1. Identity(c) = Identity(c)'
      BY <2>3 DEF Identity
    <3> QED
      BY <1>2, <2>3, <3>1 DEF IsLoaded
  <2>5. /\ revision <= shownChunks[c].revision
        /\ revision = shownChunks[c].revision => shownChunks[c].cells[v] = cell
        /\ shownChunks[c].revision \in Nat
    BY <2>3, <2>4, ChunkFacts DEF Remembers
  <2> QED
    BY <2>2, <2>3, <2>5
<1> QED
  BY <1>1, <1>2 DEF Remembers

LEMMA SoundEvolves ==
  ASSUME World!ChunksTypeOK, World!ChunksTypeOK', Evolves,
         NEW id \in Identities, NEW m \in Meshes, Sound(id, m)
  PROVE  Sound(id, m)'
<1>1. /\ id[2] \in Nat /\ m.revision \in Nat
      /\ \A d \in m.deps : d[2] # None => d[2][1] \in Nat /\ d[2][2] \in Nat
  BY DEF Identities, Meshes
<1>2. \A v \in Voxels : Remembers(id, m.revision, v, m.shown.own[v])'
  BY <1>1, RemembersEvolves DEF Sound
<1>3. ASSUME NEW n, NEW v, NEW cell, ShowsNeighbour(m, n, v, cell)
      PROVE  ShowsNeighbour(m, n, v, cell)'
  <2>1. CASE n \notin Coords /\ cell = Air
    BY <2>1 DEF ShowsNeighbour
  <2>2. ASSUME NEW d \in m.deps, d[1] = n,
               IF d[2] = None THEN cell = Air
               ELSE Remembers(<<n, d[2][1]>>, d[2][2], v, cell)
        PROVE  ShowsNeighbour(m, n, v, cell)'
    <3>1. CASE d[2] = None
      BY <2>2, <3>1 DEF ShowsNeighbour
    <3>2. CASE d[2] # None
      <4>1. <<n, d[2][1]>>[2] \in Nat /\ d[2][2] \in Nat
        BY <1>1, <3>2
      <4>2. Remembers(<<n, d[2][1]>>, d[2][2], v, cell)'
        BY <2>2, <3>2, <4>1, RemembersEvolves
      <4> QED
        BY <2>2, <3>2, <4>2 DEF ShowsNeighbour
    <3> QED
      BY <3>1, <3>2
  <2> QED
    BY <1>3, <2>1, <2>2 DEF ShowsNeighbour
<1> QED
  BY <1>2, <1>3 DEF Sound

\* A mesh that is remembered soundly and whose versions are the present ones
\* shows its chunk as it is.
LEMMA CurrentIsShown ==
  ASSUME World!ChunksTypeOK, NEW id \in Identities, NEW m \in Meshes, Sound(id, m),
         IsLoaded(id), m.revision = shownChunks[id[1]].revision, DependenciesMatch(m.deps)
  PROVE  m.shown = Shown(id[1])
<1> DEFINE c == id[1]
           cells == shownChunks[c].cells
<1>1. /\ c \in Loaded /\ cells \in [Voxels -> Cells] /\ c \in Int
      /\ m.shown \in [own : [Voxels -> Cells], beside : {<<>>} \cup Cells \X Cells]
  BY ChunkFacts, ChunkAssumption DEF IsLoaded, Meshes
<1>2. m.shown.own = cells
  <2>1. \A v \in Voxels : cells[v] = m.shown.own[v]
    BY DEF Sound, Remembers
  <2> QED
    BY <1>1, <2>1
<1>3. ASSUME NEW n, NEW v, NEW cell, ShowsNeighbour(m, n, v, cell)
      PROVE  cell = IF n \in Loaded THEN shownChunks[n].cells[v] ELSE Air
  <2>1. CASE n \notin Coords /\ cell = Air
    BY <2>1, ChunkFacts
  <2>2. ASSUME NEW d \in m.deps, d[1] = n,
               IF d[2] = None THEN cell = Air
               ELSE Remembers(<<n, d[2][1]>>, d[2][2], v, cell)
        PROVE  cell = IF n \in Loaded THEN shownChunks[n].cells[v] ELSE Air
    <3>1. d[2] = Version(n)
      BY <2>2 DEF DependenciesMatch
    <3>2. CASE n \in Loaded
      <4>1. /\ d[2] = <<shownChunks[n].generation, shownChunks[n].revision>>
            /\ d[2] # None
        BY <3>1, <3>2, ChunkFacts, RenderingAssumption DEF Version
      <4>2. IsLoaded(<<n, d[2][1]>>)
        BY <3>2, <4>1 DEF IsLoaded, Identity
      <4> QED
        BY <2>2, <3>2, <4>1, <4>2 DEF Remembers
    <3>3. CASE n \notin Loaded
      BY <2>2, <3>1, <3>3 DEF Version
    <3> QED
      BY <3>2, <3>3
  <2> QED
    BY <1>3, <2>1, <2>2 DEF ShowsNeighbour
<1>4. m.shown.beside = IF Halo(cells) = 0 THEN <<>>
                       ELSE <<IF c - 1 \in Loaded THEN shownChunks[c - 1].cells[EdgeLength - 1]
                                                  ELSE Air,
                              IF c + 1 \in Loaded THEN shownChunks[c + 1].cells[0] ELSE Air>>
  <2>1. CASE Halo(m.shown.own) = 0
    BY <1>2, <2>1 DEF Sound
  <2>2. CASE Halo(m.shown.own) # 0
    <3>1. /\ m.shown.beside \in Cells \X Cells
          /\ ShowsNeighbour(m, c - 1, EdgeLength - 1, m.shown.beside[1])
          /\ ShowsNeighbour(m, c + 1, 0, m.shown.beside[2])
      BY <2>2 DEF Sound
    <3>2. m.shown.beside = <<m.shown.beside[1], m.shown.beside[2]>>
      BY <3>1
    <3>3. m.shown.beside[1] = IF c - 1 \in Loaded
                              THEN shownChunks[c - 1].cells[EdgeLength - 1] ELSE Air
      BY <1>3, <3>1
    <3>4. m.shown.beside[2] = IF c + 1 \in Loaded THEN shownChunks[c + 1].cells[0] ELSE Air
      BY <1>3, <3>1
    <3> QED
      BY <1>2, <2>2, <3>2, <3>3, <3>4
  <2> QED
    BY <2>1, <2>2
<1>5. m.shown = [own |-> m.shown.own, beside |-> m.shown.beside]
  BY <1>1
<1> QED
  BY <1>2, <1>4, <1>5 DEF Shown

\* A snapshot is a mesh, and what it remembers is so.
LEMMA SnapshotIsSound ==
  ASSUME World!ChunksTypeOK, GenerationsArePast, table \in Nat, NEW c \in Loaded
  PROVE  Snapshot(c) \in Meshes /\ Sound(Identity(c), Snapshot(c))
<1> DEFINE cells == shownChunks[c].cells
           m == Snapshot(c)
<1>1. /\ c \in Coords /\ c \in Int /\ cells \in [Voxels -> Cells] /\ Halo(cells) \in Nat
      /\ EdgeLength \in Nat \ {0} /\ Coords \subseteq Int /\ Air \in Cells
      /\ Identity(c) = <<c, shownChunks[c].generation>>
      /\ shownChunks[c].generation < shownNextGeneration
      /\ shownChunks[c].revision \in Nat
  BY ChunkFacts, HaloType, ChunkAssumption, RenderingAssumption DEF Identity, GenerationsArePast
<1>2. /\ m.revision = shownChunks[c].revision /\ m.table = table
      /\ m.deps = {<<d, Version(d)>> : d \in Reached(c, Halo(cells))}
      /\ m.shown = Shown(c)
      /\ m = [revision |-> m.revision, table |-> m.table, deps |-> m.deps, shown |-> m.shown]
  BY DEF Snapshot, Dependencies
<1>3. Shown(c).own = cells
  BY DEF Shown
<1> DEFINE left == IF c - 1 \in Loaded THEN shownChunks[c - 1].cells[EdgeLength - 1] ELSE Air
           right == IF c + 1 \in Loaded THEN shownChunks[c + 1].cells[0] ELSE Air
<1>4. left \in Cells /\ right \in Cells
  <2>1. EdgeLength - 1 \in Voxels /\ 0 \in Voxels
    BY <1>1 DEF Voxels
  <2>2. c - 1 \in Loaded => shownChunks[c - 1].cells[EdgeLength - 1] \in Cells
    BY <2>1, ChunkFacts
  <2>3. c + 1 \in Loaded => shownChunks[c + 1].cells[0] \in Cells
    BY <2>1, ChunkFacts
  <2> QED
    BY <1>1, <2>2, <2>3
<1>5. Shown(c).beside = IF Halo(cells) = 0 THEN <<>> ELSE <<left, right>>
  BY DEF Shown
<1>6. Shown(c) = [own |-> Shown(c).own, beside |-> Shown(c).beside]
  BY DEF Shown
<1> HIDE DEF left, right, m
<1>7. Shown(c) \in [own : [Voxels -> Cells], beside : {<<>>} \cup Cells \X Cells]
  BY <1>1, <1>3, <1>4, <1>5, <1>6
<1>8. m.deps \in SUBSET (Coords \X (Nat \X Nat \cup {None}))
  <2>1. ASSUME NEW d \in Reached(c, Halo(cells))
        PROVE  <<d, Version(d)>> \in Coords \X (Nat \X Nat \cup {None})
    BY ChunkFacts DEF Reached, Version
  <2> QED
    BY <1>2, <2>1
<1>9. m \in Meshes
  BY <1>1, <1>2, <1>7, <1>8 DEF Meshes
<1>10. ASSUME NEW n \in Loaded, NEW v
       PROVE  Remembers(<<n, shownChunks[n].generation>>, shownChunks[n].revision, v,
                        shownChunks[n].cells[v])
  BY ChunkFacts DEF Remembers, GenerationsArePast
<1>11. \A v \in Voxels : Remembers(Identity(c), m.revision, v, m.shown.own[v])
  BY <1>1, <1>2, <1>3, <1>10
<1>12. ASSUME NEW n, n = c - 1 \/ n = c + 1, NEW v, Halo(cells) # 0
       PROVE  ShowsNeighbour(m, n, v, IF n \in Loaded THEN shownChunks[n].cells[v] ELSE Air)
  <2>1. CASE n \notin Coords
    BY <2>1, ChunkFacts DEF ShowsNeighbour
  <2>2. CASE n \in Coords
    <3>1. <<n, Version(n)>> \in m.deps
      BY <1>1, <1>2, <1>12, <2>2, HaloReaches
    <3>2. CASE n \in Loaded
      <4>1. /\ Version(n) = <<shownChunks[n].generation, shownChunks[n].revision>>
            /\ Version(n) # None
        BY <3>2, ChunkFacts, RenderingAssumption DEF Version
      <4>2. Remembers(<<n, Version(n)[1]>>, Version(n)[2], v, shownChunks[n].cells[v])
        BY <1>10, <3>2, <4>1
      <4> QED
        BY <3>1, <3>2, <4>1, <4>2 DEF ShowsNeighbour
    <3>3. CASE n \notin Loaded
      BY <3>1, <3>3 DEF ShowsNeighbour, Version
    <3> QED
      BY <3>2, <3>3
  <2> QED
    BY <2>1, <2>2
<1>13. Identity(c)[1] = c
  BY <1>1
<1>14. Halo(m.shown.own) = Halo(cells)
  BY <1>2, <1>3
<1>15. CASE Halo(cells) = 0
  BY <1>2, <1>5, <1>9, <1>11, <1>14, <1>15 DEF Sound, m
<1>16. CASE Halo(cells) # 0
  <2>1. m.shown.beside = <<left, right>>
    BY <1>2, <1>5, <1>16
  <2>2. ShowsNeighbour(m, c - 1, EdgeLength - 1, left)
    BY <1>12, <1>16 DEF left
  <2>3. ShowsNeighbour(m, c + 1, 0, right)
    BY <1>12, <1>16 DEF right
  <2>4. /\ m.shown.beside \in Cells \X Cells
        /\ ShowsNeighbour(m, c - 1, EdgeLength - 1, m.shown.beside[1])
        /\ ShowsNeighbour(m, c + 1, 0, m.shown.beside[2])
    BY <1>4, <2>1, <2>2, <2>3
  <2> QED
    BY <1>9, <1>11, <1>13, <1>14, <1>16, <2>4 DEF Sound, m
<1> QED
  BY <1>15, <1>16

\* A step in which the world stands still: flags and regions may change.
SameWorld ==
    /\ Loaded' = Loaded /\ shownNextGeneration' = shownNextGeneration
    /\ \A c \in Loaded : /\ shownChunks'[c].generation = shownChunks[c].generation
                         /\ shownChunks'[c].revision = shownChunks[c].revision
                         /\ shownChunks'[c].cells = shownChunks[c].cells

LEMMA StandingWorld ==
  ASSUME World!ChunksTypeOK, World!ChunksTypeOK', SameWorld
  PROVE  /\ \A c \in Loaded : Identity(c)' = Identity(c) /\ Shown(c)' = Shown(c)
         /\ \A id : IsLoaded(id)' <=> IsLoaded(id)
         /\ \A id \in Identities, m \in Meshes : Sound(id, m) => Sound(id, m)'
<1>1. ASSUME NEW c \in Loaded
      PROVE  Identity(c)' = Identity(c) /\ Shown(c)' = Shown(c)
  BY DEF SameWorld, Identity, Shown
<1>2. ASSUME NEW id
      PROVE  IsLoaded(id)' <=> IsLoaded(id)
  BY DEF SameWorld, IsLoaded, Identity
<1>3. Evolves
  BY ChunkFacts DEF Evolves, SameWorld
<1>4. ASSUME NEW id \in Identities, NEW m \in Meshes, Sound(id, m)
      PROVE  Sound(id, m)'
  BY <1>3, <1>4, SoundEvolves
<1> QED
  BY <1>1, <1>2, <1>4

LEMMA UnchangedWorld ==
  ASSUME UNCHANGED <<shownChunks, shownNextGeneration>>
  PROVE  SameWorld
BY DEF SameWorld, Loaded, World!Resident

\* The types of what is on its way.
LEMMA CarriedType ==
  ASSUME RenderingTypeOK
  PROVE  \A p \in Carried : p = <<p[1], p[2]>> /\ p[1] \in Identities /\ p[2] \in Meshes
<1>1. \A id \in DOMAIN jobs : id \in Identities /\ jobs[id].mesh \in Meshes
  BY DEF RenderingTypeOK, Jobs
<1>2. \A id \in DOMAIN uploads : id \in Identities /\ uploads[id] \in Meshes
  BY DEF RenderingTypeOK
<1>3. \A i \in DOMAIN frame.results :
          frame.results[i].id \in Identities /\ frame.results[i].mesh \in Meshes
  <2>1. frame.results \in Seq([id : Identities, state : ResultStates, mesh : Meshes])
    BY DEF RenderingTypeOK
  <2>2. frame.results \in [1..Len(frame.results) ->
                               [id : Identities, state : ResultStates, mesh : Meshes]]
    BY <2>1, LenProperties
  <2> QED
    BY <2>2
<1> QED
  BY <1>1, <1>2, <1>3 DEF Carried

\* What the steps that leave the world alone have in common: they cache only
\* chunks that are loaded, make no mesh resident and carry what was carried, or a
\* snapshot.
LEMMA KeptParts ==
  ASSUME RenderingInv, RenderingTypeOK', UNCHANGED <<shownChunks, shownNextGeneration>>,
         \A p \in Carried' :
             p \in Carried \/ \E c \in Loaded : p = <<Identity(c), Snapshot(c)>>,
         \A c \in DOMAIN entry' :
             \/ /\ c \in DOMAIN entry /\ entry'[c].generation = entry[c].generation
                /\ entry'[c].state = "resident" =>
                       entry[c].state = "resident" /\ entry'[c].mesh = entry[c].mesh
             \/ /\ c \in Loaded /\ entry'[c].generation = shownChunks[c].generation
                /\ entry'[c].state # "resident"
  PROVE  GenerationsArePast' /\ MeshesAreSound' /\ CleanMeshesAreShown'
<1>1. /\ World!ChunksTypeOK /\ World!ChunksTypeOK' /\ SameWorld /\ table \in Nat
      /\ GenerationsArePast /\ MeshesAreSound /\ CleanMeshesAreShown /\ RenderingTypeOK
  BY UnchangedWorld DEF RenderingInv, RenderingTypeOK
<1>2. Loaded' = Loaded /\ shownChunks' = shownChunks
  BY <1>1 DEF SameWorld
<1>3. GenerationsArePast'
  BY <1>1, <1>2 DEF GenerationsArePast
<1>4. ASSUME NEW p \in Carried'
      PROVE  Sound(p[1], p[2])'
  <2>1. p[1] \in Identities /\ p[2] \in Meshes /\ Sound(p[1], p[2])
    <3>1. CASE p \in Carried
      BY <1>1, <3>1, CarriedType DEF MeshesAreSound
    <3>2. ASSUME NEW c \in Loaded, p = <<Identity(c), Snapshot(c)>>
          PROVE  p[1] \in Identities /\ p[2] \in Meshes /\ Sound(p[1], p[2])
      <4>1. Identity(c) \in Identities /\ Snapshot(c) \in Meshes /\ Sound(Identity(c), Snapshot(c))
        BY <1>1, ChunkFacts, SnapshotIsSound
      <4>2. p[1] = Identity(c) /\ p[2] = Snapshot(c)
        BY <3>2
      <4> QED
        BY <4>1, <4>2
    <3> QED
      BY <1>4, <3>1, <3>2
  <2> QED
    BY <1>1, <2>1, StandingWorld
<1>5. MeshesAreSound'
  BY <1>4 DEF MeshesAreSound
<1>6. ASSUME NEW c \in Loaded, IsCached(Identity(c))', entry'[c].state = "resident",
             "mesh" \notin shownChunks[c].dirty
      PROVE  entry'[c].mesh.shown = Shown(c)'
  <2>1. Identity(c)' = Identity(c) /\ Shown(c)' = Shown(c) /\ Identity(c)[1] = c
    BY <1>1, ChunkFacts, StandingWorld
  <2>2. c \in DOMAIN entry' /\ entry'[c].generation = Identity(c)[2]
    BY <1>6, <2>1 DEF IsCached
  <2>3. /\ c \in DOMAIN entry /\ entry'[c].generation = entry[c].generation
        /\ entry[c].state = "resident" /\ entry'[c].mesh = entry[c].mesh
    BY <1>6, <2>2
  <2>4. IsCached(Identity(c))
    BY <2>1, <2>2, <2>3 DEF IsCached
  <2> QED
    BY <1>1, <1>6, <2>1, <2>3, <2>4 DEF CleanMeshesAreShown
<1>7. CleanMeshesAreShown'
  BY <1>2, <1>6 DEF CleanMeshesAreShown
<1> QED
  BY <1>3, <1>5, <1>7

\* A chunk stays attended while it is cached as it is, and is under way as it was.
LEMMA AttendedKept ==
  ASSUME World!ChunksTypeOK, World!ChunksTypeOK', SameWorld, palette' = palette,
         NEW c \in Loaded, Attended(c),
         c \in DOMAIN entry', entry'[c].generation = entry[c].generation,
         entry'[c].suppressed = entry[c].suppressed,
         entry[c].state = "resident" =>
             entry'[c].state = "resident" /\ entry'[c].mesh = entry[c].mesh,
         Identity(c) \in UnderWay => Identity(c) \in UnderWay'
  PROVE  Attended(c)'
<1>1. Identity(c)' = Identity(c) /\ Shown(c)' = Shown(c) /\ Identity(c)[1] = c
  BY ChunkFacts, StandingWorld
<1>2. IsCached(Identity(c))'
  BY <1>1 DEF Attended, IsCached
<1> QED
  BY <1>1, <1>2 DEF Attended

-----------------------------------------------------------------------------
(* The steps of the workers.                                                  *)

\* Where a frame goes, it starts anew.
LEMMA GoToEffect ==
  ASSUME NEW phase \in FramePhases, NEW todo, GoTo(phase, todo)
  PROVE  /\ frame'.at = phase /\ frame'.todo = todo /\ frame'.results = <<>>
         /\ frame' \in [at : FramePhases, todo : {frame'.todo}, scheduled : Nat, copied : Nat,
                        results : Seq([id : Identities, state : ResultStates, mesh : Meshes])]
<1>1. <<>> \in Seq([id : Identities, state : ResultStates, mesh : Meshes])
  BY EmptySeq
<1> QED
  BY <1>1 DEF GoTo

\* Cancelling touches nothing but the flag of a job.
LEMMA CancelAllEffect ==
  ASSUME NEW active, active \in [DOMAIN active -> Jobs], NEW ids
  PROVE  /\ DOMAIN CancelAll(active, ids) = DOMAIN active
         /\ CancelAll(active, ids) \in [DOMAIN active -> Jobs]
         /\ \A i \in DOMAIN active : /\ CancelAll(active, ids)[i].mesh = active[i].mesh
                                     /\ CancelAll(active, ids)[i].stage = active[i].stage
<1>1. ASSUME NEW i \in DOMAIN active
      PROVE  /\ CancelAll(active, ids)[i] \in Jobs
             /\ CancelAll(active, ids)[i].mesh = active[i].mesh
             /\ CancelAll(active, ids)[i].stage = active[i].stage
  <2>1. active[i] \in Jobs
    OBVIOUS
  <2>2. CancelAll(active, ids)[i] = IF i \in ids THEN [active[i] EXCEPT !.cancelled = TRUE]
                                                 ELSE active[i]
    BY DEF CancelAll
  <2> QED
    BY <2>1, <2>2 DEF Jobs
<1> QED
  BY <1>1 DEF CancelAll

\* The jobs and the mailbox agree while both stay and jobs are cancelled only.
LEMMA CancelledJobs ==
  ASSUME RenderingTypeOK, MailboxAgrees, CacheIsFinite, NEW ids,
         jobs' = CancelAll(jobs, ids), mailbox' = mailbox
  PROVE  /\ DOMAIN jobs' = DOMAIN jobs /\ \A i \in DOMAIN jobs : jobs'[i].mesh = jobs[i].mesh
         /\ MailboxAgrees' /\ IsFiniteSet(DOMAIN jobs)'
         /\ DOMAIN jobs' \subseteq Identities /\ jobs' \in [DOMAIN jobs' -> Jobs]
         /\ Cardinality(DOMAIN jobs') <= MaxJobs
         /\ mailbox' \in Seq([id : DOMAIN jobs', state : ResultStates])
<1>1. /\ jobs \in [DOMAIN jobs -> Jobs] /\ DOMAIN jobs \subseteq Identities
      /\ Cardinality(DOMAIN jobs) <= MaxJobs
      /\ mailbox \in Seq([id : DOMAIN jobs, state : ResultStates])
  BY DEF RenderingTypeOK
<1>2. /\ DOMAIN jobs' = DOMAIN jobs /\ jobs' \in [DOMAIN jobs -> Jobs]
      /\ \A i \in DOMAIN jobs : jobs'[i].mesh = jobs[i].mesh /\ jobs'[i].stage = jobs[i].stage
  BY <1>1, CancelAllEffect
<1>3. \A i \in DOMAIN mailbox : mailbox[i].id \in DOMAIN jobs
  <2>1. mailbox \in [1..Len(mailbox) -> [id : DOMAIN jobs, state : ResultStates]]
    BY <1>1, LenProperties
  <2> QED
    BY <2>1
<1>4. MailboxAgrees'
  BY <1>2, <1>3 DEF MailboxAgrees
<1> QED
  BY <1>1, <1>2, <1>4 DEF CacheIsFinite

\* A worker changes the stage of a job, and may publish its result.
LEMMA WorkerStep ==
  ASSUME RenderingInv, NEW id \in DOMAIN jobs, NEW stage \in {"meshing", "done"},
         jobs[id].stage # "done",
         jobs' = [jobs EXCEPT ![id].stage = stage],
         \/ mailbox' = mailbox
         \/ stage = "done" /\ \E result \in ResultStates :
                mailbox' = Append(mailbox, [id |-> id, state |-> result]),
         UNCHANGED <<shownVars, camera, palette, table, entry, pending, uploads, frame>>,
         disturbances' \in 0..MaxDisturbances
  PROVE  RenderingInv'
<1>1. /\ RenderingTypeOK /\ CacheIsFinite /\ MailboxAgrees /\ FrameAgrees
      /\ NothingIsForgotten
      /\ jobs \in [DOMAIN jobs -> Jobs] /\ DOMAIN jobs \subseteq Identities
      /\ Cardinality(DOMAIN jobs) <= MaxJobs
      /\ mailbox \in Seq([id : DOMAIN jobs, state : ResultStates])
  BY DEF RenderingInv, RenderingTypeOK
<1>2. UNCHANGED <<shownChunks, shownEditLog, shownMeshRegions, shownNextGeneration, camera,
                  palette, table, entry, pending, uploads, frame>>
  BY DEF shownVars
<1>3. /\ DOMAIN jobs' = DOMAIN jobs /\ jobs' \in [DOMAIN jobs -> Jobs]
      /\ \A i \in DOMAIN jobs : jobs'[i].mesh = jobs[i].mesh
      /\ \A i \in DOMAIN jobs : jobs'[i].stage = IF i = id THEN stage ELSE jobs[i].stage
  <2>1. jobs[id] \in Jobs /\ jobs'[id] = [jobs[id] EXCEPT !.stage = stage]
    BY <1>1
  <2>2. jobs'[id] \in Jobs /\ jobs'[id].mesh = jobs[id].mesh /\ jobs'[id].stage = stage
    BY <2>1 DEF Jobs
  <2>3. \A i \in DOMAIN jobs \ {id} : jobs'[i] = jobs[i]
    BY <1>1
  <2> QED
    BY <1>1, <2>2, <2>3
<1>4. /\ mailbox' \in Seq([id : DOMAIN jobs, state : ResultStates])
      /\ MailboxAgrees'
  <2>1. mailbox \in [1..Len(mailbox) -> [id : DOMAIN jobs, state : ResultStates]]
    BY <1>1, LenProperties
  <2>2. \A i \in DOMAIN mailbox : mailbox[i].id \in DOMAIN jobs /\ mailbox[i].id # id
    BY <1>1, <2>1 DEF MailboxAgrees
  <2>3. CASE mailbox' = mailbox
    BY <1>1, <1>3, <2>2, <2>3 DEF MailboxAgrees
  <2>4. ASSUME stage = "done", NEW result \in ResultStates,
               mailbox' = Append(mailbox, [id |-> id, state |-> result])
        PROVE  /\ mailbox' \in Seq([id : DOMAIN jobs, state : ResultStates])
               /\ MailboxAgrees'
    <3> DEFINE last == Len(mailbox) + 1
    <3>1. [id |-> id, state |-> result] \in [id : DOMAIN jobs, state : ResultStates]
      OBVIOUS
    <3>2. /\ mailbox' \in Seq([id : DOMAIN jobs, state : ResultStates])
          /\ Len(mailbox') = last /\ Len(mailbox) \in Nat
          /\ \A i \in 1..Len(mailbox) : mailbox'[i] = mailbox[i]
          /\ mailbox'[last] = [id |-> id, state |-> result]
      BY <1>1, <2>4, <3>1, AppendProperties, LenProperties
    <3>3. DOMAIN mailbox' = 1..last /\ DOMAIN mailbox = 1..Len(mailbox)
      BY <3>2, <2>1, LenProperties
    <3> HIDE DEF last
    <3>4. \A i \in DOMAIN mailbox' : (i \in DOMAIN mailbox /\ mailbox'[i] = mailbox[i]) \/ i = last
      BY <3>2, <3>3 DEF last
    <3>5. mailbox'[last].id = id
      BY <3>2
    <3>6. \A i \in DOMAIN mailbox' : jobs'[mailbox'[i].id].stage = "done"
      BY <1>1, <1>3, <2>2, <2>4, <3>4, <3>5 DEF MailboxAgrees
    <3>7. \A i, j \in DOMAIN mailbox' : mailbox'[i].id = mailbox'[j].id => i = j
      BY <1>1, <2>2, <3>4, <3>5 DEF MailboxAgrees
    <3> QED
      BY <3>2, <3>6, <3>7 DEF MailboxAgrees
  <2> QED
    BY <2>3, <2>4
<1>5. RenderingTypeOK'
  BY <1>1, <1>2, <1>3, <1>4
  DEF RenderingTypeOK, World!ChunksTypeOK, World!Resident, At
<1>6. Carried' = Carried
  BY <1>2, <1>3 DEF Carried
<1>7. GenerationsArePast' /\ MeshesAreSound' /\ CleanMeshesAreShown'
  BY <1>2, <1>5, <1>6, KeptParts
<1>8. SameWorld /\ World!ChunksTypeOK /\ World!ChunksTypeOK'
  BY <1>1, <1>2, <1>5, UnchangedWorld DEF RenderingTypeOK
<1>9. FrameAgrees'
  BY <1>1, <1>2, <1>8, StandingWorld DEF FrameAgrees, At, SameWorld, NearCamera, ResidentMeshes
<1>10. NothingIsForgotten'
  <2>1. UnderWay' = UnderWay
    BY <1>2, <1>3 DEF UnderWay
  <2>2. NearChunks' = NearChunks /\ NearChunks \subseteq Loaded
    BY <1>2, <1>8 DEF NearChunks, NearCamera, SameWorld
  <2>3. \A c \in NearChunks : Attended(c) => Attended(c)'
    <3>1. ASSUME NEW c \in NearChunks, Attended(c)
          PROVE  Attended(c)'
      BY <1>2, <1>8, <2>1, <2>2, <3>1, AttendedKept DEF Attended, IsCached, Identity
    <3> QED
      BY <3>1
  <2> QED
    BY <1>1, <1>2, <2>2, <2>3 DEF NothingIsForgotten, At
<1> QED
  BY <1>1, <1>3, <1>4, <1>5, <1>7, <1>9, <1>10, <1>2 DEF RenderingInv, CacheIsFinite

LEMMA StartJobStep ==
  ASSUME RenderingInv, NEW id, StartJob(id)
  PROVE  RenderingInv'
<1>1. id \in DOMAIN jobs /\ jobs[id].stage = "queued" /\ disturbances \in 0..MaxDisturbances
  BY DEF StartJob, RenderingInv, RenderingTypeOK
<1>2. UNCHANGED <<shownVars, camera, palette, table, entry, pending, uploads, frame, disturbances>>
  BY DEF StartJob, inputVars
<1>3. CASE jobs[id].cancelled
  <2>1. /\ mailbox' = Append(mailbox, [id |-> id, state |-> "cancelled"])
        /\ jobs' = [jobs EXCEPT ![id].stage = "done"]
    BY <1>3 DEF StartJob
  <2>2. "cancelled" \in ResultStates
    BY DEF ResultStates
  <2> QED
    BY <1>1, <1>2, <2>1, <2>2, WorkerStep
<1>4. CASE ~jobs[id].cancelled
  BY <1>1, <1>2, <1>4, WorkerStep DEF StartJob
<1> QED
  BY <1>3, <1>4

LEMMA FinishJobStep ==
  ASSUME RenderingInv, NEW id, FinishJob(id)
  PROVE  RenderingInv'
<1>1. /\ id \in DOMAIN jobs /\ jobs[id].stage = "meshing"
      /\ disturbances \in 0..MaxDisturbances /\ "succeeded" \in ResultStates
      /\ jobs' = [jobs EXCEPT ![id].stage = "done"]
      /\ mailbox' = Append(mailbox, [id |-> id, state |-> "succeeded"])
  BY DEF FinishJob, RenderingInv, RenderingTypeOK, ResultStates
<1>2. UNCHANGED <<shownVars, camera, palette, table, entry, pending, uploads, frame, disturbances>>
  BY DEF FinishJob, inputVars
<1> QED
  BY <1>1, <1>2, WorkerStep

\* Disturbances are capped.
LEMMA DisturbType ==
  ASSUME RenderingTypeOK, Disturb
  PROVE  disturbances' \in 0..MaxDisturbances
<1>1. disturbances \in 0..MaxDisturbances /\ MaxDisturbances \in Nat
  BY RenderingAssumption DEF RenderingTypeOK
<1> QED
  BY <1>1 DEF Disturb

LEMMA FailJobStep ==
  ASSUME RenderingInv, NEW id, FailJob(id)
  PROVE  RenderingInv'
<1>1. /\ id \in DOMAIN jobs /\ jobs[id].stage = "meshing"
      /\ disturbances' \in 0..MaxDisturbances /\ "failed" \in ResultStates
      /\ jobs' = [jobs EXCEPT ![id].stage = "done"]
      /\ mailbox' = Append(mailbox, [id |-> id, state |-> "failed"])
  BY DisturbType DEF FailJob, RenderingInv, ResultStates
<1>2. UNCHANGED <<shownVars, camera, palette, table, entry, pending, uploads, frame>>
  BY DEF FailJob
<1> QED
  BY <1>1, <1>2, WorkerStep

-----------------------------------------------------------------------------
(* The steps of a frame.                                                      *)

\* What is carried when nothing is added to it.
LEMMA CarriedKept ==
  ASSUME \A id \in DOMAIN jobs' : id \in DOMAIN jobs /\ jobs'[id].mesh = jobs[id].mesh,
         \A id \in DOMAIN uploads' : id \in DOMAIN uploads /\ uploads'[id] = uploads[id],
         frame'.results = <<>> \/ frame'.results = frame.results
  PROVE  \A p \in Carried' : p \in Carried
<1>1. CASE frame'.results = <<>>
  <2>1. DOMAIN frame'.results = {}
    BY <1>1
  <2> QED
    BY <2>1 DEF Carried
<1>2. CASE frame'.results = frame.results
  BY <1>2 DEF Carried
<1> QED
  BY <1>1, <1>2

\* What is under way when a frame holds no results.
LEMMA NothingInFlight ==
  ASSUME frame.results = <<>>
  PROVE  UnderWay = pending \cup DOMAIN jobs \cup DOMAIN uploads
<1>1. DOMAIN frame.results = {}
  OBVIOUS
<1> QED
  BY <1>1 DEF UnderWay

\* A frame begins with every loaded chunk still to be looked at.
LEMMA RefreshRenderTableStep ==
  ASSUME RenderingInv, RefreshRenderTable
  PROVE  RenderingInv'
<1>1. /\ RenderingTypeOK /\ CacheIsFinite /\ MailboxAgrees
      /\ Loaded \subseteq Coords /\ World!ChunksTypeOK
  BY ChunkFacts DEF RenderingInv, RenderingTypeOK
<1>2. /\ shownChunks' = shownChunks /\ shownEditLog' = shownEditLog
      /\ shownMeshRegions' = shownMeshRegions /\ shownNextGeneration' = shownNextGeneration
      /\ camera' = camera /\ palette' = palette /\ disturbances' = disturbances
      /\ entry' = entry /\ mailbox' = mailbox /\ GoTo("reconcile", Loaded)
  BY DEF RefreshRenderTable, shownVars
<1>3. /\ frame'.at = "reconcile" /\ frame'.todo = Loaded /\ frame'.results = <<>>
      /\ frame' \in [at : FramePhases, todo : {frame'.todo}, scheduled : Nat, copied : Nat,
                     results : Seq([id : Identities, state : ResultStates, mesh : Meshes])]
  BY <1>2, GoToEffect DEF FramePhases
<1>4. SameWorld /\ Loaded' = Loaded
  BY <1>2, UnchangedWorld DEF SameWorld
<1>5. table' = palette
  BY DEF RefreshRenderTable
<1>6. /\ pending' \subseteq Identities
      /\ DOMAIN uploads' \subseteq DOMAIN uploads
      /\ \A id \in DOMAIN uploads' : uploads'[id] = uploads[id]
      /\ uploads' \in [DOMAIN uploads' -> Meshes]
  <2>1. pending \subseteq Identities /\ uploads \in [DOMAIN uploads -> Meshes]
    BY <1>1 DEF RenderingTypeOK
  <2>2. CASE table = palette
    BY <2>1, <2>2 DEF RefreshRenderTable
  <2>3. CASE table # palette
    <3>1. /\ pending' = pending \cup {Identity(c) : c \in NearChunks}
          /\ uploads' = [id \in {} |-> id]
      BY <2>3 DEF RefreshRenderTable
    <3>2. \A c \in NearChunks : Identity(c) \in Identities
      BY <1>1, ChunkFacts DEF NearChunks
    <3> QED
      BY <2>1, <3>1, <3>2
  <2> QED
    BY <2>2, <2>3
<1>7. /\ DOMAIN jobs' = DOMAIN jobs /\ \A i \in DOMAIN jobs : jobs'[i].mesh = jobs[i].mesh
      /\ MailboxAgrees' /\ IsFiniteSet(DOMAIN jobs)'
      /\ DOMAIN jobs' \subseteq Identities /\ jobs' \in [DOMAIN jobs' -> Jobs]
      /\ Cardinality(DOMAIN jobs') <= MaxJobs
      /\ mailbox' \in Seq([id : DOMAIN jobs', state : ResultStates])
  <2>1. CASE table = palette
    <3>1. jobs' = jobs
      BY <2>1 DEF RefreshRenderTable
    <3> QED
      BY <1>1, <1>2, <3>1 DEF RenderingTypeOK, MailboxAgrees, CacheIsFinite
  <2>2. CASE table # palette
    <3>1. jobs' = CancelAll(jobs, DOMAIN jobs)
      BY <2>2 DEF RefreshRenderTable
    <3> QED
      BY <1>1, <1>2, <3>1, CancelledJobs
  <2> QED
    BY <2>1, <2>2
<1>8. RenderingTypeOK'
  <2>1. DOMAIN uploads' \subseteq Identities
    BY <1>1, <1>6 DEF RenderingTypeOK
  <2>2. frame'.todo \subseteq IF At("schedule")' THEN Identities ELSE Coords
    BY <1>1, <1>3 DEF At
  <2> QED
    BY <1>1, <1>2, <1>3, <1>5, <1>6, <1>7, <2>1, <2>2
    DEF RenderingTypeOK, World!ChunksTypeOK, World!Resident
<1>9. \A p \in Carried' : p \in Carried
  BY <1>3, <1>6, <1>7, CarriedKept
<1>10. GenerationsArePast' /\ MeshesAreSound' /\ CleanMeshesAreShown'
  BY <1>2, <1>8, <1>9, KeptParts
<1>11. FrameAgrees'
  BY <1>2, <1>3, <1>4, <1>5 DEF FrameAgrees, At
<1>12. NothingIsForgotten'
  BY <1>3, <1>4 DEF NothingIsForgotten, NearChunks, At
<1> QED
  BY <1>1, <1>2, <1>7, <1>8, <1>10, <1>11, <1>12 DEF RenderingInv, CacheIsFinite

\* A step that takes the frame on, and at most finds more to snapshot.
LEMMA PassingStep ==
  ASSUME RenderingInv, NEW phase \in FramePhases, NEW todo, GoTo(phase, todo),
         ~At("idle"), ~At("reconcile"), phase # "reconcile",
         frame.results = <<>>,
         todo \subseteq IF phase = "schedule" THEN Identities ELSE Coords,
         UNCHANGED <<shownChunks, shownEditLog, shownNextGeneration, camera, palette, table,
                     disturbances, entry, jobs, mailbox, uploads>>,
         shownMeshRegions' \subseteq Coords,
         pending \subseteq pending', pending' \subseteq Identities,
         FrameAgrees'
  PROVE  RenderingInv'
<1>1. /\ RenderingTypeOK /\ CacheIsFinite /\ MailboxAgrees /\ NothingIsForgotten
      /\ World!ChunksTypeOK
  BY DEF RenderingInv, RenderingTypeOK
<1>2. /\ frame'.at = phase /\ frame'.todo = todo /\ frame'.results = <<>>
      /\ frame' \in [at : FramePhases, todo : {frame'.todo}, scheduled : Nat, copied : Nat,
                     results : Seq([id : Identities, state : ResultStates, mesh : Meshes])]
  BY GoToEffect
<1>3. SameWorld /\ Loaded' = Loaded
  BY UnchangedWorld DEF SameWorld
<1>4. RenderingTypeOK'
  BY <1>1, <1>2 DEF RenderingTypeOK, World!ChunksTypeOK, World!Resident, At
<1>5. \A p \in Carried' : p \in Carried
  BY <1>2, CarriedKept
<1>6. GenerationsArePast' /\ MeshesAreSound' /\ CleanMeshesAreShown'
  BY <1>4, <1>5, KeptParts
<1>7. NothingIsForgotten'
  <2>1. UnderWay \subseteq UnderWay'
    BY <1>2 DEF UnderWay
  <2>2. ASSUME NEW c \in NearChunks
        PROVE  Attended(c)'
    <3>1. c \in Loaded /\ Attended(c)
      BY <1>1, <2>2 DEF NothingIsForgotten, NearChunks
    <3>2. c \in DOMAIN entry
      BY <1>1, <3>1, ChunkFacts DEF Attended, IsCached
    <3>3. World!ChunksTypeOK'
      BY <1>4 DEF RenderingTypeOK
    <3> QED
      BY <1>1, <1>3, <2>1, <3>1, <3>2, <3>3, AttendedKept
  <2>3. NearChunks' = NearChunks
    BY <1>3 DEF NearChunks, NearCamera
  <2> QED
    BY <2>2, <2>3 DEF NothingIsForgotten
<1> QED
  BY <1>1, <1>4, <1>6, <1>7 DEF RenderingInv, CacheIsFinite, MailboxAgrees

LEMMA ConsumeDirtyRegionsStep ==
  ASSUME RenderingInv, ConsumeDirtyRegions
  PROVE  RenderingInv'
<1>1. /\ At("regions") /\ GoTo("distance", {}) /\ shownMeshRegions' = {}
      /\ pending \subseteq pending'
      /\ shownChunks' = shownChunks /\ shownEditLog' = shownEditLog
      /\ shownNextGeneration' = shownNextGeneration
      /\ camera' = camera /\ palette' = palette /\ table' = table
      /\ disturbances' = disturbances /\ entry' = entry /\ jobs' = jobs
      /\ mailbox' = mailbox /\ uploads' = uploads
  BY DEF ConsumeDirtyRegions
<1>2. RenderingTypeOK /\ World!ChunksTypeOK /\ FrameAgrees
  BY DEF RenderingInv, RenderingTypeOK
<1>3. pending' \subseteq Identities
  <2>1. \A c \in Loaded : Identity(c) \in Identities
    BY <1>2, ChunkFacts
  <2>2. pending \subseteq Identities
    BY <1>2 DEF RenderingTypeOK
  <2> QED
    BY <2>1, <2>2 DEF ConsumeDirtyRegions
<1>4. frame.results = <<>>
  BY <1>1, <1>2 DEF FrameAgrees, At
<1>5. FrameAgrees'
  <2>1. frame'.at = "distance" /\ frame'.results = <<>>
    BY <1>1, GoToEffect DEF FramePhases
  <2>2. Loaded' = Loaded
    BY <1>1 DEF Loaded, World!Resident
  <2> QED
    BY <1>1, <1>2, <2>1, <2>2 DEF FrameAgrees, At
<1> QED
  BY <1>1, <1>3, <1>4, <1>5, PassingStep DEF At, FramePhases

LEMMA ResultsDoneStep ==
  ASSUME RenderingInv, ResultsDone
  PROVE  RenderingInv'
<1>1. At("results") /\ frame.results = <<>> /\ GoTo("upload", {})
  BY DEF ResultsDone
<1>2. UNCHANGED <<shownChunks, shownEditLog, shownMeshRegions, shownNextGeneration, camera,
                  palette, table, disturbances, entry, pending, jobs, mailbox, uploads>>
  BY DEF ResultsDone, inputVars, meshVars, shownVars
<1>3. FrameAgrees /\ pending \subseteq Identities /\ shownMeshRegions \subseteq Coords
  BY DEF RenderingInv, RenderingTypeOK, World!ChunksTypeOK
<1>4. FrameAgrees'
  <2>1. frame'.at = "upload" /\ frame'.results = <<>>
    BY <1>1, GoToEffect DEF FramePhases
  <2>2. Loaded' = Loaded
    BY <1>2 DEF Loaded, World!Resident
  <2> QED
    BY <1>1, <1>2, <1>3, <2>1, <2>2 DEF FrameAgrees, At, ResidentMeshes, NearCamera
<1> QED
  BY <1>1, <1>2, <1>3, <1>4, PassingStep DEF At, FramePhases

LEMMA BudgetMetStep ==
  ASSUME RenderingInv, BudgetMet
  PROVE  RenderingInv'
<1>1. At("budget") /\ GoTo("schedule", pending) /\ ResidentBytes(entry) <= TerrainBudget
  BY DEF BudgetMet, OverBudget
<1>2. UNCHANGED <<shownChunks, shownEditLog, shownMeshRegions, shownNextGeneration, camera,
                  palette, table, disturbances, entry, pending, jobs, mailbox, uploads>>
  BY DEF BudgetMet, inputVars, meshVars, shownVars
<1>3. FrameAgrees /\ pending \subseteq Identities /\ shownMeshRegions \subseteq Coords
  BY DEF RenderingInv, RenderingTypeOK, World!ChunksTypeOK
<1>4. frame.results = <<>>
  BY <1>1, <1>3 DEF FrameAgrees, At
<1>5. FrameAgrees'
  <2>1. frame'.at = "schedule" /\ frame'.results = <<>>
    BY <1>1, GoToEffect DEF FramePhases
  <2>2. Loaded' = Loaded
    BY <1>2 DEF Loaded, World!Resident
  <2>3. ResidentMeshes(entry)' = ResidentMeshes(entry) /\ ResidentBytes(entry)' <= TerrainBudget
    BY <1>1, <1>2
  <2> QED
    BY <1>1, <1>2, <1>3, <2>1, <2>2, <2>3 DEF FrameAgrees, At, NearCamera
<1> QED
  BY <1>1, <1>2, <1>3, <1>4, <1>5, PassingStep DEF At, FramePhases

LEMMA ScheduleDoneStep ==
  ASSUME RenderingInv, ScheduleDone
  PROVE  RenderingInv'
<1>1. At("schedule") /\ GoTo("draw", {})
  BY DEF ScheduleDone
<1>2. UNCHANGED <<shownChunks, shownEditLog, shownMeshRegions, shownNextGeneration, camera,
                  palette, table, disturbances, entry, pending, jobs, mailbox, uploads>>
  BY DEF ScheduleDone, inputVars, meshVars, shownVars
<1>3. FrameAgrees /\ pending \subseteq Identities /\ shownMeshRegions \subseteq Coords
  BY DEF RenderingInv, RenderingTypeOK, World!ChunksTypeOK
<1>4. frame.results = <<>>
  BY <1>1, <1>3 DEF FrameAgrees, At
<1>5. FrameAgrees'
  <2>1. frame'.at = "draw" /\ frame'.results = <<>>
    BY <1>1, GoToEffect DEF FramePhases
  <2>2. Loaded' = Loaded
    BY <1>2 DEF Loaded, World!Resident
  <2>3. ResidentBytes(entry) <= TerrainBudget
    BY <1>1, <1>3 DEF FrameAgrees, At
  <2>4. ResidentMeshes(entry)' = ResidentMeshes(entry) /\ ResidentBytes(entry)' <= TerrainBudget
    BY <1>2, <2>3
  <2> QED
    BY <1>1, <1>2, <1>3, <2>1, <2>2, <2>4 DEF FrameAgrees, At, NearCamera
<1> QED
  BY <1>1, <1>2, <1>3, <1>4, <1>5, PassingStep DEF At, FramePhases

\* The size of a mesh is a number.
LEMMA BytesType ==
  ASSUME NEW m \in Meshes \cup {None}
  PROVE  Bytes(m) \in Nat
<1>1. CASE m = None
  BY <1>1 DEF Bytes
<1>2. CASE m # None
  <2> DEFINE solid == {v \in Voxels : m.shown.own[v] # Air}
  <2>1. IsFiniteSet(Voxels)
    BY ChunkAssumption, FS_Interval DEF Voxels
  <2>2. IsFiniteSet(solid)
    BY <2>1, FS_Subset
  <2>3. Cardinality(solid) \in Nat
    BY <2>2, FS_CardinalityType
  <2> QED
    BY <1>2, <2>3 DEF Bytes
<1> QED
  BY <1>1, <1>2

\* A mesh that is released.
LEMMA ReleasedEffect ==
  ASSUME NEW e \in Entries, NEW suppressed \in BOOLEAN
  PROVE  LET r == Released(e, suppressed)
         IN /\ r \in Entries /\ r.state = "missing" /\ r.mesh = None
            /\ r.generation = e.generation /\ r.suppressed = suppressed
<1>1. Bytes(e.mesh) \in Nat
  BY BytesType DEF Entries
<1>2. Released(e, suppressed) =
          [e EXCEPT !.state = "missing", !.mesh = None, !.lastBytes = Bytes(e.mesh),
                    !.suppressed = suppressed]
  BY DEF Released
<1> QED
  BY <1>1, <1>2 DEF Entries

LEMMA EnforceDistanceStep ==
  ASSUME RenderingInv, EnforceDistance
  PROVE  RenderingInv'
<1>1. /\ At("distance") /\ GoTo("drain", {})
      /\ entry' = [c \in DOMAIN entry |->
                      IF entry[c].state = "resident" /\ ~NearCamera(c, RetainDistance)
                      THEN Released(entry[c], FALSE) ELSE entry[c]]
  BY DEF EnforceDistance
<1>2. UNCHANGED <<shownChunks, shownEditLog, shownMeshRegions, shownNextGeneration, camera,
                  palette, table, disturbances, pending, jobs, mailbox, uploads>>
  BY DEF EnforceDistance, inputVars, shownVars
<1>3. /\ RenderingTypeOK /\ CacheIsFinite /\ MailboxAgrees /\ NothingIsForgotten
      /\ World!ChunksTypeOK /\ FrameAgrees
      /\ DOMAIN entry \subseteq Coords /\ entry \in [DOMAIN entry -> Entries]
      /\ \A c \in DOMAIN entry : entry[c].state = "resident" <=> entry[c].mesh # None
      /\ camera.at \in Int
  BY RenderingAssumption DEF RenderingInv, RenderingTypeOK
<1>4. /\ frame'.at = "drain" /\ frame'.todo = {} /\ frame'.results = <<>>
      /\ frame' \in [at : FramePhases, todo : {frame'.todo}, scheduled : Nat, copied : Nat,
                     results : Seq([id : Identities, state : ResultStates, mesh : Meshes])]
  BY <1>1, GoToEffect DEF FramePhases
<1>5. SameWorld /\ Loaded' = Loaded
  BY <1>2, UnchangedWorld DEF SameWorld
<1>6. ASSUME NEW c \in DOMAIN entry
      PROVE  /\ entry'[c] \in Entries
             /\ entry'[c].generation = entry[c].generation
             /\ entry'[c].state = "resident" <=> entry'[c].mesh # None
             /\ entry'[c].state = "resident" =>
                    /\ entry[c].state = "resident" /\ entry'[c].mesh = entry[c].mesh
                    /\ NearCamera(c, RetainDistance)
             /\ NearCamera(c, RetainDistance) => entry'[c] = entry[c]
  <2>1. entry[c] \in Entries
    BY <1>3
  <2>2. CASE entry[c].state = "resident" /\ ~NearCamera(c, RetainDistance)
    <3>1. entry'[c] = Released(entry[c], FALSE)
      BY <1>1, <2>2
    <3> QED
      BY <2>1, <2>2, <3>1, ReleasedEffect
  <2>3. CASE ~(entry[c].state = "resident" /\ ~NearCamera(c, RetainDistance))
    <3>1. entry'[c] = entry[c]
      BY <1>1, <2>3
    <3> QED
      BY <1>3, <2>1, <2>3, <3>1
  <2> QED
    BY <2>2, <2>3
<1>7. DOMAIN entry' = DOMAIN entry
  BY <1>1
<1>8. entry' \in [DOMAIN entry' -> Entries]
  BY <1>1, <1>6, <1>7
<1>9. RenderingTypeOK'
  BY <1>2, <1>3, <1>4, <1>6, <1>7, <1>8
  DEF RenderingTypeOK, World!ChunksTypeOK, World!Resident, At
<1>10. \A p \in Carried' : p \in Carried
  BY <1>2, <1>4, CarriedKept
<1>11. GenerationsArePast' /\ MeshesAreSound' /\ CleanMeshesAreShown'
  BY <1>2, <1>6, <1>7, <1>9, <1>10, KeptParts
<1>12. FrameAgrees'
  <2>1. \A c \in DOMAIN entry' :
            c \in Loaded' /\ entry'[c].generation = shownChunks'[c].generation
    BY <1>1, <1>2, <1>3, <1>5, <1>6, <1>7 DEF FrameAgrees, At
  <2>2. table' = palette'
    BY <1>1, <1>2, <1>3 DEF FrameAgrees, At
  <2> QED
    BY <1>2, <1>4, <1>6, <1>7, <2>1, <2>2
    DEF FrameAgrees, At, ResidentMeshes, NearCamera
<1>13. NothingIsForgotten'
  <2>1. UnderWay \subseteq UnderWay'
    <3>1. frame.results = <<>>
      BY <1>1, <1>3 DEF FrameAgrees, At
    <3> QED
      BY <1>2, <3>1 DEF UnderWay
  <2>2. ASSUME NEW c \in NearChunks
        PROVE  Attended(c)'
    <3>1. c \in Loaded /\ Attended(c) /\ c \in Coords /\ Identity(c)[1] = c
      BY <1>1, <1>3, <2>2, ChunkFacts DEF NothingIsForgotten, NearChunks, At
    <3>2. c \in DOMAIN entry
      BY <3>1 DEF Attended, IsCached
    <3>3. NearCamera(c, RetainDistance)
      BY <1>3, <2>2, <3>1, ChunkAssumption, RenderingAssumption DEF NearChunks, NearCamera
    <3>4. World!ChunksTypeOK'
      BY <1>9 DEF RenderingTypeOK
    <3> QED
      BY <1>2, <1>3, <1>5, <1>6, <1>7, <2>1, <3>1, <3>2, <3>3, <3>4, AttendedKept
  <2>3. NearChunks' = NearChunks
    BY <1>2, <1>5 DEF NearChunks, NearCamera
  <2> QED
    BY <2>2, <2>3 DEF NothingIsForgotten
<1> QED
  BY <1>2, <1>3, <1>7, <1>9, <1>11, <1>12, <1>13 DEF RenderingInv, CacheIsFinite, MailboxAgrees

\* A set of values of a finite function is finite.
LEMMA FiniteImage ==
  ASSUME NEW S, IsFiniteSet(S), NEW f
  PROVE  IsFiniteSet({f[x] : x \in S})
<1> DEFINE g == [x \in S |-> f[x]]
           T == {f[x] : x \in S}
<1>1. g \in Surjection(S, T)
  BY DEF Surjection
<1> QED
  BY <1>1, FS_Surjection

\* The step ends the frame; what is drawn is renumbered.
LEMMA DrawStep ==
  ASSUME RenderingInv, Draw
  PROVE  RenderingInv'
<1> DEFINE others == {entry[c].seen : c \in DOMAIN entry \ Drawn} \ {0}
           Rank(n) == Cardinality({m \in others : m <= n})
<1>1. /\ At("draw") /\ GoTo("idle", {})
      /\ entry' = [c \in DOMAIN entry |->
                      [entry[c] EXCEPT !.seen = IF c \in Drawn THEN Cardinality(others) + 1
                                                ELSE Rank(@)]]
  BY DEF Draw
<1>2. UNCHANGED <<shownChunks, shownEditLog, shownMeshRegions, shownNextGeneration, camera,
                  palette, table, disturbances, pending, jobs, mailbox, uploads>>
  BY DEF Draw, inputVars, shownVars
<1>3. /\ RenderingTypeOK /\ CacheIsFinite /\ MailboxAgrees
      /\ World!ChunksTypeOK /\ FrameAgrees
      /\ DOMAIN entry \subseteq Coords /\ entry \in [DOMAIN entry -> Entries]
      /\ \A c \in DOMAIN entry : entry[c].state = "resident" <=> entry[c].mesh # None
  BY DEF RenderingInv, RenderingTypeOK
<1>4. /\ frame'.at = "idle" /\ frame'.todo = {} /\ frame'.results = <<>>
      /\ frame' \in [at : FramePhases, todo : {frame'.todo}, scheduled : Nat, copied : Nat,
                     results : Seq([id : Identities, state : ResultStates, mesh : Meshes])]
  BY <1>1, GoToEffect DEF FramePhases
<1>5. IsFiniteSet(others)
  <2> DEFINE f == [c \in DOMAIN entry |-> entry[c].seen]
             D == DOMAIN entry \ Drawn
  <2>1. IsFiniteSet(D)
    BY <1>3, FS_Difference DEF CacheIsFinite
  <2>2. {f[c] : c \in D} = {entry[c].seen : c \in D}
    OBVIOUS
  <2> HIDE DEF f
  <2>3. IsFiniteSet({f[c] : c \in D})
    BY <2>1, FiniteImage
  <2>4. IsFiniteSet({entry[c].seen : c \in D})
    BY <2>2, <2>3
  <2> QED
    BY <2>4, FS_Difference
<1>6. Cardinality(others) \in Nat /\ \A n : Rank(n) \in Nat
  <2>1. Cardinality(others) \in Nat
    BY <1>5, FS_CardinalityType
  <2>2. ASSUME NEW n
        PROVE  Rank(n) \in Nat
    <3>1. {m \in others : m <= n} \in SUBSET others
      OBVIOUS
    <3>2. IsFiniteSet({m \in others : m <= n})
      BY <1>5, <3>1, FS_Subset
    <3> QED
      BY <3>2, FS_CardinalityType
  <2> QED
    BY <2>1, <2>2
<1> HIDE DEF others, Rank
<1>7. ASSUME NEW c \in DOMAIN entry
      PROVE  /\ entry'[c] \in Entries
             /\ entry'[c].generation = entry[c].generation
             /\ entry'[c].state = entry[c].state /\ entry'[c].mesh = entry[c].mesh
  <2>1. entry[c] \in Entries
    BY <1>3
  <2>2. PICK seen \in Nat : entry'[c] = [entry[c] EXCEPT !.seen = seen]
    <3>1. entry'[c] = [entry[c] EXCEPT !.seen = IF c \in Drawn THEN Cardinality(others) + 1
                                                ELSE Rank(entry[c].seen)]
      BY <1>1
    <3>2. (IF c \in Drawn THEN Cardinality(others) + 1 ELSE Rank(entry[c].seen)) \in Nat
      BY <1>6
    <3> QED
      BY <3>1, <3>2
  <2> QED
    BY <2>1, <2>2 DEF Entries
<1>8. DOMAIN entry' = DOMAIN entry
  BY <1>1
<1>9. entry' \in [DOMAIN entry' -> Entries]
  BY <1>1, <1>7, <1>8
<1>10. RenderingTypeOK'
  BY <1>2, <1>3, <1>4, <1>7, <1>8, <1>9
  DEF RenderingTypeOK, World!ChunksTypeOK, World!Resident, At
<1>11. \A p \in Carried' : p \in Carried
  BY <1>2, <1>4, CarriedKept
<1>12. GenerationsArePast' /\ MeshesAreSound' /\ CleanMeshesAreShown'
  BY <1>2, <1>7, <1>8, <1>10, <1>11, KeptParts
<1>13. FrameAgrees' /\ NothingIsForgotten'
  BY <1>4 DEF FrameAgrees, NothingIsForgotten, At
<1> QED
  BY <1>2, <1>3, <1>8, <1>10, <1>12, <1>13 DEF RenderingInv, CacheIsFinite, MailboxAgrees

\* Between frames the camera and the palette change freely.
LEMMA ViewChange ==
  ASSUME RenderingInv, At("idle"), Disturb,
         UNCHANGED <<shownVars, table, meshVars, frame>>,
         camera' \in Cameras, palette' \in Nat
  PROVE  RenderingInv'
<1>1. /\ RenderingTypeOK /\ CacheIsFinite /\ MailboxAgrees /\ FrameAgrees
      /\ disturbances' \in 0..MaxDisturbances
  BY DisturbType DEF RenderingInv
<1>2. UNCHANGED <<shownChunks, shownEditLog, shownMeshRegions, shownNextGeneration, table, entry,
                  pending, jobs, mailbox, uploads, frame>>
  BY DEF meshVars, shownVars
<1>3. RenderingTypeOK'
  BY <1>1, <1>2 DEF RenderingTypeOK, World!ChunksTypeOK, World!Resident, At
<1>4. \A p \in Carried' : p \in Carried
  BY <1>2, CarriedKept
<1>5. GenerationsArePast' /\ MeshesAreSound' /\ CleanMeshesAreShown'
  BY <1>2, <1>3, <1>4, KeptParts
<1>6. FrameAgrees' /\ NothingIsForgotten'
  BY <1>1, <1>2 DEF FrameAgrees, NothingIsForgotten, At
<1> QED
  BY <1>1, <1>2, <1>3, <1>5, <1>6 DEF RenderingInv, CacheIsFinite, MailboxAgrees

LEMMA MoveCameraStep ==
  ASSUME RenderingInv, NEW p \in Cameras, MoveCamera(p)
  PROVE  RenderingInv'
<1>1. /\ At("idle") /\ Disturb /\ camera' = p /\ palette' = palette
      /\ UNCHANGED <<shownVars, table, meshVars, frame>>
  BY DEF MoveCamera, Change, At, meshVars
<1>2. palette \in Nat
  BY DEF RenderingInv, RenderingTypeOK
<1> QED
  BY <1>1, <1>2, ViewChange

LEMMA ChangePaletteStep ==
  ASSUME RenderingInv, ChangePalette
  PROVE  RenderingInv'
<1>1. /\ At("idle") /\ Disturb /\ camera' = camera /\ palette' = palette + 1
      /\ UNCHANGED <<shownVars, table, meshVars, frame>>
  BY DEF ChangePalette, Change, At, meshVars
<1>2. palette \in Nat /\ camera \in Cameras
  BY DEF RenderingInv, RenderingTypeOK
<1> QED
  BY <1>1, <1>2, ViewChange

\* What restricting the uploads leaves of them.
LEMMA FewerUploads ==
  ASSUME RenderingTypeOK, NEW S, S \subseteq DOMAIN uploads, uploads' = Restrict(uploads, S)
  PROVE  /\ DOMAIN uploads' = S /\ \A id \in S : uploads'[id] = uploads[id]
         /\ DOMAIN uploads' \subseteq Identities /\ uploads' \in [DOMAIN uploads' -> Meshes]
<1>1. DOMAIN uploads \subseteq Identities /\ uploads \in [DOMAIN uploads -> Meshes]
  BY DEF RenderingTypeOK
<1>2. uploads' = [id \in S |-> uploads[id]]
  BY DEF Restrict
<1> QED
  BY <1>1, <1>2

\* Once every loaded chunk has been looked at, what is cached of others goes.
LEMMA ReconcileUnloadedStep ==
  ASSUME RenderingInv, ReconcileUnloaded
  PROVE  RenderingInv'
<1> DEFINE ids == {id \in {<<c, entry[c].generation>> : c \in DOMAIN entry} : ~IsLoaded(id)}
           kept == {c \in DOMAIN entry : <<c, entry[c].generation>> \notin ids}
<1>1. /\ At("reconcile") /\ frame.todo = {} /\ GoTo("regions", {})
      /\ jobs' = CancelAll(jobs, ids) /\ pending' = pending \ ids
      /\ uploads' = Restrict(uploads, DOMAIN uploads \ ids) /\ entry' = Restrict(entry, kept)
  BY DEF ReconcileUnloaded, Forget
<1>2. UNCHANGED <<shownChunks, shownEditLog, shownMeshRegions, shownNextGeneration, camera,
                  palette, table, disturbances, mailbox>>
  BY DEF ReconcileUnloaded, inputVars, shownVars
<1>3. /\ RenderingTypeOK /\ CacheIsFinite /\ MailboxAgrees /\ NothingIsForgotten
      /\ World!ChunksTypeOK /\ FrameAgrees
      /\ DOMAIN entry \subseteq Coords /\ entry \in [DOMAIN entry -> Entries]
      /\ \A c \in DOMAIN entry : entry[c].state = "resident" <=> entry[c].mesh # None
      /\ pending \subseteq Identities
  BY DEF RenderingInv, RenderingTypeOK
<1>4. /\ frame'.at = "regions" /\ frame'.todo = {} /\ frame'.results = <<>>
      /\ frame' \in [at : FramePhases, todo : {frame'.todo}, scheduled : Nat, copied : Nat,
                     results : Seq([id : Identities, state : ResultStates, mesh : Meshes])]
  BY <1>1, GoToEffect DEF FramePhases
<1>5. SameWorld /\ Loaded' = Loaded
  BY <1>2, UnchangedWorld DEF SameWorld
<1>6. /\ DOMAIN jobs' = DOMAIN jobs /\ \A i \in DOMAIN jobs : jobs'[i].mesh = jobs[i].mesh
      /\ MailboxAgrees' /\ IsFiniteSet(DOMAIN jobs)'
      /\ DOMAIN jobs' \subseteq Identities /\ jobs' \in [DOMAIN jobs' -> Jobs]
      /\ Cardinality(DOMAIN jobs') <= MaxJobs
      /\ mailbox' \in Seq([id : DOMAIN jobs', state : ResultStates])
  BY <1>1, <1>2, <1>3, CancelledJobs
<1>7. /\ DOMAIN uploads' = DOMAIN uploads \ ids
      /\ \A id \in DOMAIN uploads' : uploads'[id] = uploads[id]
      /\ DOMAIN uploads' \subseteq Identities /\ uploads' \in [DOMAIN uploads' -> Meshes]
  BY <1>1, <1>3, FewerUploads
<1>8. DOMAIN entry' = kept /\ \A c \in kept : entry'[c] = entry[c]
  BY <1>1 DEF Restrict
<1>9. entry' \in [DOMAIN entry' -> Entries]
  <2>1. entry' = [c \in kept |-> entry[c]]
    BY <1>1 DEF Restrict
  <2> QED
    BY <1>3, <2>1
<1>10. \A c \in kept : c \in Loaded /\ entry[c].generation = shownChunks[c].generation
  BY DEF IsLoaded, Identity
<1>11. \A c \in Loaded : Identity(c) \notin ids
  <2>1. \A c \in Loaded : IsLoaded(Identity(c))
    BY DEF IsLoaded, Identity
  <2> QED
    BY <2>1
<1>12. kept \subseteq DOMAIN entry
  OBVIOUS
<1>13. IsFiniteSet(DOMAIN entry)'
  BY <1>3, <1>8, <1>12, FS_Subset DEF CacheIsFinite
<1> HIDE DEF ids, kept
<1>14. RenderingTypeOK'
  <2>1. /\ DOMAIN entry' \subseteq Coords /\ pending' \subseteq Identities
        /\ \A c \in DOMAIN entry' : entry'[c].state = "resident" <=> entry'[c].mesh # None
    BY <1>1, <1>3, <1>8, <1>12
  <2> QED
    BY <1>2, <1>3, <1>4, <1>6, <1>7, <1>9, <2>1
    DEF RenderingTypeOK, World!ChunksTypeOK, World!Resident, At
<1>15. \A p \in Carried' : p \in Carried
  BY <1>4, <1>6, <1>7, CarriedKept
<1>16. GenerationsArePast' /\ MeshesAreSound' /\ CleanMeshesAreShown'
  BY <1>2, <1>8, <1>12, <1>14, <1>15, KeptParts
<1>17. FrameAgrees'
  <2>1. table' = palette'
    BY <1>1, <1>2, <1>3 DEF FrameAgrees, At
  <2> QED
    BY <1>2, <1>4, <1>5, <1>8, <1>10, <2>1 DEF FrameAgrees, At
<1>18. NothingIsForgotten'
  <2>1. UnderWay = pending \cup DOMAIN jobs \cup DOMAIN uploads
    BY <1>1, <1>3, NothingInFlight DEF FrameAgrees, At
  <2>2. ASSUME NEW c \in NearChunks
        PROVE  Attended(c)'
    <3>1. c \in Loaded /\ Attended(c) /\ Identity(c) \notin ids
      BY <1>1, <1>3, <1>11, <2>2 DEF NothingIsForgotten, NearChunks, At
    <3>2. c \in kept
      <4>1. c \in DOMAIN entry /\ Identity(c) = <<c, entry[c].generation>>
        BY <3>1 DEF Attended, IsCached, Identity
      <4> QED
        BY <3>1, <4>1 DEF kept
    <3>3. Identity(c) \in UnderWay => Identity(c) \in UnderWay'
      <4>1. pending' \cup DOMAIN jobs' \cup DOMAIN uploads' \subseteq UnderWay'
        BY DEF UnderWay
      <4> QED
        BY <1>1, <1>6, <1>7, <2>1, <3>1, <4>1
    <3>4. World!ChunksTypeOK'
      BY <1>14 DEF RenderingTypeOK
    <3> QED
      BY <1>2, <1>3, <1>5, <1>8, <3>1, <3>2, <3>3, <3>4, AttendedKept
  <2>3. NearChunks' = NearChunks
    BY <1>2, <1>5 DEF NearChunks, NearCamera
  <2> QED
    BY <2>2, <2>3 DEF NothingIsForgotten
<1> QED
  BY <1>6, <1>13, <1>14, <1>16, <1>17, <1>18 DEF RenderingInv, CacheIsFinite

LEMMA EnforceBudgetStep ==
  ASSUME RenderingInv, NEW c \in Coords, EnforceBudget(c)
  PROVE  RenderingInv'
<1> DEFINE id == <<c, entry[c].generation>>
<1>1. /\ At("budget") /\ c \in DOMAIN entry /\ entry[c].state = "resident"
      /\ entry' = [entry EXCEPT ![c] = Released(@, TRUE)]
      /\ jobs' = CancelAll(jobs, {id}) /\ pending' = pending \ {id}
      /\ uploads' = Restrict(uploads, DOMAIN uploads \ {id})
  BY DEF EnforceBudget, ResidentMeshes
<1>2. UNCHANGED <<shownChunks, shownEditLog, shownMeshRegions, shownNextGeneration, camera,
                  palette, table, disturbances, mailbox, frame>>
  BY DEF EnforceBudget, inputVars, shownVars
<1>3. /\ RenderingTypeOK /\ CacheIsFinite /\ MailboxAgrees /\ NothingIsForgotten
      /\ World!ChunksTypeOK /\ FrameAgrees
      /\ DOMAIN entry \subseteq Coords /\ entry \in [DOMAIN entry -> Entries]
      /\ \A d \in DOMAIN entry : entry[d].state = "resident" <=> entry[d].mesh # None
      /\ pending \subseteq Identities
  BY DEF RenderingInv, RenderingTypeOK
<1>4. SameWorld /\ Loaded' = Loaded
  BY <1>2, UnchangedWorld DEF SameWorld
<1>5. /\ DOMAIN jobs' = DOMAIN jobs /\ \A i \in DOMAIN jobs : jobs'[i].mesh = jobs[i].mesh
      /\ MailboxAgrees' /\ IsFiniteSet(DOMAIN jobs)'
      /\ DOMAIN jobs' \subseteq Identities /\ jobs' \in [DOMAIN jobs' -> Jobs]
      /\ Cardinality(DOMAIN jobs') <= MaxJobs
      /\ mailbox' \in Seq([id : DOMAIN jobs', state : ResultStates])
  BY <1>1, <1>2, <1>3, CancelledJobs
<1>6. /\ DOMAIN uploads' = DOMAIN uploads \ {id}
      /\ \A i \in DOMAIN uploads' : uploads'[i] = uploads[i]
      /\ DOMAIN uploads' \subseteq Identities /\ uploads' \in [DOMAIN uploads' -> Meshes]
  BY <1>1, <1>3, FewerUploads
<1>7. /\ DOMAIN entry' = DOMAIN entry /\ \A d \in DOMAIN entry \ {c} : entry'[d] = entry[d]
      /\ entry'[c] \in Entries /\ entry'[c].state = "missing" /\ entry'[c].mesh = None
      /\ entry'[c].generation = entry[c].generation /\ entry'[c].suppressed = TRUE
  <2>1. entry'[c] = Released(entry[c], TRUE) /\ entry[c] \in Entries
    BY <1>1, <1>3
  <2> QED
    BY <1>1, <1>3, <2>1, ReleasedEffect
<1>8. entry' \in [DOMAIN entry' -> Entries]
  BY <1>1, <1>3, <1>7
<1> HIDE DEF id
<1>9. RenderingTypeOK'
  <2>1. /\ DOMAIN entry' \subseteq Coords /\ pending' \subseteq Identities
        /\ \A d \in DOMAIN entry' : entry'[d].state = "resident" <=> entry'[d].mesh # None
    BY <1>1, <1>3, <1>7
  <2> QED
    BY <1>2, <1>3, <1>5, <1>6, <1>8, <2>1
    DEF RenderingTypeOK, World!ChunksTypeOK, World!Resident, At
<1>10. \A p \in Carried' : p \in Carried
  BY <1>2, <1>5, <1>6, CarriedKept
<1>11. \A d \in DOMAIN entry' :
           /\ d \in DOMAIN entry /\ entry'[d].generation = entry[d].generation
           /\ entry'[d].state = "resident" =>
                  entry[d].state = "resident" /\ entry'[d].mesh = entry[d].mesh
  <2>1. \A d \in DOMAIN entry : d = c \/ entry'[d] = entry[d]
    BY <1>7
  <2>2. entry'[c].state # "resident"
    BY <1>7
  <2> QED
    BY <1>7, <2>1, <2>2
<1>12. GenerationsArePast' /\ MeshesAreSound' /\ CleanMeshesAreShown'
  BY <1>2, <1>9, <1>10, <1>11, KeptParts
<1>13. FrameAgrees'
  <2>1. frame' = frame /\ frame.at = "budget" /\ frame.results = <<>> /\ table' = palette'
    BY <1>1, <1>2, <1>3 DEF FrameAgrees, At
  <2>2. \A d \in DOMAIN entry' : d \in Loaded' /\ entry'[d].generation = shownChunks'[d].generation
    BY <1>2, <1>3, <1>4, <1>11, <2>1 DEF FrameAgrees
  <2>3. \A d \in ResidentMeshes(entry)' : d \in ResidentMeshes(entry)
    BY <1>11 DEF ResidentMeshes
  <2>4. \A d \in ResidentMeshes(entry)' : NearCamera(d, RetainDistance)'
    BY <1>2, <1>3, <2>1, <2>3 DEF FrameAgrees, NearCamera
  <2> QED
    BY <2>1, <2>2, <2>4 DEF FrameAgrees, At
<1>14. NothingIsForgotten'
  <2>1. UnderWay = pending \cup DOMAIN jobs \cup DOMAIN uploads
    BY <1>1, <1>3, NothingInFlight DEF FrameAgrees, At
  <2>2. ASSUME NEW d \in NearChunks
        PROVE  Attended(d)'
    <3>1. d \in Loaded /\ Attended(d) /\ Identity(d)[1] = d
      BY <1>1, <1>3, <2>2, ChunkFacts DEF NothingIsForgotten, NearChunks, At
    <3>2. d \in DOMAIN entry /\ entry[d].generation = Identity(d)[2]
      BY <3>1 DEF Attended, IsCached
    <3>3. World!ChunksTypeOK'
      BY <1>9 DEF RenderingTypeOK
    <3>4. CASE d = c
      <4>1. Identity(c)' = Identity(c)
        BY <1>3, <1>4, <3>1, <3>3, <3>4, StandingWorld
      <4>2. IsCached(Identity(c))'
        BY <1>7, <3>1, <3>2, <3>4, <4>1 DEF IsCached
      <4> QED
        BY <1>7, <3>4, <4>2 DEF Attended
    <3>5. CASE d # c
      <4>1. Identity(d) # id
        BY <3>1, <3>5 DEF id
      <4>2. Identity(d) \in UnderWay => Identity(d) \in UnderWay'
        <5>1. pending' \cup DOMAIN jobs' \cup DOMAIN uploads' \subseteq UnderWay'
          BY DEF UnderWay
        <5> QED
          BY <1>1, <1>5, <1>6, <2>1, <4>1, <5>1
      <4>3. entry'[d] = entry[d] /\ d \in DOMAIN entry'
        BY <1>7, <3>2, <3>5
      <4> QED
        BY <1>2, <1>3, <1>4, <3>1, <3>3, <4>2, <4>3, AttendedKept
    <3> QED
      BY <3>4, <3>5
  <2>3. NearChunks' = NearChunks
    BY <1>2, <1>4 DEF NearChunks, NearCamera
  <2> QED
    BY <2>2, <2>3 DEF NothingIsForgotten
<1> QED
  BY <1>3, <1>5, <1>7, <1>9, <1>12, <1>13, <1>14 DEF RenderingInv, CacheIsFinite

\* What a frame takes from the mailbox, and what stays there.
LEMMA DrainEffect ==
  ASSUME RenderingTypeOK, CacheIsFinite, MailboxAgrees, DrainCompleted
  PROVE  /\ DOMAIN jobs' \subseteq DOMAIN jobs /\ \A i \in DOMAIN jobs' : jobs'[i] = jobs[i]
         /\ MailboxAgrees' /\ IsFiniteSet(DOMAIN jobs)'
         /\ DOMAIN jobs' \subseteq Identities /\ jobs' \in [DOMAIN jobs' -> Jobs]
         /\ Cardinality(DOMAIN jobs') <= MaxJobs
         /\ mailbox' \in Seq([id : DOMAIN jobs', state : ResultStates])
         /\ frame'.at = "results" /\ frame'.todo = {}
         /\ frame' \in [at : FramePhases, todo : {frame'.todo}, scheduled : Nat, copied : Nat,
                        results : Seq([id : Identities, state : ResultStates, mesh : Meshes])]
         /\ \A i \in DOMAIN frame'.results :
                /\ frame'.results[i].id \in DOMAIN jobs
                /\ frame'.results[i].mesh = jobs[frame'.results[i].id].mesh
         /\ DOMAIN jobs \subseteq
                DOMAIN jobs' \cup {frame'.results[i].id : i \in DOMAIN frame'.results}
<1> DEFINE n == IF Len(mailbox) < DrainedPerFrame THEN Len(mailbox) ELSE DrainedPerFrame
           taken == SubSeq(mailbox, 1, n)
           rest == SubSeq(mailbox, n + 1, Len(mailbox))
           gone == {taken[i].id : i \in 1..n}
           Result(i) == [id |-> taken[i].id, state |-> taken[i].state,
                         mesh |-> jobs[taken[i].id].mesh]
           results == [i \in 1..n |-> Result(i)]
           posts == [id : DOMAIN jobs, state : ResultStates]
<1>1. /\ mailbox' = rest
      /\ frame' = [at |-> "results", todo |-> {}, scheduled |-> 0, copied |-> 0, results |-> results]
      /\ jobs' = Restrict(jobs, DOMAIN jobs \ gone)
  BY DEF DrainCompleted
<1>2. /\ mailbox \in Seq(posts) /\ jobs \in [DOMAIN jobs -> Jobs]
      /\ DOMAIN jobs \subseteq Identities /\ Cardinality(DOMAIN jobs) <= MaxJobs
      /\ IsFiniteSet(DOMAIN jobs) /\ MaxJobs \in Nat
  BY RenderingAssumption DEF RenderingTypeOK, CacheIsFinite
<1>3. /\ Len(mailbox) \in Nat /\ n \in 0..Len(mailbox)
      /\ DOMAIN mailbox = 1..Len(mailbox)
      /\ \A i \in 1..Len(mailbox) : mailbox[i] \in posts
  <2>1. DrainedPerFrame \in Nat
    BY RenderingAssumption
  <2>2. Len(mailbox) \in Nat /\ mailbox \in [1..Len(mailbox) -> posts]
    BY <1>2, LenProperties
  <2> QED
    BY <2>1, <2>2
<1> HIDE DEF n
<1>4. \A i \in 1..n : taken[i] = mailbox[i]
  <2>1. \A i \in 1..n : mailbox[i] \in posts
    BY <1>3
  <2>2. \A i \in 1..(n - 1 + 1) : taken[i] = mailbox[1 + i - 1]
    BY <1>3, <2>1, SubSeqProperties
  <2>3. n \in Int /\ n - 1 + 1 = n
    BY <1>3
  <2> HIDE DEF taken
  <2>4. ASSUME NEW i \in 1..n
        PROVE  taken[i] = mailbox[i]
    <3>1. i \in 1..(n - 1 + 1) /\ 1 + i - 1 = i
      BY <2>3
    <3> QED
      BY <2>2, <3>1
  <2> QED
    BY <2>4
<1>5. /\ rest \in Seq(posts) /\ Len(rest) = Len(mailbox) - n
      /\ \A i \in 1..Len(rest) : rest[i] = mailbox[n + i]
  <2>1. \A i \in (n + 1)..Len(mailbox) : mailbox[i] \in posts
    BY <1>3
  <2>2. /\ rest \in Seq(posts)
        /\ Len(rest) = IF n + 1 <= Len(mailbox) THEN Len(mailbox) - (n + 1) + 1 ELSE 0
        /\ \A i \in 1..(Len(mailbox) - (n + 1) + 1) : rest[i] = mailbox[n + 1 + i - 1]
    BY <1>3, <2>1, SubSeqProperties
  <2> HIDE DEF rest
  <2>3. Len(rest) = Len(mailbox) - n
    <3>1. n \in Int /\ Len(mailbox) \in Int /\ n <= Len(mailbox)
      BY <1>3
    <3>2. Len(rest) = IF n + 1 <= Len(mailbox) THEN Len(mailbox) - (n + 1) + 1 ELSE 0
      BY <2>2
    <3>3. CASE n + 1 <= Len(mailbox)
      BY <3>1, <3>2, <3>3
    <3>4. CASE ~(n + 1 <= Len(mailbox))
      BY <3>1, <3>2, <3>4
    <3> QED
      BY <3>3, <3>4
  <2>4. ASSUME NEW i \in 1..Len(rest)
        PROVE  rest[i] = mailbox[n + i]
    <3>1. i \in 1..(Len(mailbox) - (n + 1) + 1) /\ n + 1 + i - 1 = n + i
      BY <1>3, <2>3
    <3> QED
      BY <2>2, <3>1
  <2> QED
    BY <2>2, <2>3, <2>4
<1> HIDE DEF taken, rest
<1>6. gone = {mailbox[i].id : i \in 1..n} /\ gone \subseteq DOMAIN jobs
  BY <1>3, <1>4
<1>7. \A i \in 1..Len(rest) : rest[i] \in [id : DOMAIN jobs \ gone, state : ResultStates]
  <2>1. ASSUME NEW i \in 1..Len(rest)
        PROVE  rest[i] \in [id : DOMAIN jobs \ gone, state : ResultStates]
    <3>1. /\ n + i \in 1..Len(mailbox) /\ rest[i] = mailbox[n + i]
          /\ \A j \in 1..n : j \in 1..Len(mailbox) /\ j # n + i
      BY <1>3, <1>5
    <3>2. rest[i] \in posts /\ rest[i].id \notin gone
      BY <1>3, <1>6, <3>1 DEF MailboxAgrees
    <3> QED
      BY <3>2
  <2> QED
    BY <2>1
<1>8. DOMAIN jobs' = DOMAIN jobs \ gone /\ \A i \in DOMAIN jobs' : jobs'[i] = jobs[i]
  BY <1>1 DEF Restrict
<1> HIDE DEF gone
<1>9. jobs' \in [DOMAIN jobs' -> Jobs]
  <2>1. jobs' = [i \in DOMAIN jobs \ gone |-> jobs[i]]
    BY <1>1 DEF Restrict
  <2> QED
    BY <1>2, <2>1
<1>10. IsFiniteSet(DOMAIN jobs') /\ Cardinality(DOMAIN jobs') <= MaxJobs
  <2>1. DOMAIN jobs' \in SUBSET DOMAIN jobs
    BY <1>8
  <2>2. /\ IsFiniteSet(DOMAIN jobs') /\ Cardinality(DOMAIN jobs') <= Cardinality(DOMAIN jobs)
        /\ Cardinality(DOMAIN jobs') \in Nat /\ Cardinality(DOMAIN jobs) \in Nat
    BY <1>2, <2>1, FS_Subset, FS_CardinalityType
  <2> QED
    BY <1>2, <2>2
<1>11. /\ mailbox' \in Seq([id : DOMAIN jobs', state : ResultStates])
       /\ DOMAIN mailbox' = 1..Len(rest)
  <2>1. rest \in [1..Len(rest) -> posts] /\ Len(rest) \in Nat
    BY <1>5, LenProperties
  <2>2. rest = [i \in 1..Len(rest) |-> rest[i]]
    BY <2>1
  <2>3. [i \in 1..Len(rest) |-> rest[i]] \in Seq([id : DOMAIN jobs', state : ResultStates])
    BY <1>7, <1>8, <2>1, IsASeq
  <2>4. rest \in Seq([id : DOMAIN jobs', state : ResultStates])
    BY <2>2, <2>3
  <2> QED
    BY <1>1, <2>1, <2>4
<1>12. MailboxAgrees'
  <2>0. \A i \in DOMAIN mailbox' :
            /\ i \in Int /\ n + i \in DOMAIN mailbox /\ mailbox'[i] = mailbox[n + i]
    BY <1>1, <1>3, <1>5, <1>11
  <2>1. ASSUME NEW i \in DOMAIN mailbox'
        PROVE  jobs'[mailbox'[i].id].stage = "done"
    <3>1. n + i \in DOMAIN mailbox /\ mailbox'[i] = mailbox[n + i]
      BY <2>0
    <3>2. mailbox'[i].id \in DOMAIN jobs'
      BY <1>1, <1>7, <1>8, <1>11, <2>1
    <3> QED
      BY <1>8, <3>1, <3>2 DEF MailboxAgrees
  <2>2. ASSUME NEW i \in DOMAIN mailbox', NEW j \in DOMAIN mailbox',
               mailbox'[i].id = mailbox'[j].id
        PROVE  i = j
    <3>1. /\ n + i \in DOMAIN mailbox /\ mailbox'[i] = mailbox[n + i]
          /\ n + j \in DOMAIN mailbox /\ mailbox'[j] = mailbox[n + j]
      BY <2>0
    <3>2. n + i = n + j
      BY <2>2, <3>1 DEF MailboxAgrees
    <3> QED
      BY <1>3, <2>0, <3>2
  <2> QED
    BY <2>1, <2>2 DEF MailboxAgrees
<1>13. ASSUME NEW i \in 1..n
       PROVE  /\ Result(i) \in [id : Identities, state : ResultStates, mesh : Meshes]
              /\ Result(i).id = mailbox[i].id /\ Result(i).id \in DOMAIN jobs
              /\ Result(i).mesh = jobs[Result(i).id].mesh
  <2>1. taken[i] = mailbox[i] /\ mailbox[i] \in posts
    BY <1>3, <1>4
  <2>2. mailbox[i].id \in Identities /\ jobs[mailbox[i].id] \in Jobs
    BY <1>2, <2>1
  <2> QED
    BY <2>1, <2>2 DEF Jobs
<1> HIDE DEF Result
<1>14. results \in Seq([id : Identities, state : ResultStates, mesh : Meshes])
  <2>1. n \in Nat
    BY <1>3
  <2> QED
    BY <1>13, <2>1, IsASeq
<1>15. /\ DOMAIN results = 1..n /\ \A i \in 1..n : results[i] = Result(i)
  OBVIOUS
<1> HIDE DEF results
<1>16. /\ frame'.at = "results" /\ frame'.todo = {} /\ frame'.results = results
       /\ frame' \in [at : FramePhases, todo : {frame'.todo}, scheduled : Nat, copied : Nat,
                      results : Seq([id : Identities, state : ResultStates, mesh : Meshes])]
  BY <1>1, <1>14 DEF FramePhases
<1>17. \A i \in DOMAIN frame'.results :
           /\ frame'.results[i].id \in DOMAIN jobs
           /\ frame'.results[i].mesh = jobs[frame'.results[i].id].mesh
  BY <1>13, <1>15, <1>16
<1>18. DOMAIN jobs \subseteq
           DOMAIN jobs' \cup {frame'.results[i].id : i \in DOMAIN frame'.results}
  <2>1. gone \subseteq {frame'.results[i].id : i \in DOMAIN frame'.results}
    BY <1>6, <1>13, <1>15, <1>16
  <2> QED
    BY <1>8, <2>1
<1> QED
  BY <1>2, <1>8, <1>9, <1>10, <1>11, <1>12, <1>16, <1>17, <1>18

LEMMA DrainCompletedStep ==
  ASSUME RenderingInv, DrainCompleted
  PROVE  RenderingInv'
<1>1. UNCHANGED <<shownChunks, shownEditLog, shownMeshRegions, shownNextGeneration, camera,
                  palette, table, disturbances, entry, pending, uploads>>
  BY DEF DrainCompleted, inputVars, shownVars
<1>2. /\ RenderingTypeOK /\ CacheIsFinite /\ MailboxAgrees /\ NothingIsForgotten
      /\ World!ChunksTypeOK /\ FrameAgrees /\ frame.at = "drain"
  BY DEF RenderingInv, RenderingTypeOK, DrainCompleted, At
<1>3. /\ DOMAIN jobs' \subseteq DOMAIN jobs /\ \A i \in DOMAIN jobs' : jobs'[i] = jobs[i]
      /\ MailboxAgrees' /\ IsFiniteSet(DOMAIN jobs)'
      /\ DOMAIN jobs' \subseteq Identities /\ jobs' \in [DOMAIN jobs' -> Jobs]
      /\ Cardinality(DOMAIN jobs') <= MaxJobs
      /\ mailbox' \in Seq([id : DOMAIN jobs', state : ResultStates])
      /\ frame'.at = "results" /\ frame'.todo = {}
      /\ frame' \in [at : FramePhases, todo : {frame'.todo}, scheduled : Nat, copied : Nat,
                     results : Seq([id : Identities, state : ResultStates, mesh : Meshes])]
      /\ \A i \in DOMAIN frame'.results :
             /\ frame'.results[i].id \in DOMAIN jobs
             /\ frame'.results[i].mesh = jobs[frame'.results[i].id].mesh
      /\ DOMAIN jobs \subseteq
             DOMAIN jobs' \cup {frame'.results[i].id : i \in DOMAIN frame'.results}
  BY <1>2, DrainEffect
<1>4. SameWorld /\ Loaded' = Loaded
  BY <1>1, UnchangedWorld DEF SameWorld
<1>5. RenderingTypeOK'
  <2>1. ~At("schedule")' /\ frame'.todo \subseteq Coords
    BY <1>3 DEF At
  <2> QED
    BY <1>1, <1>2, <1>3, <2>1
    DEF RenderingTypeOK, World!ChunksTypeOK, World!Resident
<1>6. \A p \in Carried' : p \in Carried
  <2>1. \A p \in {<<id, jobs'[id].mesh>> : id \in DOMAIN jobs'} : p \in Carried
    BY <1>3 DEF Carried
  <2>2. \A p \in {<<frame'.results[i].id, frame'.results[i].mesh>> :
                      i \in DOMAIN frame'.results} : p \in Carried
    BY <1>3 DEF Carried
  <2>3. \A p \in {<<id, uploads'[id]>> : id \in DOMAIN uploads'} : p \in Carried
    BY <1>1 DEF Carried
  <2> QED
    BY <2>1, <2>2, <2>3 DEF Carried
<1>7. GenerationsArePast' /\ MeshesAreSound' /\ CleanMeshesAreShown'
  BY <1>1, <1>5, <1>6, KeptParts
<1>8. FrameAgrees'
  <2>1. table' = palette'
    BY <1>1, <1>2 DEF FrameAgrees, At
  <2>2. \A c \in DOMAIN entry' : c \in Loaded' /\ entry'[c].generation = shownChunks'[c].generation
    BY <1>1, <1>2, <1>4 DEF FrameAgrees
  <2>3. \A c \in ResidentMeshes(entry)' : NearCamera(c, RetainDistance)'
    BY <1>1, <1>2 DEF FrameAgrees, NearCamera, ResidentMeshes
  <2> QED
    BY <1>3, <2>1, <2>2, <2>3 DEF FrameAgrees, At
<1>9. NothingIsForgotten'
  <2>1. UnderWay \subseteq UnderWay'
    <3>1. frame.results = <<>>
      BY <1>2 DEF FrameAgrees, At
    <3>2. UnderWay = pending \cup DOMAIN jobs \cup DOMAIN uploads
      BY <3>1, NothingInFlight
    <3> QED
      BY <1>1, <1>3, <3>2 DEF UnderWay
  <2>2. ASSUME NEW c \in NearChunks
        PROVE  Attended(c)'
    <3>1. c \in Loaded /\ Attended(c)
      BY <1>2, <2>2 DEF NothingIsForgotten, NearChunks, At
    <3>2. c \in DOMAIN entry /\ Identity(c)[1] = c
      BY <1>2, <3>1, ChunkFacts DEF Attended, IsCached
    <3>3. World!ChunksTypeOK'
      BY <1>5 DEF RenderingTypeOK
    <3> QED
      BY <1>1, <1>2, <1>4, <2>1, <3>1, <3>2, <3>3, AttendedKept
  <2>3. NearChunks' = NearChunks
    BY <1>1, <1>4 DEF NearChunks, NearCamera
  <2> QED
    BY <2>2, <2>3 DEF NothingIsForgotten
<1> QED
  BY <1>1, <1>2, <1>3, <1>5, <1>7, <1>8, <1>9 DEF RenderingInv, CacheIsFinite

\* A record that is inserted or replaced.
LEMMA PutType ==
  ASSUME NEW T, NEW records, records \in [DOMAIN records -> T], NEW key, NEW record \in T
  PROVE  Put(records, key, record) \in [DOMAIN records \cup {key} -> T]
BY DEF Put

\* What a mark on a cached chunk leaves of it.
LEMMA MarkedEffect ==
  ASSUME RenderingTypeOK, NEW id, NEW state \in {"upload_pending", "failed"},
         entry' = Marked(id, state)
  PROVE  /\ DOMAIN entry' = DOMAIN entry /\ entry' \in [DOMAIN entry -> Entries]
         /\ \A c \in DOMAIN entry :
              /\ entry'[c].generation = entry[c].generation
              /\ entry'[c].suppressed = entry[c].suppressed
              /\ entry'[c].mesh = entry[c].mesh
              /\ entry'[c].state = "resident" <=> entry[c].state = "resident"
<1>1. entry' = [c \in DOMAIN entry |->
                   IF IsCached(id) /\ c = id[1] /\ entry[c].state # "resident"
                   THEN [entry[c] EXCEPT !.state = state] ELSE entry[c]]
  BY DEF Marked
<1>2. entry \in [DOMAIN entry -> Entries]
  BY DEF RenderingTypeOK
<1>3. ASSUME NEW c \in DOMAIN entry
      PROVE  /\ entry'[c] \in Entries
             /\ entry'[c].generation = entry[c].generation
             /\ entry'[c].suppressed = entry[c].suppressed
             /\ entry'[c].mesh = entry[c].mesh
             /\ entry'[c].state = "resident" <=> entry[c].state = "resident"
  <2>1. entry[c] \in Entries
    BY <1>2
  <2>2. CASE IsCached(id) /\ c = id[1] /\ entry[c].state # "resident"
    <3>1. entry'[c] = [entry[c] EXCEPT !.state = state]
      BY <1>1, <2>2
    <3> QED
      BY <2>1, <2>2, <3>1 DEF Entries
  <2>3. CASE ~(IsCached(id) /\ c = id[1] /\ entry[c].state # "resident")
    <3>1. entry'[c] = entry[c]
      BY <1>1, <2>3
    <3> QED
      BY <2>1, <3>1
  <2> QED
    BY <2>2, <2>3
<1> QED
  BY <1>1, <1>3

\* The chunk of a result that is not taken waits for its next snapshot, when it
\* is loaded, cached and near.
LEMMA LatestFacts ==
  ASSUME World!ChunksTypeOK, NEW c \in Coords
  PROVE  /\ Latest(c) \subseteq Identities
         /\ c \in NearChunks /\ IsCached(Identity(c)) => Identity(c) \in Latest(c)
<1>1. ASSUME NEW id \in Latest(c)
      PROVE  id \in Identities
  <2>1. c \in Loaded /\ id = <<c, shownChunks[c].generation>>
    BY <1>1 DEF Latest
  <2> QED
    BY <2>1, ChunkFacts DEF Identities
<1>2. ASSUME c \in NearChunks, IsCached(Identity(c))
      PROVE  Identity(c) \in Latest(c)
  <2>1. c \in Loaded /\ NearCamera(c, MeshDistance)
    BY <1>2 DEF NearChunks
  <2> QED
    BY <1>2, <2>1 DEF Latest, Identity
<1> QED
  BY <1>1, <1>2

\* The first of a sequence, and what follows it.
LEMMA TailFacts ==
  ASSUME NEW T, NEW s \in Seq(T), s # <<>>
  PROVE  /\ Tail(s) \in Seq(T) /\ Head(s) \in T
         /\ \E i \in DOMAIN s : s[i] = Head(s)
         /\ \A j \in DOMAIN Tail(s) : \E i \in DOMAIN s : s[i] = Tail(s)[j]
         /\ \A i \in DOMAIN s : s[i] = Head(s) \/ \E j \in DOMAIN Tail(s) : Tail(s)[j] = s[i]
<1>1. /\ Head(s) \in T /\ Tail(s) \in Seq(T) /\ Len(Tail(s)) = Len(s) - 1
      /\ \A i \in 1..Len(Tail(s)) : Tail(s)[i] = s[i + 1]
  BY HeadTailProperties
<1>2. /\ DOMAIN s = 1..Len(s) /\ DOMAIN Tail(s) = 1..(Len(s) - 1) /\ Len(s) \in Nat \ {0}
      /\ Head(s) = s[1]
  BY <1>1, LenProperties, EmptySeq
<1>3. \A j \in DOMAIN Tail(s) : j + 1 \in DOMAIN s /\ s[j + 1] = Tail(s)[j]
  BY <1>1, <1>2
<1>4. ASSUME NEW i \in DOMAIN s, i # 1
      PROVE  \E j \in DOMAIN Tail(s) : Tail(s)[j] = s[i]
  <2>1. i - 1 \in DOMAIN Tail(s) /\ i - 1 + 1 = i
    BY <1>2, <1>4
  <2>2. Tail(s)[i - 1] = s[i]
    BY <1>1, <1>2, <2>1
  <2> QED
    BY <2>1, <2>2
<1>5. 1 \in DOMAIN s
  BY <1>2
<1> QED
  BY <1>1, <1>2, <1>3, <1>4, <1>5

\* What one result does to the cache and the queues.
LEMMA ResultEffect ==
  ASSUME RenderingTypeOK, NEW r, r = Head(frame.results), r.id \in Identities,
         r.mesh \in Meshes, ProcessResult
  PROVE  /\ DOMAIN entry' = DOMAIN entry /\ entry' \in [DOMAIN entry -> Entries]
         /\ \A c \in DOMAIN entry :
              /\ entry'[c].generation = entry[c].generation
              /\ entry'[c].suppressed = entry[c].suppressed
              /\ entry'[c].mesh = entry[c].mesh
              /\ entry'[c].state = "resident" <=> entry[c].state = "resident"
         /\ pending \subseteq pending' /\ pending' \subseteq Identities
         /\ DOMAIN uploads \subseteq DOMAIN uploads' /\ DOMAIN uploads' \subseteq Identities
         /\ uploads' \in [DOMAIN uploads' -> Meshes]
         /\ \A i \in DOMAIN uploads' :
                \/ i \in DOMAIN uploads /\ uploads'[i] = uploads[i]
                \/ i = r.id /\ uploads'[i] = r.mesh
         /\ \A c \in NearChunks : IsCached(Identity(c)) /\ Identity(c) = r.id =>
                r.id \in pending' \cup DOMAIN uploads'
<1> DEFINE id == r.id
           stale == \/ IsCached(id) /\ HeldBack(entry, id[1])
                    \/ ~NearCamera(id[1], MeshDistance)
                    \/ ~MeshIsCurrent(id, r.mesh)
                    \/ AlreadyResident(id, r.mesh)
           duplicate == id \in DOMAIN uploads /\ uploads[id] = r.mesh
<1>1. /\ id[1] \in Coords /\ pending \subseteq Identities /\ DOMAIN uploads \subseteq Identities
      /\ uploads \in [DOMAIN uploads -> Meshes] /\ entry \in [DOMAIN entry -> Entries]
      /\ World!ChunksTypeOK
  BY DEF Identities, RenderingTypeOK
<1>2. \/ /\ pending' = pending \cup Latest(id[1])
         /\ entry' = entry /\ uploads' = uploads
      \/ /\ entry' = Marked(id, "failed")
         /\ pending' = pending \cup Latest(id[1])
         /\ uploads' = uploads
      \/ /\ uploads' = Put(uploads, id, r.mesh)
         /\ entry' = Marked(id, "upload_pending")
         /\ pending' = pending
      \/ /\ duplicate /\ entry' = entry /\ uploads' = uploads /\ pending' = pending
  BY DEF ProcessResult
<1>3. /\ Latest(id[1]) \subseteq Identities
      /\ \A c \in NearChunks : IsCached(Identity(c)) /\ Identity(c) = id => id \in Latest(id[1])
  <2>1. Latest(id[1]) \subseteq Identities
    BY <1>1, LatestFacts
  <2>2. ASSUME NEW c \in NearChunks, IsCached(Identity(c)), Identity(c) = id
        PROVE  id \in Latest(id[1])
    <3>1. c = id[1]
      BY <2>2 DEF Identity
    <3> QED
      BY <1>1, <2>2, <3>1, LatestFacts
  <2> QED
    BY <2>1, <2>2
<1>4. /\ DOMAIN entry' = DOMAIN entry /\ entry' \in [DOMAIN entry -> Entries]
      /\ \A c \in DOMAIN entry :
           /\ entry'[c].generation = entry[c].generation
           /\ entry'[c].suppressed = entry[c].suppressed
           /\ entry'[c].mesh = entry[c].mesh
           /\ entry'[c].state = "resident" <=> entry[c].state = "resident"
  <2>1. CASE entry' = entry
    BY <1>1, <2>1
  <2>2. CASE entry' = Marked(id, "failed")
    BY <2>2, MarkedEffect
  <2>3. CASE entry' = Marked(id, "upload_pending")
    BY <2>3, MarkedEffect
  <2> QED
    BY <1>2, <2>1, <2>2, <2>3
<1>5. /\ DOMAIN uploads \subseteq DOMAIN uploads' /\ DOMAIN uploads' \subseteq Identities
      /\ uploads' \in [DOMAIN uploads' -> Meshes]
      /\ \A i \in DOMAIN uploads' :
             \/ i \in DOMAIN uploads /\ uploads'[i] = uploads[i]
             \/ i = id /\ uploads'[i] = r.mesh
  <2>1. CASE uploads' = uploads
    BY <1>1, <2>1
  <2>2. CASE uploads' = Put(uploads, id, r.mesh)
    <3>1. /\ DOMAIN uploads' = DOMAIN uploads \cup {id} /\ uploads'[id] = r.mesh
          /\ \A i \in DOMAIN uploads \ {id} : uploads'[i] = uploads[i]
      BY <2>2 DEF Put
    <3>2. uploads' \in [DOMAIN uploads \cup {id} -> Meshes]
      BY <1>1, <2>2, PutType
    <3> QED
      BY <1>1, <3>1, <3>2
  <2> QED
    BY <1>2, <2>1, <2>2
<1>6. \/ Latest(id[1]) \subseteq pending'
      \/ id \in DOMAIN uploads'
  <2>1. CASE uploads' = Put(uploads, id, r.mesh)
    BY <2>1 DEF Put
  <2> QED
    BY <1>2, <2>1
<1>7. pending \subseteq pending' /\ pending' \subseteq Identities
  BY <1>1, <1>2, <1>3
<1> QED
  BY <1>3, <1>4, <1>5, <1>6, <1>7

LEMMA ProcessResultStep ==
  ASSUME RenderingInv, ProcessResult
  PROVE  RenderingInv'
<1> DEFINE Results == [id : Identities, state : ResultStates, mesh : Meshes]
           r == Head(frame.results)
<1>1. /\ frame.at = "results" /\ frame.results # <<>>
      /\ frame' = [frame EXCEPT !.results = Tail(@)]
      /\ UNCHANGED <<shownChunks, shownEditLog, shownMeshRegions, shownNextGeneration, camera,
                     palette, table, disturbances, jobs, mailbox>>
  BY DEF ProcessResult, At, inputVars, shownVars
<1>2. /\ RenderingTypeOK /\ CacheIsFinite /\ MailboxAgrees /\ NothingIsForgotten
      /\ World!ChunksTypeOK /\ FrameAgrees
      /\ frame \in [at : FramePhases, todo : {frame.todo}, scheduled : Nat, copied : Nat,
                    results : Seq(Results)]
      /\ frame.todo \subseteq Coords
      /\ \A c \in DOMAIN entry : entry[c].state = "resident" <=> entry[c].mesh # None
  BY <1>1 DEF RenderingInv, RenderingTypeOK, At
<1>3. /\ frame'.at = "results" /\ frame'.todo = frame.todo
      /\ frame'.results = Tail(frame.results) /\ frame.results \in Seq(Results)
  BY <1>1, <1>2
<1>4. /\ Tail(frame.results) \in Seq(Results) /\ r \in Results
      /\ \E i \in DOMAIN frame.results : frame.results[i] = r
      /\ \A j \in DOMAIN Tail(frame.results) :
             \E i \in DOMAIN frame.results : frame.results[i] = Tail(frame.results)[j]
      /\ \A i \in DOMAIN frame.results :
             \/ frame.results[i] = r
             \/ \E j \in DOMAIN Tail(frame.results) : Tail(frame.results)[j] = frame.results[i]
  BY <1>1, <1>3, TailFacts
<1>5. frame' \in [at : FramePhases, todo : {frame'.todo}, scheduled : Nat, copied : Nat,
                  results : Seq(Results)]
  BY <1>1, <1>2, <1>3, <1>4
<1>6. r.id \in Identities /\ r.mesh \in Meshes
  BY <1>4
<1> HIDE DEF r, Results
<1>7. /\ DOMAIN entry' = DOMAIN entry /\ entry' \in [DOMAIN entry -> Entries]
      /\ \A c \in DOMAIN entry :
           /\ entry'[c].generation = entry[c].generation
           /\ entry'[c].suppressed = entry[c].suppressed
           /\ entry'[c].mesh = entry[c].mesh
           /\ entry'[c].state = "resident" <=> entry[c].state = "resident"
      /\ pending \subseteq pending' /\ pending' \subseteq Identities
      /\ DOMAIN uploads \subseteq DOMAIN uploads' /\ DOMAIN uploads' \subseteq Identities
      /\ uploads' \in [DOMAIN uploads' -> Meshes]
      /\ \A i \in DOMAIN uploads' :
             \/ i \in DOMAIN uploads /\ uploads'[i] = uploads[i]
             \/ i = r.id /\ uploads'[i] = r.mesh
      /\ \A c \in NearChunks : IsCached(Identity(c)) /\ Identity(c) = r.id =>
             r.id \in pending' \cup DOMAIN uploads'
  BY <1>2, <1>6, ResultEffect DEF r
<1>8. SameWorld /\ Loaded' = Loaded
  BY <1>1, UnchangedWorld DEF SameWorld
<1>9. RenderingTypeOK'
  <2>1. ~At("schedule")' /\ frame'.todo \subseteq Coords
    BY <1>2, <1>3 DEF At
  <2> QED
    BY <1>1, <1>2, <1>5, <1>7, <2>1
    DEF RenderingTypeOK, World!ChunksTypeOK, World!Resident, Results
<1>10. \A p \in Carried' : p \in Carried
  <2>1. \A p \in {<<id, jobs'[id].mesh>> : id \in DOMAIN jobs'} : p \in Carried
    BY <1>1 DEF Carried
  <2>2. \A p \in {<<frame'.results[i].id, frame'.results[i].mesh>> :
                      i \in DOMAIN frame'.results} : p \in Carried
    BY <1>3, <1>4 DEF Carried
  <2>3. <<r.id, r.mesh>> \in Carried
    BY <1>4 DEF Carried
  <2>4. \A p \in {<<id, uploads'[id]>> : id \in DOMAIN uploads'} : p \in Carried
    BY <1>7, <2>3 DEF Carried
  <2> QED
    BY <2>1, <2>2, <2>4 DEF Carried
<1>11. GenerationsArePast' /\ MeshesAreSound' /\ CleanMeshesAreShown'
  BY <1>1, <1>7, <1>9, <1>10, KeptParts
<1>12. FrameAgrees'
  <2>1. table' = palette'
    BY <1>1, <1>2 DEF FrameAgrees, At
  <2>2. \A c \in DOMAIN entry' : c \in Loaded' /\ entry'[c].generation = shownChunks'[c].generation
    BY <1>1, <1>2, <1>7, <1>8 DEF FrameAgrees
  <2>3. \A c \in ResidentMeshes(entry)' : NearCamera(c, RetainDistance)'
    BY <1>1, <1>2, <1>7 DEF FrameAgrees, NearCamera, ResidentMeshes
  <2> QED
    BY <1>3, <2>1, <2>2, <2>3 DEF FrameAgrees, At
<1>13. NothingIsForgotten'
  <2>1. \A id \in UnderWay : id \in UnderWay' \/ id = r.id
    <3>1. \A i \in DOMAIN frame.results :
              \/ frame.results[i].id = r.id
              \/ frame.results[i].id \in {frame'.results[j].id : j \in DOMAIN frame'.results}
      BY <1>3, <1>4
    <3> QED
      BY <1>1, <1>7, <3>1 DEF UnderWay
  <2>2. ASSUME NEW c \in NearChunks
        PROVE  Attended(c)'
    <3>1. c \in Loaded /\ Attended(c)
      BY <1>1, <1>2, <2>2 DEF NothingIsForgotten, NearChunks, At
    <3>2. c \in DOMAIN entry /\ IsCached(Identity(c))
      BY <1>2, <3>1, ChunkFacts DEF Attended, IsCached
    <3>3. World!ChunksTypeOK'
      BY <1>9 DEF RenderingTypeOK
    <3>4. Identity(c) \in UnderWay => Identity(c) \in UnderWay'
      <4>1. pending' \cup DOMAIN uploads' \subseteq UnderWay'
        BY DEF UnderWay
      <4> QED
        BY <1>7, <2>1, <2>2, <3>2, <4>1
    <3> QED
      BY <1>1, <1>2, <1>7, <1>8, <3>1, <3>2, <3>3, <3>4, AttendedKept
  <2>3. NearChunks' = NearChunks
    BY <1>1, <1>8 DEF NearChunks, NearCamera
  <2> QED
    BY <2>2, <2>3 DEF NothingIsForgotten
<1> QED
  BY <1>1, <1>2, <1>7, <1>9, <1>11, <1>12, <1>13 DEF RenderingInv, CacheIsFinite, MailboxAgrees

\* An upload that is taken is selected, or its chunk waits for another snapshot, or
\* is held back.
LEMMA TakenFates ==
  ASSUME RenderingTypeOK, NEW S, S \subseteq DOMAIN uploads
  PROVE  /\ Outdated(S) \subseteq Identities
         /\ \A c \in NearChunks : Attended(c) /\ Identity(c) \in S =>
                \/ Selectable(Identity(c))
                \/ Identity(c) \in Outdated(S)
                \/ entry[c].suppressed
<1>1. World!ChunksTypeOK /\ DOMAIN uploads \subseteq Identities
  BY DEF RenderingTypeOK
<1>2. Outdated(S) \subseteq Identities
  <2>1. \A c \in Loaded : Identity(c) \in Identities
    BY <1>1, ChunkFacts
  <2> QED
    BY <2>1 DEF Outdated
<1>3. ASSUME NEW c \in NearChunks, Attended(c), Identity(c) \in S,
             ~Selectable(Identity(c)), ~entry[c].suppressed
      PROVE  Identity(c) \in Outdated(S)
  <2>1. /\ c \in Loaded /\ Identity(c)[1] = c /\ IsCached(Identity(c))
        /\ NearCamera(c, MeshDistance)
    BY <1>1, <1>3, ChunkFacts DEF NearChunks, Attended
  <2>2. ~MeshIsCurrent(Identity(c), uploads[Identity(c)])
    BY <1>3, <2>1 DEF Selectable, HeldBack
  <2>3. Identity(c) \in {j \in S : ~MeshIsCurrent(j, uploads[j])}
    BY <1>3, <2>2
  <2>4. c \in {i[1] : i \in {j \in S : ~MeshIsCurrent(j, uploads[j])}}
    BY <2>1, <2>3
  <2> QED
    BY <2>1, <2>4 DEF Outdated
<1> QED
  BY <1>2, <1>3

LEMMA FailUploadsStep ==
  ASSUME RenderingInv, FailUploads
  PROVE  RenderingInv'
<1>1. PICK S \in TakenUploads :
          /\ At("upload") /\ Disturb
          /\ pending' = pending \cup Outdated(S)
          /\ uploads' = Restrict(uploads, (DOMAIN uploads \ S) \cup {id \in S : Selectable(id)})
          /\ GoTo("budget", {})
          /\ UNCHANGED <<shownVars, camera, palette, table, entry, jobs, mailbox>>
  BY DEF FailUploads
<1> DEFINE kept == (DOMAIN uploads \ S) \cup {id \in S : Selectable(id)}
<1>2. /\ RenderingTypeOK /\ CacheIsFinite /\ MailboxAgrees /\ NothingIsForgotten
      /\ World!ChunksTypeOK /\ FrameAgrees /\ disturbances' \in 0..MaxDisturbances
      /\ pending \subseteq Identities /\ S \subseteq DOMAIN uploads
  BY <1>1, DisturbType DEF RenderingInv, RenderingTypeOK, TakenUploads
<1>3. UNCHANGED <<shownChunks, shownEditLog, shownMeshRegions, shownNextGeneration, camera,
                  palette, table, entry, jobs, mailbox>>
  BY <1>1 DEF shownVars
<1>4. /\ frame'.at = "budget" /\ frame'.todo = {} /\ frame'.results = <<>>
      /\ frame' \in [at : FramePhases, todo : {frame'.todo}, scheduled : Nat, copied : Nat,
                     results : Seq([id : Identities, state : ResultStates, mesh : Meshes])]
  BY <1>1, GoToEffect DEF FramePhases
<1>5. SameWorld /\ Loaded' = Loaded
  BY <1>3, UnchangedWorld DEF SameWorld
<1>6. kept \subseteq DOMAIN uploads /\ uploads' = Restrict(uploads, kept)
  BY <1>1, <1>2
<1> HIDE DEF kept
<1>7. /\ DOMAIN uploads' = kept /\ \A id \in kept : uploads'[id] = uploads[id]
      /\ DOMAIN uploads' \subseteq Identities /\ uploads' \in [DOMAIN uploads' -> Meshes]
  BY <1>2, <1>6, FewerUploads
<1>8. pending' \subseteq Identities
  BY <1>1, <1>2, TakenFates
<1>9. RenderingTypeOK'
  <2>1. frame'.todo \subseteq IF At("schedule")' THEN Identities ELSE Coords
    BY <1>4
  <2> QED
    BY <1>2, <1>3, <1>4, <1>7, <1>8, <2>1
    DEF RenderingTypeOK, World!ChunksTypeOK, World!Resident
<1>10. \A p \in Carried' : p \in Carried
  BY <1>3, <1>4, <1>6, <1>7, CarriedKept
<1>11. GenerationsArePast' /\ MeshesAreSound' /\ CleanMeshesAreShown'
  BY <1>3, <1>9, <1>10, KeptParts
<1>12. FrameAgrees'
  <2>1. table' = palette'
    BY <1>1, <1>2, <1>3 DEF FrameAgrees, At
  <2>2. \A c \in DOMAIN entry' : c \in Loaded' /\ entry'[c].generation = shownChunks'[c].generation
    BY <1>1, <1>2, <1>3, <1>5 DEF FrameAgrees, At
  <2>3. \A c \in ResidentMeshes(entry)' : NearCamera(c, RetainDistance)'
    BY <1>1, <1>2, <1>3 DEF FrameAgrees, NearCamera, ResidentMeshes, At
  <2> QED
    BY <1>4, <2>1, <2>2, <2>3 DEF FrameAgrees, At
<1>13. NothingIsForgotten'
  <2>1. UnderWay = pending \cup DOMAIN jobs \cup DOMAIN uploads
    BY <1>1, <1>2, NothingInFlight DEF FrameAgrees, At
  <2>2. pending' \cup DOMAIN jobs' \cup DOMAIN uploads' \subseteq UnderWay'
    BY DEF UnderWay
  <2>3. ASSUME NEW c \in NearChunks
        PROVE  Attended(c)'
    <3>1. c \in Loaded /\ Attended(c)
      BY <1>1, <1>2, <2>3 DEF NothingIsForgotten, NearChunks, At
    <3>2. c \in DOMAIN entry /\ IsCached(Identity(c))
      BY <1>2, <3>1, ChunkFacts DEF Attended, IsCached
    <3>3. World!ChunksTypeOK'
      BY <1>9 DEF RenderingTypeOK
    <3>4. CASE entry[c].suppressed
      <4>1. Identity(c)' = Identity(c)
        BY <1>2, <1>5, <3>1, <3>3, StandingWorld
      <4>2. IsCached(Identity(c))'
        BY <1>3, <3>2, <4>1 DEF IsCached
      <4> QED
        BY <1>3, <3>4, <4>2 DEF Attended
    <3>5. CASE ~entry[c].suppressed
      <4>1. Identity(c) \in S => Identity(c) \in Outdated(S) \cup kept
        BY <1>2, <2>3, <3>1, <3>5, TakenFates DEF kept
      <4>2. Identity(c) \in UnderWay => Identity(c) \in UnderWay'
        BY <1>1, <1>3, <1>7, <2>1, <2>2, <4>1 DEF kept
      <4> QED
        BY <1>2, <1>3, <1>5, <3>1, <3>2, <3>3, <4>2, AttendedKept
    <3> QED
      BY <3>4, <3>5
  <2>4. NearChunks' = NearChunks
    BY <1>3, <1>5 DEF NearChunks, NearCamera
  <2> QED
    BY <2>3, <2>4 DEF NothingIsForgotten
<1> QED
  BY <1>2, <1>3, <1>9, <1>11, <1>12, <1>13 DEF RenderingInv, CacheIsFinite, MailboxAgrees

\* A selected upload is of the chunk as it is: what becomes resident shows it.
LEMMA SelectedIsShown ==
  ASSUME RenderingInv, NEW id \in DOMAIN uploads, Selectable(id)
  PROVE  /\ id[1] \in Loaded /\ id = Identity(id[1]) /\ id[1] \in DOMAIN entry
         /\ id = <<id[1], entry[id[1]].generation>>
         /\ uploads[id] \in Meshes /\ uploads[id].shown = Shown(id[1])
         /\ uploads[id].table = table /\ NearCamera(id[1], MeshDistance)
<1>1. /\ id \in Identities /\ uploads[id] \in Meshes /\ World!ChunksTypeOK
      /\ MeshesAreSound
  BY DEF RenderingInv, RenderingTypeOK
<1>2. /\ uploads[id].table = table /\ IsCached(id) /\ IsLoaded(id)
      /\ uploads[id].revision = shownChunks[id[1]].revision
      /\ DependenciesMatch(uploads[id].deps) /\ NearCamera(id[1], MeshDistance)
  BY DEF Selectable, MeshIsCurrent
<1>3. Sound(id, uploads[id])
  <2>1. <<id, uploads[id]>> \in Carried
    BY DEF Carried
  <2> QED
    BY <1>1, <2>1 DEF MeshesAreSound
<1>4. uploads[id].shown = Shown(id[1])
  BY <1>1, <1>2, <1>3, CurrentIsShown
<1>5. id = <<id[1], id[2]>>
  BY <1>1 DEF Identities
<1> QED
  BY <1>1, <1>2, <1>4, <1>5 DEF IsCached, IsLoaded

LEMMA ProcessUploadsStep ==
  ASSUME RenderingInv, ProcessUploads
  PROVE  RenderingInv'
<1> DEFINE Taken(S) == {id \in S : Selectable(id)}
           Chosen(S, c) == \E id \in Taken(S) : id[1] = c
           Mesh(c) == uploads[<<c, entry[c].generation>>]
<1>1. PICK S \in TakenUploads :
          /\ At("upload")
          /\ pending' = pending \cup Outdated(S)
          /\ uploads' = Restrict(uploads, DOMAIN uploads \ S)
          /\ entry' = [c \in DOMAIN entry |->
                          IF Chosen(S, c)
                          THEN [entry[c] EXCEPT !.state = "resident", !.mesh = Mesh(c),
                                                !.suppressed = FALSE, !.lastBytes = Bytes(Mesh(c))]
                          ELSE entry[c]]
          /\ shownChunks' = [c \in Loaded |->
                                IF Chosen(S, c)
                                THEN [shownChunks[c] EXCEPT !.dirty = @ \ {"mesh"}]
                                ELSE shownChunks[c]]
          /\ GoTo("budget", {})
          /\ UNCHANGED <<shownEditLog, shownMeshRegions, shownNextGeneration, camera, palette,
                         table, disturbances, jobs, mailbox>>
  BY DEF ProcessUploads
<1>2. /\ RenderingTypeOK /\ CacheIsFinite /\ MailboxAgrees /\ NothingIsForgotten
      /\ World!ChunksTypeOK /\ FrameAgrees /\ GenerationsArePast /\ MeshesAreSound
      /\ CleanMeshesAreShown
      /\ pending \subseteq Identities /\ S \subseteq DOMAIN uploads
      /\ DOMAIN entry \subseteq Coords /\ entry \in [DOMAIN entry -> Entries]
      /\ \A c \in DOMAIN entry : entry[c].state = "resident" <=> entry[c].mesh # None
      /\ camera.at \in Int
  BY <1>1, RenderingAssumption DEF RenderingInv, RenderingTypeOK, TakenUploads
<1>3. UNCHANGED <<shownEditLog, shownMeshRegions, shownNextGeneration, camera, palette, table,
                  disturbances, jobs, mailbox>>
  BY <1>1
<1>4. /\ frame'.at = "budget" /\ frame'.todo = {} /\ frame'.results = <<>>
      /\ frame' \in [at : FramePhases, todo : {frame'.todo}, scheduled : Nat, copied : Nat,
                     results : Seq([id : Identities, state : ResultStates, mesh : Meshes])]
  BY <1>1, GoToEffect DEF FramePhases
<1>5. ASSUME NEW c, Chosen(S, c)
      PROVE  /\ c \in Loaded /\ c \in DOMAIN entry /\ Mesh(c) \in Meshes
             /\ Mesh(c).shown = Shown(c) /\ Mesh(c).table = table
             /\ NearCamera(c, MeshDistance) /\ entry[c].generation = shownChunks[c].generation
  <2>1. PICK id \in S : Selectable(id) /\ id[1] = c
    BY <1>5
  <2>2. /\ c \in Loaded /\ id = Identity(c) /\ c \in DOMAIN entry
        /\ id = <<c, entry[c].generation>>
        /\ uploads[id] \in Meshes /\ uploads[id].shown = Shown(c)
        /\ uploads[id].table = table /\ NearCamera(c, MeshDistance)
    BY <1>2, <2>1, SelectedIsShown
  <2> QED
    BY <2>2 DEF Identity
<1> HIDE DEF Mesh, Chosen
<1>6. ASSUME NEW c \in DOMAIN entry
      PROVE  /\ entry'[c] \in Entries /\ entry'[c].generation = entry[c].generation
             /\ ~Chosen(S, c) => entry'[c] = entry[c]
             /\ Chosen(S, c) => entry'[c].state = "resident" /\ entry'[c].mesh = Mesh(c)
  <2>1. entry[c] \in Entries
    BY <1>2
  <2>2. CASE Chosen(S, c)
    <3>1. entry'[c] = [entry[c] EXCEPT !.state = "resident", !.mesh = Mesh(c),
                                       !.suppressed = FALSE, !.lastBytes = Bytes(Mesh(c))]
      BY <1>1, <2>2
    <3>2. Mesh(c) \in Meshes /\ Bytes(Mesh(c)) \in Nat
      BY <1>5, <2>2, BytesType
    <3> QED
      BY <2>1, <2>2, <3>1, <3>2 DEF Entries
  <2>3. CASE ~Chosen(S, c)
    BY <1>1, <2>1, <2>3
  <2> QED
    BY <2>2, <2>3
<1>7. DOMAIN entry' = DOMAIN entry /\ entry' \in [DOMAIN entry' -> Entries]
  <2>1. DOMAIN entry' = DOMAIN entry
    BY <1>1
  <2> QED
    BY <1>1, <1>6, <2>1
<1>8. ASSUME NEW c \in Loaded
      PROVE  /\ shownChunks'[c] \in World!ChunkRecords
             /\ shownChunks'[c].generation = shownChunks[c].generation
             /\ shownChunks'[c].revision = shownChunks[c].revision
             /\ shownChunks'[c].cells = shownChunks[c].cells
             /\ ~Chosen(S, c) => shownChunks'[c] = shownChunks[c]
  <2>1. shownChunks[c] \in World!ChunkRecords
    BY <1>2, ChunkFacts
  <2>2. CASE Chosen(S, c)
    <3>1. shownChunks'[c] = [shownChunks[c] EXCEPT !.dirty = @ \ {"mesh"}]
      BY <1>1, <2>2
    <3> QED
      BY <2>1, <2>2, <3>1 DEF World!ChunkRecords
  <2>3. CASE ~Chosen(S, c)
    BY <1>1, <2>1, <2>3
  <2> QED
    BY <2>2, <2>3
<1>9. Loaded' = Loaded
  BY <1>1 DEF Loaded, World!Resident
<1>10. World!ChunksTypeOK'
  <2>1. shownChunks' \in [Loaded -> World!ChunkRecords]
    BY <1>1, <1>8
  <2> QED
    BY <1>2, <1>3, <1>9, <2>1 DEF World!ChunksTypeOK, Loaded
<1>11. SameWorld
  BY <1>3, <1>8, <1>9 DEF SameWorld
<1>12. /\ DOMAIN uploads' = DOMAIN uploads \ S
       /\ \A id \in DOMAIN uploads' : uploads'[id] = uploads[id]
       /\ DOMAIN uploads' \subseteq Identities /\ uploads' \in [DOMAIN uploads' -> Meshes]
  BY <1>1, <1>2, FewerUploads
<1>13. pending' \subseteq Identities
  BY <1>1, <1>2, TakenFates
<1>14. \A c \in DOMAIN entry' : entry'[c].state = "resident" <=> entry'[c].mesh # None
  <2>1. ASSUME NEW c \in DOMAIN entry
        PROVE  entry'[c].state = "resident" <=> entry'[c].mesh # None
    <3>1. CASE Chosen(S, c)
      BY <1>5, <1>6, <3>1, RenderingAssumption
    <3>2. CASE ~Chosen(S, c)
      BY <1>2, <1>6, <3>2
    <3> QED
      BY <3>1, <3>2
  <2> QED
    BY <1>7, <2>1
<1>15. RenderingTypeOK'
  <2>1. frame'.todo \subseteq IF At("schedule")' THEN Identities ELSE Coords
    BY <1>4
  <2> QED
    BY <1>2, <1>3, <1>4, <1>7, <1>10, <1>12, <1>13, <1>14, <2>1
    DEF RenderingTypeOK
<1>16. GenerationsArePast'
  BY <1>2, <1>3, <1>6, <1>7, <1>8, <1>9 DEF GenerationsArePast
<1>17. MeshesAreSound'
  <2>1. \A p \in Carried' : p \in Carried
    BY <1>3, <1>4, <1>12, CarriedKept
  <2>2. ASSUME NEW p \in Carried'
        PROVE  Sound(p[1], p[2])'
    <3>1. p[1] \in Identities /\ p[2] \in Meshes /\ Sound(p[1], p[2])
      BY <1>2, <2>1, CarriedType DEF MeshesAreSound
    <3> QED
      BY <1>2, <1>10, <1>11, <3>1, StandingWorld
  <2> QED
    BY <2>2 DEF MeshesAreSound
<1>18. CleanMeshesAreShown'
  <2>1. ASSUME NEW c \in Loaded, IsCached(Identity(c))', entry'[c].state = "resident",
               "mesh" \notin shownChunks'[c].dirty
        PROVE  entry'[c].mesh.shown = Shown(c)'
    <3>1. Identity(c)' = Identity(c) /\ Shown(c)' = Shown(c) /\ Identity(c)[1] = c
      BY <1>2, <1>10, <1>11, ChunkFacts, StandingWorld
    <3>2. c \in DOMAIN entry /\ entry[c].generation = Identity(c)[2]
      BY <1>6, <1>7, <2>1, <3>1 DEF IsCached
    <3>3. CASE Chosen(S, c)
      BY <1>5, <1>6, <3>1, <3>2, <3>3
    <3>4. CASE ~Chosen(S, c)
      <4>1. entry'[c] = entry[c] /\ shownChunks'[c] = shownChunks[c]
        BY <1>6, <1>8, <3>2, <3>4
      <4>2. IsCached(Identity(c))
        BY <3>1, <3>2 DEF IsCached
      <4> QED
        BY <1>2, <2>1, <3>1, <4>1, <4>2 DEF CleanMeshesAreShown
    <3> QED
      BY <3>3, <3>4
  <2> QED
    BY <1>9, <2>1 DEF CleanMeshesAreShown
<1>19. FrameAgrees'
  <2>1. table' = palette'
    BY <1>1, <1>2, <1>3 DEF FrameAgrees, At
  <2>2. \A c \in DOMAIN entry' : c \in Loaded' /\ entry'[c].generation = shownChunks'[c].generation
    <3>1. \A c \in DOMAIN entry : c \in Loaded /\ entry[c].generation = shownChunks[c].generation
      BY <1>1, <1>2 DEF FrameAgrees, At
    <3> QED
      BY <1>6, <1>7, <1>8, <1>9, <3>1
  <2>3. ASSUME NEW c \in DOMAIN entry, entry'[c].state = "resident"
        PROVE  NearCamera(c, RetainDistance)'
    <3>1. CASE Chosen(S, c)
      <4>1. c \in Int /\ NearCamera(c, MeshDistance)
        BY <1>2, <1>5, <3>1, ChunkAssumption
      <4> QED
        BY <1>2, <1>3, <4>1, RenderingAssumption DEF NearCamera
    <3>2. CASE ~Chosen(S, c)
      <4>1. c \in ResidentMeshes(entry)
        BY <1>6, <2>3, <3>2 DEF ResidentMeshes
      <4> QED
        BY <1>1, <1>2, <1>3, <4>1 DEF FrameAgrees, NearCamera, At
    <3> QED
      BY <3>1, <3>2
  <2>4. \A c \in ResidentMeshes(entry)' : NearCamera(c, RetainDistance)'
    BY <1>7, <2>3 DEF ResidentMeshes
  <2> QED
    BY <1>4, <2>1, <2>2, <2>4 DEF FrameAgrees, At
<1>20. NothingIsForgotten'
  <2>1. UnderWay = pending \cup DOMAIN jobs \cup DOMAIN uploads
    BY <1>1, <1>2, NothingInFlight DEF FrameAgrees, At
  <2>2. pending' \cup DOMAIN jobs' \cup DOMAIN uploads' \subseteq UnderWay'
    BY DEF UnderWay
  <2>3. ASSUME NEW c \in NearChunks
        PROVE  Attended(c)'
    <3>1. c \in Loaded /\ Attended(c)
      BY <1>1, <1>2, <2>3 DEF NothingIsForgotten, NearChunks, At
    <3>2. /\ c \in DOMAIN entry /\ IsCached(Identity(c)) /\ Identity(c)[1] = c
          /\ entry[c].generation = Identity(c)[2]
      BY <1>2, <3>1, ChunkFacts DEF Attended, IsCached
    <3>3. Identity(c)' = Identity(c) /\ Shown(c)' = Shown(c)
      BY <1>2, <1>10, <1>11, <3>1, StandingWorld
    <3>4. IsCached(Identity(c))'
      BY <1>6, <1>7, <3>2, <3>3 DEF IsCached
    <3>5. CASE Chosen(S, c)
      <4>1. /\ entry'[c].state = "resident" /\ entry'[c].mesh = Mesh(c)
            /\ Mesh(c).shown = Shown(c) /\ Mesh(c).table = table
        BY <1>5, <1>6, <3>2, <3>5
      <4>2. entry'[c].mesh.table = palette'
        BY <1>1, <1>2, <1>3, <4>1 DEF FrameAgrees, At
      <4> QED
        BY <3>3, <3>4, <4>1, <4>2 DEF Attended
    <3>6. CASE ~Chosen(S, c) /\ entry[c].suppressed
      <4>1. entry'[c] = entry[c]
        BY <1>6, <3>2, <3>6
      <4> QED
        BY <3>4, <3>6, <4>1 DEF Attended
    <3>7. CASE ~Chosen(S, c) /\ ~entry[c].suppressed
      <4>1. Identity(c) \in S => Identity(c) \in Outdated(S)
        <5>1. Identity(c) \in S => ~Selectable(Identity(c))
          BY <3>2, <3>7 DEF Chosen
        <5> QED
          BY <1>2, <2>3, <3>1, <3>7, <5>1, TakenFates
      <4>2. Identity(c) \in UnderWay => Identity(c) \in UnderWay'
        BY <1>1, <1>3, <1>12, <2>1, <2>2, <4>1
      <4>3. entry'[c] = entry[c] /\ c \in DOMAIN entry'
        BY <1>6, <1>7, <3>2, <3>7
      <4> QED
        BY <1>2, <1>3, <1>10, <1>11, <3>1, <4>2, <4>3, AttendedKept
    <3> QED
      BY <3>5, <3>6, <3>7
  <2>4. NearChunks' = NearChunks
    BY <1>3, <1>9 DEF NearChunks, NearCamera
  <2> QED
    BY <2>3, <2>4 DEF NothingIsForgotten
<1> QED
  BY <1>2, <1>3, <1>7, <1>15, <1>16, <1>17, <1>18, <1>19, <1>20
  DEF RenderingInv, CacheIsFinite, MailboxAgrees

\* What a snapshot copies is a number of cells.
LEMMA SnapshotCellsType ==
  ASSUME World!ChunksTypeOK, NEW c \in Loaded
  PROVE  SnapshotCells(c) \in Nat
<1>1. Halo(shownChunks[c].cells) \in Nat /\ EdgeLength \in Nat
  BY ChunkFacts, HaloType, ChunkAssumption
<1> QED
  BY <1>1 DEF SnapshotCells

\* One turn of scheduling: a request is dropped, answered by the job that is
\* active, or becomes a job.
LEMMA ScheduleStep ==
  ASSUME RenderingInv, NEW id \in pending, Schedule(id)
  PROVE  RenderingInv'
<1> DEFINE wanted == Wanted(id)
           job == [mesh |-> Snapshot(id[1]), cancelled |-> FALSE, stage |-> "queued"]
<1>1. /\ frame.at = "schedule" /\ HasCapacity /\ id \in frame.todo
      /\ UNCHANGED <<shownChunks, shownEditLog, shownMeshRegions, shownNextGeneration, camera,
                     palette, table, disturbances, entry, mailbox, uploads>>
  BY DEF Schedule, NextToMesh, MayAttempt, At, inputVars, shownVars
<1>2. \/ /\ ~wanted
         /\ pending' = pending \ {id} /\ jobs' = jobs
         /\ frame' = [frame EXCEPT !.todo = @ \ {id}]
      \/ /\ pending' = pending
         /\ jobs' = jobs \/ jobs' = CancelAll(jobs, {id})
         /\ frame' = [frame EXCEPT !.todo = @ \ {id}]
      \/ /\ wanted /\ id \notin DOMAIN jobs
         /\ pending' = pending \ {id} /\ jobs' = Put(jobs, id, job)
         /\ frame' = [frame EXCEPT !.todo = @ \ {id}, !.scheduled = @ + 1,
                                   !.copied = @ + SnapshotCells(id[1])]
  BY DEF Schedule
<1>3. /\ RenderingTypeOK /\ CacheIsFinite /\ MailboxAgrees /\ NothingIsForgotten
      /\ World!ChunksTypeOK /\ FrameAgrees /\ GenerationsArePast /\ table \in Nat
      /\ pending \subseteq Identities /\ DOMAIN jobs \subseteq Identities
      /\ jobs \in [DOMAIN jobs -> Jobs] /\ Cardinality(DOMAIN jobs) <= MaxJobs
      /\ IsFiniteSet(DOMAIN jobs)
      /\ mailbox \in Seq([id : DOMAIN jobs, state : ResultStates])
      /\ frame \in [at : FramePhases, todo : {frame.todo}, scheduled : Nat, copied : Nat,
                    results : Seq([id : Identities, state : ResultStates, mesh : Meshes])]
      /\ frame.todo \subseteq Identities
  BY <1>1 DEF RenderingInv, RenderingTypeOK, CacheIsFinite, At
<1>4. /\ frame'.at = "schedule" /\ frame'.todo \subseteq Identities
      /\ frame'.results = frame.results /\ frame.results = <<>>
      /\ frame' \in [at : FramePhases, todo : {frame'.todo}, scheduled : Nat, copied : Nat,
                     results : Seq([id : Identities, state : ResultStates, mesh : Meshes])]
  <2>1. frame.results = <<>>
    BY <1>1, <1>3 DEF FrameAgrees, At
  <2>2. CASE frame' = [frame EXCEPT !.todo = @ \ {id}]
    BY <1>1, <1>3, <2>1, <2>2
  <2>3. CASE /\ wanted
             /\ frame' = [frame EXCEPT !.todo = @ \ {id}, !.scheduled = @ + 1,
                                       !.copied = @ + SnapshotCells(id[1])]
    <3> HIDE DEF wanted
    <3>1. /\ frame.scheduled \in Nat /\ frame.scheduled + 1 \in Nat
          /\ frame.copied \in Nat /\ frame.copied + SnapshotCells(id[1]) \in Nat
      <4>1. SnapshotCells(id[1]) \in Nat
        BY <1>3, <2>3, SnapshotCellsType DEF wanted, Wanted, IsLoaded
      <4> QED
        BY <1>3, <4>1
    <3>2. /\ frame'.at = frame.at /\ frame'.todo = frame.todo \ {id}
          /\ frame'.results = frame.results /\ frame'.scheduled = frame.scheduled + 1
          /\ frame'.copied = frame.copied + SnapshotCells(id[1])
          /\ frame' = [at |-> frame'.at, todo |-> frame'.todo, results |-> frame'.results,
                       scheduled |-> frame'.scheduled, copied |-> frame'.copied]
      BY <1>3, <2>3
    <3> QED
      BY <1>1, <1>3, <2>1, <3>1, <3>2
  <2> QED
    BY <1>2, <2>2, <2>3
<1>5. wanted => /\ id[1] \in Loaded /\ id = Identity(id[1])
                /\ job \in Jobs /\ job.mesh = Snapshot(id[1])
  <2>1. wanted => id[1] \in Loaded /\ id = Identity(id[1])
    BY DEF Wanted, IsLoaded
  <2>2. wanted => Snapshot(id[1]) \in Meshes
    BY <1>3, <2>1, SnapshotIsSound
  <2> QED
    BY <2>1, <2>2 DEF Jobs
<1> HIDE DEF wanted, job
<1>6. SameWorld /\ Loaded' = Loaded
  BY <1>1, UnchangedWorld DEF SameWorld
<1>7. /\ MailboxAgrees' /\ IsFiniteSet(DOMAIN jobs)'
      /\ DOMAIN jobs' \subseteq Identities /\ jobs' \in [DOMAIN jobs' -> Jobs]
      /\ Cardinality(DOMAIN jobs') <= MaxJobs
      /\ mailbox' \in Seq([id : DOMAIN jobs', state : ResultStates])
      /\ DOMAIN jobs \subseteq DOMAIN jobs'
      /\ \A i \in DOMAIN jobs' : \/ i \in DOMAIN jobs /\ jobs'[i].mesh = jobs[i].mesh
                                 \/ i = id /\ jobs'[i] = job /\ wanted
  <2>1. CASE jobs' = jobs
    BY <1>1, <1>3, <2>1 DEF MailboxAgrees
  <2>2. CASE jobs' = CancelAll(jobs, {id})
    BY <1>1, <1>3, <2>2, CancelledJobs
  <2>3. CASE wanted /\ id \notin DOMAIN jobs /\ jobs' = Put(jobs, id, job)
    <3>1. /\ DOMAIN jobs' = DOMAIN jobs \cup {id} /\ jobs'[id] = job
          /\ \A i \in DOMAIN jobs \ {id} : jobs'[i] = jobs[i]
      BY <2>3 DEF Put
    <3>2. jobs' \in [DOMAIN jobs \cup {id} -> Jobs]
      BY <1>3, <1>5, <2>3, PutType
    <3>3. IsFiniteSet(DOMAIN jobs') /\ Cardinality(DOMAIN jobs') <= MaxJobs
      <4>1. /\ IsFiniteSet(DOMAIN jobs \cup {id})
            /\ Cardinality(DOMAIN jobs \cup {id}) = Cardinality(DOMAIN jobs) + 1
            /\ Cardinality(DOMAIN jobs) \in Nat
        BY <1>3, <2>3, FS_AddElement, FS_CardinalityType
      <4>2. Cardinality(DOMAIN jobs) < MaxJobs /\ MaxJobs \in Nat
        BY <1>1, RenderingAssumption DEF HasCapacity
      <4> QED
        BY <3>1, <4>1, <4>2
    <3>4. mailbox \in Seq([id : DOMAIN jobs', state : ResultStates])
      <4>1. [id : DOMAIN jobs, state : ResultStates] \subseteq
                [id : DOMAIN jobs', state : ResultStates]
        BY <3>1
      <4> QED
        BY <1>3, <4>1, SeqMonotonic
    <3>5. MailboxAgrees'
      <4>1. mailbox \in [1..Len(mailbox) -> [id : DOMAIN jobs, state : ResultStates]]
        BY <1>3, LenProperties
      <4>2. \A i \in DOMAIN mailbox : jobs'[mailbox[i].id] = jobs[mailbox[i].id]
        BY <2>3, <3>1, <4>1
      <4> QED
        BY <1>1, <1>3, <4>2 DEF MailboxAgrees
    <3>6. DOMAIN jobs' \subseteq Identities
      BY <1>3, <3>1
    <3>7. \A i \in DOMAIN jobs' : \/ i \in DOMAIN jobs /\ jobs'[i].mesh = jobs[i].mesh
                                  \/ i = id /\ jobs'[i] = job /\ wanted
      BY <2>3, <3>1
    <3> QED
      BY <1>1, <3>1, <3>2, <3>3, <3>4, <3>5, <3>6, <3>7
  <2> QED
    BY <1>2, <2>1, <2>2, <2>3
<1>8. pending' \subseteq Identities
  BY <1>2, <1>3
<1>9. RenderingTypeOK'
  BY <1>1, <1>3, <1>4, <1>7, <1>8
  DEF RenderingTypeOK, World!ChunksTypeOK, World!Resident, At
<1>10. \A p \in Carried' : p \in Carried \/ \E c \in Loaded : p = <<Identity(c), Snapshot(c)>>
  <2>1. ASSUME NEW i \in DOMAIN jobs'
        PROVE  \/ <<i, jobs'[i].mesh>> \in Carried
               \/ \E c \in Loaded : <<i, jobs'[i].mesh>> = <<Identity(c), Snapshot(c)>>
    <3>1. CASE i \in DOMAIN jobs /\ jobs'[i].mesh = jobs[i].mesh
      BY <3>1 DEF Carried
    <3>2. CASE i = id /\ jobs'[i] = job /\ wanted
      BY <1>5, <3>2
    <3> QED
      BY <1>7, <3>1, <3>2
  <2>2. \A p \in {<<i, uploads'[i]>> : i \in DOMAIN uploads'} : p \in Carried
    BY <1>1 DEF Carried
  <2>3. DOMAIN frame'.results = {}
    BY <1>4
  <2> QED
    BY <2>1, <2>2, <2>3 DEF Carried
<1>11. GenerationsArePast' /\ MeshesAreSound' /\ CleanMeshesAreShown'
  BY <1>1, <1>9, <1>10, KeptParts
<1>12. FrameAgrees'
  <2>1. table' = palette'
    BY <1>1, <1>3 DEF FrameAgrees, At
  <2>2. \A c \in DOMAIN entry' : c \in Loaded' /\ entry'[c].generation = shownChunks'[c].generation
    BY <1>1, <1>3, <1>6 DEF FrameAgrees
  <2>3. \A c \in ResidentMeshes(entry)' : NearCamera(c, RetainDistance)'
    BY <1>1, <1>3 DEF FrameAgrees, NearCamera, ResidentMeshes
  <2>4. ResidentBytes(entry)' <= TerrainBudget
    <3>1. ResidentBytes(entry) <= TerrainBudget
      BY <1>1, <1>3 DEF FrameAgrees
    <3> QED
      BY <1>1, <3>1
  <2> QED
    BY <1>4, <2>1, <2>2, <2>3, <2>4 DEF FrameAgrees, At
<1>13. NothingIsForgotten'
  <2>1. UnderWay = pending \cup DOMAIN jobs \cup DOMAIN uploads
    BY <1>4, NothingInFlight
  <2>2. pending' \cup DOMAIN jobs' \cup DOMAIN uploads' \subseteq UnderWay'
    BY DEF UnderWay
  <2>3. ASSUME NEW c \in NearChunks
        PROVE  Attended(c)'
    <3>1. c \in Loaded /\ Attended(c) /\ NearCamera(c, MeshDistance)
      BY <1>1, <1>3, <2>3 DEF NothingIsForgotten, NearChunks, At
    <3>2. c \in DOMAIN entry /\ IsCached(Identity(c)) /\ Identity(c)[1] = c
      BY <1>3, <3>1, ChunkFacts DEF Attended, IsCached
    <3>3. World!ChunksTypeOK'
      BY <1>9 DEF RenderingTypeOK
    <3>4. CASE entry[c].suppressed
      <4>1. Identity(c)' = Identity(c)
        BY <1>3, <1>6, <3>1, <3>3, StandingWorld
      <4>2. IsCached(Identity(c))'
        BY <1>1, <3>2, <4>1 DEF IsCached
      <4> QED
        BY <1>1, <3>4, <4>2 DEF Attended
    <3>5. CASE ~entry[c].suppressed
      <4>1. Identity(c) = id => wanted
        BY <3>1, <3>2, <3>5 DEF wanted, Wanted, IsLoaded
      <4>2. Identity(c) \in UnderWay => Identity(c) \in pending' \cup DOMAIN jobs' \cup DOMAIN uploads'
        <5>1. CASE jobs' = Put(jobs, id, job)
          <6>1. id \in DOMAIN jobs'
            BY <5>1 DEF Put
          <6> QED
            BY <1>1, <1>2, <1>7, <2>1, <6>1
        <5>2. CASE jobs' # Put(jobs, id, job)
          BY <1>1, <1>2, <1>7, <2>1, <4>1, <5>2
        <5> QED
          BY <5>1, <5>2
      <4> QED
        BY <1>1, <1>3, <1>6, <2>2, <3>1, <3>2, <3>3, <4>2, AttendedKept
    <3> QED
      BY <3>4, <3>5
  <2>4. NearChunks' = NearChunks
    BY <1>1, <1>6 DEF NearChunks, NearCamera
  <2> QED
    BY <2>3, <2>4 DEF NothingIsForgotten
<1> QED
  BY <1>1, <1>3, <1>7, <1>9, <1>11, <1>12, <1>13 DEF RenderingInv, CacheIsFinite

\* A mark keeps what is resident, and its bytes.
LEMMA MarkedBytes ==
  ASSUME RenderingTypeOK, NEW id, NEW state \in {"upload_pending", "failed"},
         entry' = Marked(id, state)
  PROVE  ResidentBytes(entry)' = ResidentBytes(entry)
<1> DEFINE R == ResidentMeshes(entry)
           Turn(cache, g) == [s \in SUBSET R |->
               IF s = {} THEN 0
               ELSE Bytes(cache[CHOOSE x \in s : TRUE].mesh) + g[s \ {CHOOSE x \in s : TRUE}]]
<1>1. /\ DOMAIN entry' = DOMAIN entry
      /\ \A c \in DOMAIN entry : /\ entry'[c].mesh = entry[c].mesh
                                 /\ entry'[c].state = "resident" <=> entry[c].state = "resident"
  BY MarkedEffect
<1>2. ResidentMeshes(entry') = R
  <2>1. \A c \in DOMAIN entry' : entry'[c].state = "resident" <=> entry[c].state = "resident"
    BY <1>1
  <2> QED
    BY <1>1, <2>1 DEF ResidentMeshes
<1>3. ASSUME NEW g
      PROVE  Turn(entry', g) = Turn(entry, g)
  <2>1. ASSUME NEW s \in SUBSET R, s # {}
        PROVE  entry'[CHOOSE x \in s : TRUE].mesh = entry[CHOOSE x \in s : TRUE].mesh
    <3>1. (CHOOSE x \in s : TRUE) \in DOMAIN entry
      BY <2>1 DEF ResidentMeshes
    <3> QED
      BY <1>1, <3>1
  <2> QED
    BY <2>1
<1>4. ResidentBytes(entry) = (CHOOSE g : g = Turn(entry, g))[R]
  BY DEF ResidentBytes, MapThenSumSet, MapThenFoldSet
<1>5. ResidentBytes(entry') = (CHOOSE g : g = Turn(entry', g))[R]
  BY <1>2 DEF ResidentBytes, MapThenSumSet, MapThenFoldSet
<1> HIDE DEF Turn, R
<1>6. (CHOOSE g : g = Turn(entry', g)) = (CHOOSE g : g = Turn(entry, g))
  BY <1>3
<1> QED
  BY <1>4, <1>5, <1>6

\* A turn of scheduling that fails keeps the request, and marks the record at most.
LEMMA FailScheduleStep ==
  ASSUME RenderingInv, NEW id \in pending, FailSchedule(id)
  PROVE  RenderingInv'
<1>1. /\ frame.at = "schedule" /\ Wanted(id)
      /\ entry' = Marked(id, "failed") \/ entry' = entry
      /\ \/ frame' = [frame EXCEPT !.todo = @ \ {id}]
         \/ frame' = [frame EXCEPT !.todo = @ \ {id}, !.copied = @ + SnapshotCells(id[1])]
      /\ UNCHANGED <<shownChunks, shownEditLog, shownMeshRegions, shownNextGeneration, camera,
                     palette, table, pending, jobs, mailbox, uploads>>
  BY DEF FailSchedule, NextToMesh, At, shownVars
<1>2. /\ RenderingTypeOK /\ CacheIsFinite /\ MailboxAgrees /\ NothingIsForgotten
      /\ World!ChunksTypeOK /\ FrameAgrees
      /\ frame \in [at : FramePhases, todo : {frame.todo}, scheduled : Nat, copied : Nat,
                    results : Seq([id : Identities, state : ResultStates, mesh : Meshes])]
      /\ frame.todo \subseteq Identities
      /\ \A c \in DOMAIN entry : entry[c].state = "resident" <=> entry[c].mesh # None
      /\ disturbances' \in 0..MaxDisturbances
  BY <1>1, DisturbType DEF RenderingInv, RenderingTypeOK, At, FailSchedule
<1>3. /\ frame'.at = "schedule" /\ frame'.todo \subseteq Identities
      /\ frame'.results = frame.results /\ frame.results = <<>>
      /\ frame' \in [at : FramePhases, todo : {frame'.todo}, scheduled : Nat, copied : Nat,
                     results : Seq([id : Identities, state : ResultStates, mesh : Meshes])]
  <2>1. frame.results = <<>>
    BY <1>1, <1>2 DEF FrameAgrees, At
  <2>2. CASE frame' = [frame EXCEPT !.todo = @ \ {id}]
    BY <1>1, <1>2, <2>1, <2>2
  <2>3. CASE frame' = [frame EXCEPT !.todo = @ \ {id}, !.copied = @ + SnapshotCells(id[1])]
    <3>1. frame.copied \in Nat /\ SnapshotCells(id[1]) \in Nat
      BY <1>1, <1>2, SnapshotCellsType DEF Wanted, IsLoaded
    <3>2. /\ frame'.at = frame.at /\ frame'.todo = frame.todo \ {id}
          /\ frame'.results = frame.results /\ frame'.scheduled = frame.scheduled
          /\ frame'.copied = frame.copied + SnapshotCells(id[1])
          /\ frame' = [at |-> frame'.at, todo |-> frame'.todo, results |-> frame'.results,
                       scheduled |-> frame'.scheduled, copied |-> frame'.copied]
      BY <1>2, <2>3
    <3>3. frame.copied + SnapshotCells(id[1]) \in Nat
      BY <3>1
    <3> QED
      BY <1>1, <1>2, <2>1, <3>2, <3>3
  <2> QED
    BY <1>1, <2>2, <2>3
<1>4. /\ DOMAIN entry' = DOMAIN entry /\ entry' \in [DOMAIN entry -> Entries]
      /\ \A c \in DOMAIN entry :
           /\ entry'[c].generation = entry[c].generation
           /\ entry'[c].suppressed = entry[c].suppressed
           /\ entry'[c].mesh = entry[c].mesh
           /\ entry'[c].state = "resident" <=> entry[c].state = "resident"
      /\ ResidentBytes(entry)' = ResidentBytes(entry)
  <2>1. CASE entry' = Marked(id, "failed")
    BY <1>2, <2>1, MarkedEffect, MarkedBytes
  <2>2. CASE entry' = entry
    BY <1>2, <2>2 DEF RenderingTypeOK
  <2> QED
    BY <1>1, <2>1, <2>2
<1>5. SameWorld /\ Loaded' = Loaded
  BY <1>1, UnchangedWorld DEF SameWorld
<1>6. RenderingTypeOK'
  BY <1>1, <1>2, <1>3, <1>4
  DEF RenderingTypeOK, World!ChunksTypeOK, World!Resident, At
<1>7. \A p \in Carried' : p \in Carried
  BY <1>1, <1>3, CarriedKept
<1>8. GenerationsArePast' /\ MeshesAreSound' /\ CleanMeshesAreShown'
  BY <1>1, <1>4, <1>6, <1>7, KeptParts
<1>9. FrameAgrees'
  <2>1. table' = palette'
    BY <1>1, <1>2 DEF FrameAgrees, At
  <2>2. \A c \in DOMAIN entry' : c \in Loaded' /\ entry'[c].generation = shownChunks'[c].generation
    BY <1>1, <1>2, <1>4, <1>5 DEF FrameAgrees
  <2>3. \A c \in ResidentMeshes(entry)' : NearCamera(c, RetainDistance)'
    BY <1>1, <1>2, <1>4 DEF FrameAgrees, NearCamera, ResidentMeshes
  <2>4. ResidentBytes(entry)' <= TerrainBudget
    <3>1. ResidentBytes(entry) <= TerrainBudget
      BY <1>1, <1>2 DEF FrameAgrees
    <3> QED
      BY <1>4, <3>1
  <2> QED
    BY <1>3, <2>1, <2>2, <2>3, <2>4 DEF FrameAgrees, At
<1>10. NothingIsForgotten'
  <2>1. UnderWay' = UnderWay
    BY <1>1, <1>3 DEF UnderWay
  <2>2. ASSUME NEW c \in NearChunks
        PROVE  Attended(c)'
    <3>1. c \in Loaded /\ Attended(c)
      BY <1>1, <1>2, <2>2 DEF NothingIsForgotten, NearChunks, At
    <3>2. c \in DOMAIN entry
      BY <1>2, <3>1, ChunkFacts DEF Attended, IsCached
    <3>3. World!ChunksTypeOK'
      BY <1>6 DEF RenderingTypeOK
    <3>4. Identity(c) \in UnderWay => Identity(c) \in UnderWay'
      BY <2>1
    <3> QED
      BY <1>1, <1>2, <1>4, <1>5, <3>1, <3>2, <3>3, <3>4, AttendedKept
  <2>3. NearChunks' = NearChunks
    BY <1>1, <1>5 DEF NearChunks, NearCamera
  <2> QED
    BY <2>2, <2>3 DEF NothingIsForgotten
<1> QED
  BY <1>1, <1>2, <1>4, <1>6, <1>8, <1>9, <1>10 DEF RenderingInv, CacheIsFinite, MailboxAgrees

\* A chunk is looked at: its record is made or renewed, and it gets a mesh if
\* it needs one and is near.
LEMMA ReconcileStep ==
  ASSUME RenderingInv, NEW c \in Coords, Reconcile(c)
  PROVE  RenderingInv'
<1> DEFINE id       == Identity(c)
           old      == IF c \in DOMAIN entry /\ ~IsCached(id) THEN {<<c, entry[c].generation>>}
                                                              ELSE {}
           inserted == ~IsCached(id)
           cache    == IF inserted THEN Put(entry, c, NewEntry(id[2])) ELSE entry
           near     == NearCamera(c, MeshDistance)
           held     == HeldBack(cache, c)
           queued   == id \in DOMAIN uploads /\ uploads[id].revision = shownChunks[c].revision
                                             /\ uploads[id].table = table
           flying   == id \in DOMAIN jobs /\ jobs[id].mesh.revision = shownChunks[c].revision
           superseded == id \in DOMAIN jobs /\ ~flying
           needed   == ~queued /\ ~flying
                       /\ (~IsCurrent(cache[c], c) \/ "mesh" \in shownChunks[c].dirty)
           cancelled == old \cup (IF ~near \/ (~held /\ superseded) THEN {id} ELSE {})
           lost     == old \cup (IF near THEN {} ELSE {id})
<1>1. /\ frame.at = "reconcile" /\ c \in frame.todo
      /\ entry' = IF near /\ ~held THEN [cache EXCEPT ![c].suppressed = FALSE] ELSE cache
      /\ jobs' = CancelAll(jobs, cancelled)
      /\ pending' = IF ~near THEN pending \ (old \cup {id})
                    ELSE (pending \ old) \cup (IF inserted \/ (~held /\ needed) THEN {id} ELSE {})
      /\ uploads' = Restrict(uploads, DOMAIN uploads \ lost)
      /\ frame' = [frame EXCEPT !.todo = @ \ {c}]
  BY DEF Reconcile, At
<1>2. UNCHANGED <<shownChunks, shownEditLog, shownMeshRegions, shownNextGeneration, camera,
                  palette, table, disturbances, mailbox>>
  BY DEF Reconcile, inputVars, shownVars
<1>3. /\ RenderingTypeOK /\ CacheIsFinite /\ MailboxAgrees /\ NothingIsForgotten
      /\ CleanMeshesAreShown /\ World!ChunksTypeOK /\ FrameAgrees
      /\ DOMAIN entry \subseteq Coords /\ entry \in [DOMAIN entry -> Entries]
      /\ \A d \in DOMAIN entry : entry[d].state = "resident" <=> entry[d].mesh # None
      /\ pending \subseteq Identities
      /\ frame \in [at : FramePhases, todo : {frame.todo}, scheduled : Nat, copied : Nat,
                    results : Seq([id : Identities, state : ResultStates, mesh : Meshes])]
      /\ frame.todo \subseteq Coords
  BY <1>1 DEF RenderingInv, RenderingTypeOK, At
<1>4. /\ c \in Loaded /\ frame.results = <<>> /\ frame.todo \subseteq Loaded /\ table = palette
      /\ id \in Identities /\ id[1] = c /\ id[2] = shownChunks[c].generation /\ id[2] \in Nat
  BY <1>1, <1>3, ChunkFacts DEF FrameAgrees, At
<1>5. /\ frame'.at = "reconcile" /\ frame'.todo = frame.todo \ {c} /\ frame'.results = <<>>
      /\ frame' \in [at : FramePhases, todo : {frame'.todo}, scheduled : Nat, copied : Nat,
                     results : Seq([id : Identities, state : ResultStates, mesh : Meshes])]
  BY <1>1, <1>3, <1>4
<1>6. /\ IsCached(id) <=> c \in DOMAIN entry /\ entry[c].generation = shownChunks[c].generation
      /\ \A i \in old : i[1] = c /\ i # id
      /\ IsCached(id) => old = {}
  BY <1>4 DEF IsCached
<1>7. /\ DOMAIN cache = DOMAIN entry \cup {c} /\ cache \in [DOMAIN cache -> Entries]
      /\ \A d \in DOMAIN entry \ {c} : cache[d] = entry[d]
      /\ cache[c] = IF inserted THEN NewEntry(id[2]) ELSE entry[c]
  <2>1. NewEntry(id[2]) \in Entries
    BY <1>4 DEF NewEntry, Entries
  <2>2. CASE inserted
    <3>1. cache = Put(entry, c, NewEntry(id[2]))
      BY <2>2
    <3>2. Put(entry, c, NewEntry(id[2])) \in [DOMAIN entry \cup {c} -> Entries]
      BY <1>3, <2>1, PutType
    <3> QED
      BY <2>2, <3>1, <3>2 DEF Put
  <2>3. CASE ~inserted
    BY <1>3, <1>6, <2>3
  <2> QED
    BY <2>2, <2>3
<1> HIDE DEF cache
<1>8. /\ DOMAIN entry' = DOMAIN entry \cup {c} /\ entry' \in [DOMAIN entry' -> Entries]
      /\ \A d \in DOMAIN entry \ {c} : entry'[d] = entry[d]
      /\ entry'[c].generation = cache[c].generation /\ entry'[c].state = cache[c].state
      /\ entry'[c].mesh = cache[c].mesh
      /\ near /\ held => entry'[c].suppressed = cache[c].suppressed
  <2>1. c \in DOMAIN cache /\ cache[c] \in Entries
    BY <1>7
  <2>2. CASE near /\ ~held
    <3>1. entry' = [cache EXCEPT ![c].suppressed = FALSE]
      BY <1>1, <2>2
    <3>2. /\ DOMAIN entry' = DOMAIN cache /\ \A d \in DOMAIN cache \ {c} : entry'[d] = cache[d]
          /\ entry'[c] = [cache[c] EXCEPT !.suppressed = FALSE]
          /\ entry' = [d \in DOMAIN cache |-> entry'[d]]
      BY <1>7, <2>1, <3>1
    <3>3. /\ entry'[c] \in Entries /\ entry'[c].generation = cache[c].generation
          /\ entry'[c].state = cache[c].state /\ entry'[c].mesh = cache[c].mesh
      BY <2>1, <3>2 DEF Entries
    <3>4. entry' \in [DOMAIN cache -> Entries]
      BY <1>7, <3>2, <3>3
    <3> QED
      BY <1>7, <2>2, <3>2, <3>3, <3>4
  <2>3. CASE ~(near /\ ~held)
    BY <1>1, <1>7, <2>3
  <2> QED
    BY <2>2, <2>3
<1>9. /\ inserted => /\ entry'[c].generation = id[2] /\ entry'[c].state = "missing"
                     /\ entry'[c].mesh = None
      /\ ~inserted => /\ c \in DOMAIN entry /\ entry'[c].generation = entry[c].generation
                      /\ entry'[c].state = entry[c].state /\ entry'[c].mesh = entry[c].mesh
  BY <1>6, <1>7, <1>8 DEF NewEntry
<1>10. SameWorld /\ Loaded' = Loaded
  BY <1>2, UnchangedWorld DEF SameWorld
<1>11. /\ DOMAIN jobs' = DOMAIN jobs /\ \A i \in DOMAIN jobs : jobs'[i].mesh = jobs[i].mesh
       /\ MailboxAgrees' /\ IsFiniteSet(DOMAIN jobs)'
       /\ DOMAIN jobs' \subseteq Identities /\ jobs' \in [DOMAIN jobs' -> Jobs]
       /\ Cardinality(DOMAIN jobs') <= MaxJobs
       /\ mailbox' \in Seq([id : DOMAIN jobs', state : ResultStates])
  BY <1>1, <1>2, <1>3, CancelledJobs
<1>12. /\ DOMAIN uploads' = DOMAIN uploads \ lost
       /\ \A i \in DOMAIN uploads' : uploads'[i] = uploads[i]
       /\ DOMAIN uploads' \subseteq Identities /\ uploads' \in [DOMAIN uploads' -> Meshes]
  <2> DEFINE rest == DOMAIN uploads \ lost
  <2>1. uploads' = Restrict(uploads, rest) /\ rest \subseteq DOMAIN uploads
    BY <1>1
  <2> HIDE DEF rest
  <2>2. /\ DOMAIN uploads' = rest /\ \A i \in rest : uploads'[i] = uploads[i]
        /\ DOMAIN uploads' \subseteq Identities /\ uploads' \in [DOMAIN uploads' -> Meshes]
    BY <1>3, <2>1, FewerUploads
  <2> QED
    BY <2>2 DEF rest
<1>13. IsFiniteSet(DOMAIN entry)'
  BY <1>3, <1>8, FS_AddElement DEF CacheIsFinite
<1>14. pending' \subseteq Identities
  BY <1>1, <1>3, <1>4
<1>15. RenderingTypeOK'
  <2>1. /\ DOMAIN entry' \subseteq Coords /\ frame'.todo \subseteq Coords
        /\ \A d \in DOMAIN entry' : entry'[d].state = "resident" <=> entry'[d].mesh # None
    BY <1>3, <1>5, <1>8, <1>9
  <2> QED
    BY <1>2, <1>3, <1>5, <1>8, <1>11, <1>12, <1>14, <2>1
    DEF RenderingTypeOK, World!ChunksTypeOK, World!Resident, At
<1>16. \A p \in Carried' : p \in Carried
  BY <1>5, <1>11, <1>12, CarriedKept
<1>17. GenerationsArePast' /\ MeshesAreSound' /\ CleanMeshesAreShown'
  <2>1. ASSUME NEW d \in DOMAIN entry'
        PROVE  \/ /\ d \in DOMAIN entry /\ entry'[d].generation = entry[d].generation
                  /\ entry'[d].state = "resident" =>
                         entry[d].state = "resident" /\ entry'[d].mesh = entry[d].mesh
               \/ /\ d \in Loaded /\ entry'[d].generation = shownChunks[d].generation
                  /\ entry'[d].state # "resident"
    <3>1. CASE d # c
      BY <1>8, <2>1, <3>1
    <3>2. CASE d = c /\ inserted
      BY <1>4, <1>9, <3>2
    <3>3. CASE d = c /\ ~inserted
      BY <1>9, <3>3
    <3> QED
      BY <3>1, <3>2, <3>3
  <2> QED
    BY <1>2, <1>15, <1>16, <2>1, KeptParts
<1>18. FrameAgrees'
  <2>1. table' = palette' /\ frame'.todo \subseteq Loaded'
    BY <1>2, <1>4, <1>5, <1>10
  <2> QED
    BY <1>5, <2>1 DEF FrameAgrees, At
<1>19. NothingIsForgotten'
  <2>1. UnderWay = pending \cup DOMAIN jobs \cup DOMAIN uploads
    BY <1>4, NothingInFlight
  <2>2. pending' \cup DOMAIN jobs' \cup DOMAIN uploads' \subseteq UnderWay'
    BY DEF UnderWay
  <2>3. World!ChunksTypeOK'
    BY <1>15 DEF RenderingTypeOK
  <2>4. ASSUME NEW d \in NearChunks, d # c, d \notin frame'.todo
        PROVE  Attended(d)'
    <3>1. d \in Loaded /\ Attended(d)
      BY <1>1, <1>3, <1>5, <2>4 DEF NothingIsForgotten, NearChunks, At
    <3>2. d \in DOMAIN entry /\ Identity(d)[1] = d
      BY <1>3, <3>1, ChunkFacts DEF Attended, IsCached
    <3>3. Identity(d) \notin old /\ Identity(d) # id
      BY <1>4, <1>6, <2>4, <3>2
    <3>4. Identity(d) \in UnderWay => Identity(d) \in UnderWay'
      BY <1>1, <1>11, <1>12, <2>1, <2>2, <3>3
    <3> QED
      BY <1>2, <1>3, <1>8, <1>10, <2>3, <2>4, <3>1, <3>2, <3>4, AttendedKept
  <2>5. ASSUME c \in NearChunks
        PROVE  Attended(c)'
    <3>1. near /\ Identity(c)' = id /\ Shown(c)' = Shown(c)
      BY <1>3, <1>4, <1>10, <2>3, <2>5, StandingWorld DEF NearChunks
    <3>2. IsCached(Identity(c))'
      <4>1. c \in DOMAIN entry' /\ entry'[c].generation = id[2]
        BY <1>4, <1>6, <1>8, <1>9
      <4> QED
        BY <1>4, <3>1, <4>1 DEF IsCached
    <3>3. CASE id \in UnderWay'
      BY <3>1, <3>2, <3>3 DEF Attended
    <3>4. CASE id \notin UnderWay'
      <4>1. /\ ~inserted /\ ~(~held /\ needed) /\ id \notin DOMAIN jobs
            /\ id \notin DOMAIN uploads'
        BY <1>1, <1>11, <2>2, <3>1, <3>4
      <4>2. id \notin DOMAIN uploads
        BY <1>6, <1>12, <3>1, <4>1
      <4>3. CASE held
        <5>1. cache[c].suppressed
          BY <4>3 DEF HeldBack
        <5>2. entry'[c].suppressed
          BY <1>8, <3>1, <4>3, <5>1
        <5> QED
          BY <3>2, <5>2 DEF Attended
      <4>4. CASE ~held
        <5>1. IsCurrent(cache[c], c) /\ "mesh" \notin shownChunks[c].dirty
          BY <4>1, <4>2, <4>4
        <5>2. cache[c] = entry[c]
          BY <1>7, <4>1
        <5>3. entry[c].state = "resident" /\ entry[c].mesh.table = palette
          BY <1>4, <5>1, <5>2 DEF IsCurrent
        <5>4. entry[c].mesh.shown = Shown(c)
          BY <1>3, <1>4, <4>1, <5>1, <5>3 DEF CleanMeshesAreShown
        <5> QED
          BY <1>2, <1>9, <3>1, <3>2, <4>1, <5>3, <5>4 DEF Attended
      <4> QED
        BY <4>3, <4>4
    <3> QED
      BY <3>3, <3>4
  <2>6. NearChunks' = NearChunks
    BY <1>2, <1>10 DEF NearChunks, NearCamera
  <2> QED
    BY <1>5, <2>4, <2>5, <2>6 DEF NothingIsForgotten, At
<1> QED
  BY <1>11, <1>13, <1>15, <1>17, <1>18, <1>19 DEF RenderingInv, CacheIsFinite
-----------------------------------------------------------------------------
(* The steps of the world.                                                    *)

\* Marking chunks changes nothing but their flags.
LEMMA WorldMarks ==
  ASSUME NEW R, NEW resident \in [R -> World!ChunkRecords], NEW S
  PROVE  LET marked == World!MarkMesh(resident, S)
         IN /\ marked \in [R -> World!ChunkRecords]
            /\ \A d \in R : /\ marked[d].generation = resident[d].generation
                            /\ marked[d].revision = resident[d].revision
                            /\ marked[d].cells = resident[d].cells
                            /\ d \in S => "mesh" \in marked[d].dirty
                            /\ d \notin S => marked[d] = resident[d]
<1> DEFINE marked == World!MarkMesh(resident, S)
<1>1. marked = [d \in R |-> IF d \in S THEN [resident[d] EXCEPT !.dirty = @ \cup {"mesh"}]
                                       ELSE resident[d]]
  BY DEF World!MarkMesh
<1> HIDE DEF marked
<1>2. ASSUME NEW d \in R
      PROVE  /\ marked[d] \in World!ChunkRecords
             /\ marked[d].generation = resident[d].generation
             /\ marked[d].revision = resident[d].revision
             /\ marked[d].cells = resident[d].cells
             /\ d \in S => "mesh" \in marked[d].dirty
             /\ d \notin S => marked[d] = resident[d]
  <2>1. resident[d] \in World!ChunkRecords
    OBVIOUS
  <2>2. marked[d] = IF d \in S THEN [resident[d] EXCEPT !.dirty = @ \cup {"mesh"}]
                               ELSE resident[d]
    BY <1>1
  <2> QED
    BY <2>1, <2>2 DEF World!ChunkRecords, World!DirtyFlags
<1>3. marked \in [R -> World!ChunkRecords]
  BY <1>1, <1>2
<1> QED
  BY <1>2, <1>3 DEF marked

\* Recording an edit in a delta makes a delta.
LEMMA WorldRecords ==
  ASSUME NEW delta \in World!Deltas, NEW v \in Voxels, NEW previous \in Cells, NEW cell \in Cells
  PROVE  World!Recorded(delta, v, previous, cell) \in World!Deltas
<1> DEFINE Records == [previous : Cells, next : Cells]
           new == World!Recorded(delta, v, previous, cell)
<1>1. PICK S \in SUBSET Voxels : delta \in [S -> Records]
  BY DEF World!Deltas, World!Voxels, Voxels
<1>2. \A T \in SUBSET Voxels : [T -> Records] \subseteq World!Deltas
  BY DEF World!Deltas, World!Voxels, Voxels
<1>3. CASE v \notin DOMAIN delta
  <2>1. new = [w \in S \cup {v} |->
                  IF w = v THEN [previous |-> previous, next |-> cell] ELSE delta[w]]
    BY <1>1, <1>3 DEF World!Recorded
  <2>2. new \in [S \cup {v} -> Records]
    BY <1>1, <2>1
  <2>3. S \cup {v} \in SUBSET Voxels
    OBVIOUS
  <2> QED
    BY <1>2, <2>2, <2>3
<1>4. CASE v \in DOMAIN delta /\ delta[v].previous = cell
  <2>1. new = [w \in S \ {v} |-> delta[w]]
    BY <1>1, <1>4 DEF World!Recorded, World!Restrict
  <2>2. new \in [S \ {v} -> Records]
    BY <1>1, <2>1
  <2>3. S \ {v} \in SUBSET Voxels
    OBVIOUS
  <2> QED
    BY <1>2, <2>2, <2>3
<1>5. CASE v \in DOMAIN delta /\ delta[v].previous # cell
  <2>1. new = [delta EXCEPT ![v].next = cell]
    BY <1>5 DEF World!Recorded
  <2>2. delta[v] \in Records /\ v \in S
    BY <1>1, <1>5
  <2>3. [delta[v] EXCEPT !.next = cell] \in Records
    BY <2>2
  <2>4. new \in [S -> Records]
    BY <1>1, <2>1, <2>2, <2>3
  <2> QED
    BY <1>2, <2>4
<1> QED
  BY <1>3, <1>4, <1>5

\* What a change of the world has to leave of the invariant: the rest stands
\* still between two frames.
LEMMA WorldChanges ==
  ASSUME RenderingInv, Change, World!ChunksTypeOK', Evolves,
         UNCHANGED <<camera, palette, table>>,
         jobs' = jobs \/ \E ids : jobs' = CancelAll(jobs, ids),
         pending' \subseteq Identities,
         uploads' = uploads \/ \E S : uploads' = Restrict(uploads, DOMAIN uploads \ S),
         DOMAIN entry' \subseteq Coords, IsFiniteSet(DOMAIN entry)',
         entry' \in [DOMAIN entry' -> Entries],
         \A c \in DOMAIN entry' : entry'[c].state = "resident" <=> entry'[c].mesh # None,
         GenerationsArePast', CleanMeshesAreShown'
  PROVE  RenderingInv'
<1>1. /\ RenderingTypeOK /\ CacheIsFinite /\ MailboxAgrees /\ FrameAgrees /\ MeshesAreSound
      /\ World!ChunksTypeOK /\ disturbances' \in 0..MaxDisturbances
      /\ frame' = frame /\ mailbox' = mailbox /\ frame.at = "idle"
  BY DisturbType DEF RenderingInv, RenderingTypeOK, Change
<1>2. /\ DOMAIN jobs' = DOMAIN jobs /\ \A i \in DOMAIN jobs : jobs'[i].mesh = jobs[i].mesh
      /\ MailboxAgrees' /\ IsFiniteSet(DOMAIN jobs)'
      /\ DOMAIN jobs' \subseteq Identities /\ jobs' \in [DOMAIN jobs' -> Jobs]
      /\ Cardinality(DOMAIN jobs') <= MaxJobs
      /\ mailbox' \in Seq([id : DOMAIN jobs', state : ResultStates])
  <2>1. CASE jobs' = jobs
    BY <1>1, <2>1 DEF RenderingTypeOK, MailboxAgrees, CacheIsFinite
  <2>2. CASE \E ids : jobs' = CancelAll(jobs, ids)
    BY <1>1, <2>2, CancelledJobs
  <2> QED
    BY <2>1, <2>2
<1>3. /\ \A i \in DOMAIN uploads' : i \in DOMAIN uploads /\ uploads'[i] = uploads[i]
      /\ DOMAIN uploads' \subseteq Identities /\ uploads' \in [DOMAIN uploads' -> Meshes]
  <2>1. CASE uploads' = uploads
    BY <1>1, <2>1 DEF RenderingTypeOK
  <2>2. ASSUME NEW S, uploads' = Restrict(uploads, DOMAIN uploads \ S)
        PROVE  /\ \A i \in DOMAIN uploads' : i \in DOMAIN uploads /\ uploads'[i] = uploads[i]
               /\ DOMAIN uploads' \subseteq Identities /\ uploads' \in [DOMAIN uploads' -> Meshes]
    <3> DEFINE rest == DOMAIN uploads \ S
    <3>1. uploads' = Restrict(uploads, rest) /\ rest \subseteq DOMAIN uploads
      BY <2>2
    <3> HIDE DEF rest
    <3> QED
      BY <1>1, <3>1, FewerUploads
  <2> QED
    BY <2>1, <2>2
<1>4. RenderingTypeOK'
  BY <1>1, <1>2, <1>3 DEF RenderingTypeOK, At
<1>5. \A p \in Carried' : p \in Carried
  BY <1>1, <1>2, <1>3, CarriedKept
<1>6. ASSUME NEW p \in Carried'
      PROVE  Sound(p[1], p[2])'
  <2>1. p[1] \in Identities /\ p[2] \in Meshes /\ Sound(p[1], p[2])
    BY <1>1, <1>5, <1>6, CarriedType DEF MeshesAreSound
  <2> QED
    BY <1>1, <2>1, SoundEvolves
<1>7. MeshesAreSound'
  BY <1>6 DEF MeshesAreSound
<1>8. FrameAgrees' /\ NothingIsForgotten'
  BY <1>1 DEF FrameAgrees, NothingIsForgotten, At
<1> QED
  BY <1>2, <1>4, <1>7, <1>8 DEF RenderingInv, CacheIsFinite

\* A chunk that no change has touched, and whose neighbours show it the faces
\* they have shown it, is shown as it was; all others are marked.
LEMMA UntouchedIsShown ==
  ASSUME RenderingInv, NEW touched,
         \A c \in Loaded' \cap touched : "mesh" \in shownChunks'[c].dirty,
         \A c \in Loaded' \ touched :
             /\ c \in Loaded /\ shownChunks'[c] = shownChunks[c]
             /\ c - 1 \in Loaded' <=> c - 1 \in Loaded
             /\ c + 1 \in Loaded' <=> c + 1 \in Loaded
             /\ c - 1 \in Loaded => shownChunks'[c - 1].cells[EdgeLength - 1]
                                        = shownChunks[c - 1].cells[EdgeLength - 1]
             /\ c + 1 \in Loaded => shownChunks'[c + 1].cells[0] = shownChunks[c + 1].cells[0]
             /\ c \in DOMAIN entry' => c \in DOMAIN entry /\ entry'[c] = entry[c]
  PROVE  CleanMeshesAreShown'
<1>1. ASSUME NEW c \in Loaded', IsCached(Identity(c))', entry'[c].state = "resident",
             "mesh" \notin shownChunks'[c].dirty
      PROVE  entry'[c].mesh.shown = Shown(c)'
  <2>1. /\ c \in Loaded /\ shownChunks'[c] = shownChunks[c]
        /\ c - 1 \in Loaded' <=> c - 1 \in Loaded
        /\ c + 1 \in Loaded' <=> c + 1 \in Loaded
        /\ c - 1 \in Loaded => shownChunks'[c - 1].cells[EdgeLength - 1]
                                   = shownChunks[c - 1].cells[EdgeLength - 1]
        /\ c + 1 \in Loaded => shownChunks'[c + 1].cells[0] = shownChunks[c + 1].cells[0]
        /\ c \in DOMAIN entry' => c \in DOMAIN entry /\ entry'[c] = entry[c]
    BY <1>1
  <2>2. Shown(c)' = Shown(c) /\ Identity(c)' = Identity(c)
    BY <2>1 DEF Shown, Identity
  <2>3. Identity(c)[1] = c
    BY DEF Identity
  <2>4. c \in DOMAIN entry' /\ entry'[c].generation = Identity(c)[2]
    BY <1>1, <2>2, <2>3 DEF IsCached
  <2>5. entry'[c] = entry[c] /\ IsCached(Identity(c))
    BY <2>1, <2>3, <2>4 DEF IsCached
  <2> QED
    BY <1>1, <2>1, <2>2, <2>5 DEF RenderingInv, CleanMeshesAreShown
<1> QED
  BY <1>1 DEF CleanMeshesAreShown

\* A voxel is edited between frames.
LEMMA WorldEditStep ==
  ASSUME RenderingInv, NEW k \in Coords, NEW v \in Voxels, NEW cell \in Cells, Edit(k, v, cell)
  PROVE  RenderingInv'
<1> DEFINE previous == shownChunks[k].cells[v]
           radius   == World!Larger(InvalidationRadius[previous], InvalidationRadius[cell])
           touched  == {k} \cup World!RichNeighbors(k, v, radius) \cup World!BoundaryNeighbors(k, v)
           edited1  == [shownChunks EXCEPT ![k].cells[v] = cell, ![k].revision = @ + 1,
                                           ![k].dirty = World!DirtyFlags]
<1>1. /\ Change /\ k \in Loaded
      /\ shownChunks' = World!MarkMesh(edited1, touched)
      /\ shownEditLog' =
             [shownEditLog EXCEPT ![k] = World!Recorded(@, v, previous, cell)]
      /\ shownMeshRegions' = shownMeshRegions \cup touched
      /\ shownNextGeneration' = shownNextGeneration
      /\ UNCHANGED <<camera, palette, table, entry, pending, jobs, uploads>>
  BY DEF Edit, World!SetVoxel, Loaded
<1>2. /\ RenderingTypeOK /\ CacheIsFinite /\ GenerationsArePast /\ World!ChunksTypeOK
      /\ shownEditLog \in [Coords -> World!Deltas] /\ shownMeshRegions \subseteq Coords
      /\ shownNextGeneration \in Nat /\ shownChunks \in [Loaded -> World!ChunkRecords]
      /\ Loaded \subseteq Coords
  BY ChunkFacts DEF RenderingInv, RenderingTypeOK, World!ChunksTypeOK, Loaded
<1>3. touched \subseteq Loaded
  BY <1>1 DEF World!RichNeighbors, World!BoundaryNeighbors, World!FaceNeighbors, Loaded
<1>4. /\ edited1 \in [Loaded -> World!ChunkRecords]
      /\ edited1[k].generation = shownChunks[k].generation
      /\ edited1[k].revision = shownChunks[k].revision + 1
      /\ edited1[k].cells = [shownChunks[k].cells EXCEPT ![v] = cell]
      /\ \A c \in Loaded \ {k} : edited1[c] = shownChunks[c]
  <2>1. shownChunks[k] \in World!ChunkRecords
    BY <1>1, <1>2
  <2>2. /\ shownChunks[k].generation \in Nat /\ shownChunks[k].revision + 1 \in Nat
        /\ shownChunks[k].cells \in [Voxels -> Cells]
        /\ [shownChunks[k].cells EXCEPT ![v] = cell] \in [Voxels -> Cells]
    BY <1>1, <1>2, ChunkFacts
  <2>3. edited1[k] = [shownChunks[k] EXCEPT !.cells = [shownChunks[k].cells EXCEPT ![v] = cell],
                                            !.revision = @ + 1, !.dirty = World!DirtyFlags]
    BY <1>1, <1>2, <2>1
  <2>4. DOMAIN edited1 = Loaded /\ \A c \in Loaded \ {k} : edited1[c] = shownChunks[c]
    BY <1>1, <1>2
  <2> HIDE DEF edited1
  <2>5. /\ edited1[k] \in World!ChunkRecords
        /\ edited1[k].generation = shownChunks[k].generation
        /\ edited1[k].revision = shownChunks[k].revision + 1
        /\ edited1[k].cells = [shownChunks[k].cells EXCEPT ![v] = cell]
    BY <2>1, <2>2, <2>3 DEF World!ChunkRecords, World!Voxels, Voxels
  <2>6. edited1 = [c \in DOMAIN edited1 |-> edited1[c]]
    BY DEF edited1
  <2>7. edited1 \in [Loaded -> World!ChunkRecords]
    BY <1>2, <2>4, <2>5, <2>6
  <2> QED
    BY <2>4, <2>5, <2>7
<1> HIDE DEF touched, edited1
<1>5. /\ shownChunks' \in [Loaded -> World!ChunkRecords]
      /\ \A c \in Loaded : /\ shownChunks'[c].generation = edited1[c].generation
                           /\ shownChunks'[c].revision = edited1[c].revision
                           /\ shownChunks'[c].cells = edited1[c].cells
                           /\ c \in touched => "mesh" \in shownChunks'[c].dirty
                           /\ c \notin touched => shownChunks'[c] = edited1[c]
  BY <1>1, <1>4, WorldMarks
<1>6. Loaded' = Loaded
  BY <1>5 DEF Loaded, World!Resident
<1>7. World!ChunksTypeOK'
  <2>1. shownEditLog[k] \in World!Deltas /\ previous \in Cells
    BY <1>1, <1>2, ChunkFacts
  <2>2. World!Recorded(shownEditLog[k], v, previous, cell) \in World!Deltas
    BY <2>1, WorldRecords
  <2>3. shownEditLog' \in [Coords -> World!Deltas]
    BY <1>1, <1>2, <2>2
  <2>4. shownMeshRegions' \subseteq Coords
    BY <1>1, <1>2, <1>3
  <2>5. DOMAIN shownChunks' = Loaded
    BY <1>5
  <2> QED
    BY <1>1, <1>2, <1>5, <2>3, <2>4, <2>5 DEF World!ChunksTypeOK, World!Resident
<1>8. ASSUME NEW c \in Loaded
      PROVE  /\ shownChunks'[c].generation = shownChunks[c].generation
             /\ shownChunks[c].revision <= shownChunks'[c].revision
             /\ shownChunks'[c].revision = shownChunks[c].revision =>
                    shownChunks'[c].cells = shownChunks[c].cells
  <2>1. shownChunks[c].revision \in Nat
    BY <1>2, ChunkFacts
  <2>2. CASE c = k
    BY <1>4, <1>5, <2>1, <2>2
  <2>3. CASE c # k
    BY <1>4, <1>5, <2>1, <2>3
  <2> QED
    BY <2>2, <2>3
<1>9. Evolves
  BY <1>1, <1>2, <1>6, <1>8 DEF Evolves
<1>10. GenerationsArePast'
  BY <1>1, <1>2, <1>6, <1>8 DEF GenerationsArePast
<1>11. ASSUME NEW c \in Loaded \ touched
       PROVE  /\ shownChunks'[c] = shownChunks[c]
              /\ c - 1 \in Loaded => shownChunks'[c - 1].cells[EdgeLength - 1]
                                         = shownChunks[c - 1].cells[EdgeLength - 1]
              /\ c + 1 \in Loaded => shownChunks'[c + 1].cells[0] = shownChunks[c + 1].cells[0]
  <2>1. c # k /\ c \notin World!BoundaryNeighbors(k, v) /\ c \in Int /\ k \in Int
        /\ EdgeLength \in Nat \ {0}
    BY <1>2, ChunkAssumption DEF touched
  <2>2. shownChunks'[c] = shownChunks[c]
    BY <1>4, <1>5, <2>1
  <2>3. ASSUME NEW n \in Loaded, NEW w \in Voxels, n # k \/ w # v
        PROVE  shownChunks'[n].cells[w] = shownChunks[n].cells[w]
    <3>1. CASE n # k
      BY <1>4, <1>5, <3>1
    <3>2. CASE n = k
      <4>1. shownChunks[k].cells \in [Voxels -> Cells]
        BY <1>1, <1>2, ChunkFacts
      <4> QED
        BY <1>4, <1>5, <2>3, <3>2, <4>1
    <3> QED
      BY <3>1, <3>2
  <2>4. EdgeLength - 1 \in Voxels /\ 0 \in Voxels
    BY <2>1 DEF Voxels
  <2>5. c - 1 = k => v # EdgeLength - 1
    BY <2>1 DEF World!BoundaryNeighbors, World!FaceNeighbors, Loaded
  <2>6. c + 1 = k => v # 0
    BY <2>1 DEF World!BoundaryNeighbors, World!FaceNeighbors, Loaded
  <2> QED
    BY <2>2, <2>3, <2>4, <2>5, <2>6
<1>12. CleanMeshesAreShown'
  <2>1. \A c \in Loaded' \cap touched : "mesh" \in shownChunks'[c].dirty
    BY <1>5, <1>6
  <2> QED
    BY <1>1, <1>6, <1>11, <2>1, UntouchedIsShown
<1> QED
  BY <1>1, <1>2, <1>7, <1>9, <1>10, <1>12, WorldChanges DEF RenderingTypeOK, CacheIsFinite

\* What a world step on chunk k leaves of another that is not its neighbour.
LEMMA NotAdjacent ==
  ASSUME NEW k \in Coords, NEW c \in Coords, c # k, c \in Loaded,
         c \notin World!FaceNeighbors(k)
  PROVE  c - 1 # k /\ c + 1 # k
<1>1. c \in Int /\ k \in Int
  BY ChunkAssumption
<1> QED
  BY <1>1 DEF World!FaceNeighbors, Loaded

\* A chunk is unloaded between frames.
LEMMA WorldUnloadStep ==
  ASSUME RenderingInv, NEW k \in Coords, NEW reported \in BOOLEAN, Unload(k, reported)
  PROVE  RenderingInv'
<1> DEFINE touched == World!FaceNeighbors(k) \ {k}
           rest    == Restrict(shownChunks, Loaded \ {k})
           ids     == {Identity(k)}
<1>1. /\ Change /\ k \in Loaded
      /\ shownChunks' = World!MarkMesh(rest, touched)
      /\ shownEditLog' = shownEditLog /\ shownMeshRegions' = shownMeshRegions
      /\ shownNextGeneration' = shownNextGeneration
      /\ UNCHANGED <<camera, palette, table>>
  BY DEF Unload, World!Erase, World!Without, Loaded, Restrict, World!Restrict
<1>2. /\ RenderingTypeOK /\ CacheIsFinite /\ GenerationsArePast /\ World!ChunksTypeOK
      /\ shownChunks \in [Loaded -> World!ChunkRecords] /\ Loaded \subseteq Coords
      /\ DOMAIN entry \subseteq Coords /\ entry \in [DOMAIN entry -> Entries]
      /\ \A c \in DOMAIN entry : entry[c].state = "resident" <=> entry[c].mesh # None
      /\ pending \subseteq Identities /\ shownNextGeneration \in Nat
  BY ChunkFacts DEF RenderingInv, RenderingTypeOK, World!ChunksTypeOK, Loaded
<1>3. /\ rest \in [Loaded \ {k} -> World!ChunkRecords]
      /\ \A c \in Loaded \ {k} : rest[c] = shownChunks[c]
  BY <1>2 DEF Restrict
<1>4. /\ jobs' = jobs \/ \E s : jobs' = CancelAll(jobs, s)
      /\ uploads' = uploads \/ \E s : uploads' = Restrict(uploads, DOMAIN uploads \ s)
      /\ pending' \subseteq Identities
      /\ DOMAIN entry' \subseteq DOMAIN entry /\ \A c \in DOMAIN entry' : entry'[c] = entry[c]
      /\ entry' \in [DOMAIN entry' -> Entries]
  <2>1. CASE reported /\ Forget(ids)
    <3>1. /\ jobs' = CancelAll(jobs, ids)
          /\ uploads' = Restrict(uploads, DOMAIN uploads \ ids)
          /\ pending' = pending \ ids
      BY <2>1 DEF Forget
    <3> DEFINE kept == {c \in DOMAIN entry : <<c, entry[c].generation>> \notin ids}
    <3>2. entry' = Restrict(entry, kept)
      BY <2>1 DEF Forget
    <3>3. kept \subseteq DOMAIN entry
      OBVIOUS
    <3> HIDE DEF kept
    <3>4. entry' = [c \in kept |-> entry[c]]
      BY <3>2 DEF Restrict
    <3> QED
      BY <1>2, <3>1, <3>3, <3>4
  <2>2. CASE ~reported
    <3>1. UNCHANGED <<jobs, pending, uploads, entry>>
      BY <2>2 DEF Unload
    <3> QED
      BY <1>2, <3>1
  <2> QED
    BY <2>1, <2>2 DEF Unload
<1>5. IsFiniteSet(DOMAIN entry)'
  BY <1>2, <1>4, FS_Subset DEF CacheIsFinite
<1> HIDE DEF rest, touched
<1>6. /\ shownChunks' \in [Loaded \ {k} -> World!ChunkRecords]
      /\ \A c \in Loaded \ {k} :
             /\ shownChunks'[c].generation = rest[c].generation
             /\ shownChunks'[c].revision = rest[c].revision
             /\ shownChunks'[c].cells = rest[c].cells
             /\ c \in touched => "mesh" \in shownChunks'[c].dirty
             /\ c \notin touched => shownChunks'[c] = rest[c]
  BY <1>1, <1>3, WorldMarks
<1>7. Loaded' = Loaded \ {k}
  BY <1>6 DEF Loaded, World!Resident
<1>8. World!ChunksTypeOK'
  <2>1. DOMAIN shownChunks' = Loaded \ {k}
    BY <1>6
  <2> QED
    BY <1>1, <1>2, <1>6, <2>1 DEF World!ChunksTypeOK, World!Resident
<1>9. ASSUME NEW c \in Loaded'
      PROVE  /\ c \in Loaded /\ shownChunks'[c].generation = shownChunks[c].generation
             /\ shownChunks'[c].revision = shownChunks[c].revision
             /\ shownChunks'[c].revision \in Nat
             /\ shownChunks'[c].cells = shownChunks[c].cells
  BY <1>2, <1>3, <1>6, <1>7, ChunkFacts
<1>10. Evolves
  BY <1>1, <1>2, <1>9 DEF Evolves
<1>11. GenerationsArePast'
  BY <1>1, <1>2, <1>4, <1>9 DEF GenerationsArePast
<1>12. CleanMeshesAreShown'
  <2>1. \A c \in Loaded' \cap touched : "mesh" \in shownChunks'[c].dirty
    BY <1>6, <1>7
  <2>2. ASSUME NEW c \in Loaded' \ touched
        PROVE  /\ c \in Loaded /\ shownChunks'[c] = shownChunks[c]
               /\ c - 1 # k /\ c + 1 # k
    <3>1. c \in Loaded /\ c # k /\ c \notin World!FaceNeighbors(k)
      BY <1>7 DEF touched
    <3>2. c - 1 # k /\ c + 1 # k
      BY <1>2, <3>1, NotAdjacent
    <3> QED
      BY <1>3, <1>6, <3>1, <3>2
  <2>3. ASSUME NEW c \in Loaded' \ touched
        PROVE  /\ c \in Loaded /\ shownChunks'[c] = shownChunks[c]
               /\ c - 1 \in Loaded' <=> c - 1 \in Loaded
               /\ c + 1 \in Loaded' <=> c + 1 \in Loaded
               /\ c - 1 \in Loaded => shownChunks'[c - 1].cells[EdgeLength - 1]
                                          = shownChunks[c - 1].cells[EdgeLength - 1]
               /\ c + 1 \in Loaded => shownChunks'[c + 1].cells[0] = shownChunks[c + 1].cells[0]
    <3>1. /\ c - 1 \in Loaded => c - 1 \in Loaded'
          /\ c + 1 \in Loaded => c + 1 \in Loaded'
      BY <1>7, <2>2
    <3> QED
      BY <1>7, <1>9, <2>2, <3>1
  <2> QED
    BY <1>4, <2>1, <2>3, UntouchedIsShown
<1> QED
  BY <1>1, <1>2, <1>4, <1>5, <1>8, <1>10, <1>11, <1>12, WorldChanges

\* A chunk is loaded between frames.
LEMMA WorldLoadStep ==
  ASSUME RenderingInv, NEW k \in Coords, NEW reported \in BOOLEAN, Load(k, reported)
  PROVE  RenderingInv'
<1> DEFINE arrival == [generation |-> shownNextGeneration, revision |-> 2 + 0,
                       cells |-> Baseline[k], dirty |-> {"mesh"}]
           more    == [d \in Loaded \cup {k} |-> IF d = k THEN arrival ELSE shownChunks[d]]
           faces   == World!FaceNeighbors(k)
           touched == {k} \cup faces
           id      == <<k, shownNextGeneration>>
           stale   == IF k \in DOMAIN entry THEN {<<k, entry[k].generation>>} ELSE {}
<1>1. /\ Change /\ k \notin Loaded
      /\ shownChunks' = World!MarkMesh(more, faces)
      /\ shownEditLog' = shownEditLog
      /\ shownMeshRegions' = shownMeshRegions \cup {k} \cup faces
      /\ shownNextGeneration' = shownNextGeneration + 1
      /\ UNCHANGED <<camera, palette, table>>
  BY DEF Load, World!InsertGenerated, World!Insert, Loaded
<1>2. /\ RenderingTypeOK /\ CacheIsFinite /\ GenerationsArePast /\ World!ChunksTypeOK
      /\ shownChunks \in [Loaded -> World!ChunkRecords] /\ Loaded \subseteq Coords
      /\ shownMeshRegions \subseteq Coords
      /\ DOMAIN entry \subseteq Coords /\ entry \in [DOMAIN entry -> Entries]
      /\ \A c \in DOMAIN entry : entry[c].state = "resident" <=> entry[c].mesh # None
      /\ pending \subseteq Identities /\ shownNextGeneration \in Nat
  BY ChunkFacts DEF RenderingInv, RenderingTypeOK, World!ChunksTypeOK, Loaded
<1>3. faces \subseteq Loaded
  BY DEF World!FaceNeighbors, Loaded
<1>4. arrival \in World!ChunkRecords
  <2>1. Baseline[k] \in [Voxels -> Cells]
    BY ChunkAssumption
  <2> QED
    BY <1>2, <2>1 DEF World!ChunkRecords, World!DirtyFlags, World!Voxels, Voxels
<1>5. /\ more \in [Loaded \cup {k} -> World!ChunkRecords]
      /\ more[k] = arrival /\ \A c \in Loaded : more[c] = shownChunks[c]
  BY <1>1, <1>2, <1>4
<1>6. /\ jobs' = jobs \/ \E s : jobs' = CancelAll(jobs, s)
      /\ uploads' = uploads \/ \E s : uploads' = Restrict(uploads, DOMAIN uploads \ s)
      /\ pending' \subseteq Identities
      /\ DOMAIN entry' \subseteq DOMAIN entry \cup {k} /\ IsFiniteSet(DOMAIN entry)'
      /\ \A c \in DOMAIN entry' \ {k} : c \in DOMAIN entry /\ entry'[c] = entry[c]
      /\ k \in DOMAIN entry' => \/ k \in DOMAIN entry /\ entry'[k] = entry[k]
                                \/ entry'[k] = NewEntry(shownNextGeneration)
      /\ entry' \in [DOMAIN entry' -> Entries]
  <2>1. CASE reported
    <3>1. /\ jobs' = CancelAll(jobs, stale)
          /\ pending' = (pending \ stale) \cup {id}
          /\ uploads' = Restrict(uploads, DOMAIN uploads \ stale)
          /\ entry' = Put(entry, k, NewEntry(shownNextGeneration))
      BY <2>1 DEF Load
    <3>2. id \in Identities
      BY <1>2 DEF Identities
    <3>3. NewEntry(shownNextGeneration) \in Entries
      BY <1>2 DEF NewEntry, Entries
    <3>4. entry' \in [DOMAIN entry \cup {k} -> Entries]
      BY <1>2, <3>1, <3>3, PutType
    <3>5. /\ DOMAIN entry' = DOMAIN entry \cup {k} /\ entry'[k] = NewEntry(shownNextGeneration)
          /\ \A c \in DOMAIN entry \ {k} : entry'[c] = entry[c]
      BY <3>1 DEF Put
    <3>6. IsFiniteSet(DOMAIN entry \cup {k})
      BY <1>2, FS_AddElement DEF CacheIsFinite
    <3> HIDE DEF stale
    <3> QED
      BY <1>2, <3>1, <3>2, <3>4, <3>5, <3>6
  <2>2. CASE ~reported
    <3>1. UNCHANGED <<jobs, pending, uploads, entry>>
      BY <2>2 DEF Load
    <3> QED
      BY <1>2, <3>1 DEF CacheIsFinite
  <2> QED
    BY <2>1, <2>2
<1>7. /\ DOMAIN entry' \subseteq Coords
      /\ \A c \in DOMAIN entry' : /\ entry'[c].state = "resident" <=> entry'[c].mesh # None
                                  /\ entry'[c].generation < shownNextGeneration'
  <2>1. /\ NewEntry(shownNextGeneration).state = "missing"
        /\ NewEntry(shownNextGeneration).mesh = None
        /\ NewEntry(shownNextGeneration).generation = shownNextGeneration
    BY DEF NewEntry
  <2>2. /\ shownNextGeneration < shownNextGeneration'
        /\ \A c \in DOMAIN entry :
               entry[c].generation \in Nat /\ entry[c].generation < shownNextGeneration'
    BY <1>1, <1>2 DEF GenerationsArePast, Entries
  <2> QED
    BY <1>2, <1>6, <2>1, <2>2
<1> HIDE DEF arrival, more, faces, stale
<1>8. /\ shownChunks' \in [Loaded \cup {k} -> World!ChunkRecords]
      /\ \A c \in Loaded \cup {k} :
             /\ shownChunks'[c].generation = more[c].generation
             /\ shownChunks'[c].revision = more[c].revision
             /\ shownChunks'[c].cells = more[c].cells
             /\ c \in faces => "mesh" \in shownChunks'[c].dirty
             /\ c \notin faces => shownChunks'[c] = more[c]
  BY <1>1, <1>5, WorldMarks
<1>9. Loaded' = Loaded \cup {k}
  BY <1>8 DEF Loaded, World!Resident
<1>10. World!ChunksTypeOK'
  <2>1. DOMAIN shownChunks' = Loaded \cup {k}
    BY <1>8
  <2>2. shownMeshRegions' \subseteq Coords /\ shownNextGeneration' \in Nat
    BY <1>1, <1>2, <1>3
  <2> QED
    BY <1>1, <1>2, <1>8, <2>1, <2>2 DEF World!ChunksTypeOK, World!Resident
<1>11. /\ shownChunks'[k].generation = shownNextGeneration
       /\ \A c \in Loaded : /\ shownChunks'[c].generation = shownChunks[c].generation
                            /\ shownChunks'[c].revision = shownChunks[c].revision
                            /\ shownChunks[c].revision \in Nat
                            /\ shownChunks[c].generation \in Nat
                            /\ shownChunks'[c].cells = shownChunks[c].cells
  BY <1>2, <1>5, <1>8, ChunkFacts DEF arrival
<1>12. Evolves
  BY <1>1, <1>2, <1>9, <1>11 DEF Evolves
<1>13. GenerationsArePast'
  BY <1>1, <1>2, <1>7, <1>9, <1>11 DEF GenerationsArePast
<1>14. CleanMeshesAreShown'
  <2>1. \A c \in Loaded' \cap touched : "mesh" \in shownChunks'[c].dirty
    BY <1>5, <1>8, <1>9 DEF arrival
  <2>2. ASSUME NEW c \in Loaded' \ touched
        PROVE  /\ c \in Loaded /\ shownChunks'[c] = shownChunks[c]
               /\ c - 1 # k /\ c + 1 # k /\ c # k
    <3>1. c \in Loaded /\ c # k /\ c \notin World!FaceNeighbors(k)
      BY <1>9 DEF faces
    <3>2. c - 1 # k /\ c + 1 # k
      BY <1>2, <3>1, NotAdjacent
    <3>3. c \notin faces
      OBVIOUS
    <3> QED
      BY <1>5, <1>8, <3>1, <3>2, <3>3
  <2>3. ASSUME NEW c \in Loaded' \ touched
        PROVE  /\ c \in Loaded /\ shownChunks'[c] = shownChunks[c]
               /\ c - 1 \in Loaded' <=> c - 1 \in Loaded
               /\ c + 1 \in Loaded' <=> c + 1 \in Loaded
               /\ c - 1 \in Loaded => shownChunks'[c - 1].cells[EdgeLength - 1]
                                          = shownChunks[c - 1].cells[EdgeLength - 1]
               /\ c + 1 \in Loaded => shownChunks'[c + 1].cells[0] = shownChunks[c + 1].cells[0]
               /\ c \in DOMAIN entry' => c \in DOMAIN entry /\ entry'[c] = entry[c]
    BY <1>6, <1>9, <1>11, <2>2
  <2> HIDE DEF touched
  <2> QED
    BY <2>1, <2>3, UntouchedIsShown
<1> QED
  BY <1>1, <1>6, <1>7, <1>10, <1>12, <1>13, <1>14, WorldChanges

-----------------------------------------------------------------------------
(* The theorems.                                                              *)

\* Nothing is cached, pending or under way at first.
LEMMA RenderingStart ==
  ASSUME RenderingInit
  PROVE  RenderingInv
<1>1. PICK S \in SUBSET Coords :
          shownChunks = [c \in S |-> [generation |-> 1, revision |-> 2, cells |-> Baseline[c],
                                      dirty |-> {"mesh"}]]
  BY DEF RenderingInit
<1>2. /\ shownEditLog = [c \in Coords |-> World!NoDelta] /\ shownMeshRegions = Loaded
      /\ shownNextGeneration = 2 /\ camera \in Cameras /\ palette = 1 /\ table = 0
      /\ entry = [c \in {} |-> c] /\ pending = {} /\ jobs = [id \in {} |-> id]
      /\ mailbox = <<>> /\ uploads = [id \in {} |-> id] /\ disturbances = 0
      /\ frame = [at |-> "idle", todo |-> {}, results |-> <<>>, scheduled |-> 0, copied |-> 0]
  BY DEF RenderingInit
<1>3. /\ Loaded = S /\ S \subseteq Coords
      /\ \A c \in S : /\ shownChunks[c] \in World!ChunkRecords
                      /\ shownChunks[c].generation = 1 /\ "mesh" \in shownChunks[c].dirty
  <2>1. Loaded = S
    BY <1>1 DEF Loaded, World!Resident
  <2>2. \A c \in S : Baseline[c] \in [Voxels -> Cells]
    BY ChunkAssumption
  <2> QED
    BY <1>1, <2>1, <2>2 DEF World!ChunkRecords, World!DirtyFlags, World!Voxels, Voxels
<1>4. World!ChunksTypeOK
  <2>1. World!NoDelta \in World!Deltas
    <3>1. World!NoDelta \in [{} -> [previous : Cells, next : Cells]]
      BY DEF World!NoDelta
    <3>2. {} \in SUBSET World!Voxels
      OBVIOUS
    <3> QED
      BY <3>1, <3>2 DEF World!Deltas
  <2>2. shownEditLog \in [Coords -> World!Deltas]
    BY <1>2, <2>1
  <2>3. shownChunks \in [S -> World!ChunkRecords] /\ DOMAIN shownChunks = S
    BY <1>1, <1>3
  <2> QED
    BY <1>2, <1>3, <2>2, <2>3 DEF World!ChunksTypeOK, World!Resident
<1>5. /\ DOMAIN entry = {} /\ DOMAIN jobs = {} /\ DOMAIN uploads = {}
      /\ DOMAIN mailbox = {} /\ DOMAIN frame.results = {}
      /\ frame.at = "idle" /\ frame.todo = {} /\ frame.results = <<>>
  BY <1>2
<1>6. IsFiniteSet({}) /\ Cardinality({}) = 0
  BY FS_EmptySet
<1>7. RenderingTypeOK
  <2>1. MaxJobs \in Nat /\ MaxDisturbances \in Nat
    BY RenderingAssumption
  <2>2. /\ entry \in [DOMAIN entry -> Entries] /\ jobs \in [DOMAIN jobs -> Jobs]
        /\ uploads \in [DOMAIN uploads -> Meshes]
    BY <1>2, <1>5
  <2>3. /\ mailbox \in Seq([id : DOMAIN jobs, state : ResultStates])
        /\ <<>> \in Seq([id : Identities, state : ResultStates, mesh : Meshes])
    BY <1>2, EmptySeq
  <2>4. frame \in [at : FramePhases, todo : {frame.todo}, scheduled : Nat, copied : Nat,
                   results : Seq([id : Identities, state : ResultStates, mesh : Meshes])]
    BY <1>2, <2>3 DEF FramePhases
  <2>5. Cardinality(DOMAIN jobs) <= MaxJobs /\ disturbances \in 0..MaxDisturbances
    BY <1>2, <1>5, <1>6, <2>1
  <2> QED
    BY <1>2, <1>4, <1>5, <2>2, <2>3, <2>4, <2>5 DEF RenderingTypeOK
<1>8. CacheIsFinite
  BY <1>5, <1>6 DEF CacheIsFinite
<1>9. GenerationsArePast
  BY <1>2, <1>3, <1>5 DEF GenerationsArePast
<1>10. MailboxAgrees
  BY <1>5 DEF MailboxAgrees
<1>11. MeshesAreSound
  BY <1>5 DEF MeshesAreSound, Carried
<1>12. CleanMeshesAreShown
  BY <1>3 DEF CleanMeshesAreShown
<1>13. FrameAgrees /\ NothingIsForgotten
  BY <1>5 DEF FrameAgrees, NothingIsForgotten, At
<1> QED
  BY <1>7, <1>8, <1>9, <1>10, <1>11, <1>12, <1>13 DEF RenderingInv

\* Every step of the world, of the owner thread and of a worker.
LEMMA RenderingStep ==
  ASSUME RenderingInv, RenderingNext
  PROVE  RenderingInv'
<1>1. CASE WorldStep
  <2>1. ASSUME NEW c \in Coords, NEW v \in Voxels, NEW cell \in Cells, Edit(c, v, cell)
        PROVE  RenderingInv'
    BY <2>1, WorldEditStep
  <2>2. ASSUME NEW c \in Coords, NEW reported \in BOOLEAN, Load(c, reported)
        PROVE  RenderingInv'
    BY <2>2, WorldLoadStep
  <2>3. ASSUME NEW c \in Coords, NEW reported \in BOOLEAN, Unload(c, reported)
        PROVE  RenderingInv'
    BY <2>3, WorldUnloadStep
  <2>4. ASSUME NEW p \in Cameras, MoveCamera(p)
        PROVE  RenderingInv'
    BY <2>4, MoveCameraStep
  <2>5. CASE ChangePalette
    BY <2>5, ChangePaletteStep
  <2> QED
    BY <1>1, <2>1, <2>2, <2>3, <2>4, <2>5 DEF WorldStep
<1>2. CASE Owner
  <2>1. CASE RefreshRenderTable
    BY <2>1, RefreshRenderTableStep
  <2>2. ASSUME NEW c \in Coords, Reconcile(c)
        PROVE  RenderingInv'
    BY <2>2, ReconcileStep
  <2>3. CASE ReconcileUnloaded
    BY <2>3, ReconcileUnloadedStep
  <2>4. CASE ConsumeDirtyRegions
    BY <2>4, ConsumeDirtyRegionsStep
  <2>5. CASE EnforceDistance
    BY <2>5, EnforceDistanceStep
  <2>6. CASE DrainCompleted
    BY <2>6, DrainCompletedStep
  <2>7. CASE ProcessResult
    BY <2>7, ProcessResultStep
  <2>8. CASE ResultsDone
    BY <2>8, ResultsDoneStep
  <2>9. CASE ProcessUploads
    BY <2>9, ProcessUploadsStep
  <2>10. CASE FailUploads
    BY <2>10, FailUploadsStep
  <2>11. ASSUME NEW c \in Coords, EnforceBudget(c)
         PROVE  RenderingInv'
    BY <2>11, EnforceBudgetStep
  <2>12. CASE BudgetMet
    BY <2>12, BudgetMetStep
  <2>13. ASSUME NEW id \in pending, Schedule(id)
         PROVE  RenderingInv'
    BY <2>13, ScheduleStep
  <2>14. ASSUME NEW id \in pending, FailSchedule(id)
         PROVE  RenderingInv'
    BY <2>14, FailScheduleStep
  <2>15. CASE ScheduleDone
    BY <2>15, ScheduleDoneStep
  <2>16. CASE Draw
    BY <2>16, DrawStep
  <2> QED
    BY <1>2, <2>1, <2>2, <2>3, <2>4, <2>5, <2>6, <2>7, <2>8, <2>9, <2>10, <2>11, <2>12, <2>13,
       <2>14, <2>15, <2>16 DEF Owner
<1>3. ASSUME NEW id \in DOMAIN jobs, Worker(id)
      PROVE  RenderingInv'
  <2>1. CASE StartJob(id)
    BY <2>1, StartJobStep
  <2>2. CASE FinishJob(id)
    BY <2>2, FinishJobStep
  <2>3. CASE FailJob(id)
    BY <2>3, FailJobStep
  <2> QED
    BY <1>3, <2>1, <2>2, <2>3 DEF Worker
<1> QED
  BY <1>1, <1>2, <1>3 DEF RenderingNext

\* The invariant reads nothing but the variables of the renderer.
LEMMA RenderingStutters ==
  ASSUME RenderingInv, UNCHANGED renderVars
  PROVE  RenderingInv'
<1>1. UNCHANGED <<shownChunks, shownEditLog, shownMeshRegions, shownNextGeneration, camera,
                  palette, table, entry, pending, jobs, mailbox, uploads, frame, disturbances>>
  BY DEF renderVars, inputVars, meshVars, shownVars
<1>2. /\ RenderingTypeOK /\ CacheIsFinite /\ MailboxAgrees /\ FrameAgrees /\ NothingIsForgotten
  BY DEF RenderingInv
<1>3. RenderingTypeOK'
  BY <1>1, <1>2 DEF RenderingTypeOK, World!ChunksTypeOK, World!Resident, At
<1>4. \A p \in Carried' : p \in Carried
  BY <1>1, CarriedKept
<1>5. GenerationsArePast' /\ MeshesAreSound' /\ CleanMeshesAreShown'
  BY <1>1, <1>3, <1>4, KeptParts
<1>6. SameWorld /\ World!ChunksTypeOK /\ World!ChunksTypeOK'
  BY <1>1, <1>2, <1>3, UnchangedWorld DEF RenderingTypeOK
<1>7. FrameAgrees'
  BY <1>1, <1>2, <1>6, StandingWorld DEF FrameAgrees, At, SameWorld, NearCamera, ResidentMeshes
<1>8. NothingIsForgotten'
  <2>1. UnderWay' = UnderWay
    BY <1>1 DEF UnderWay
  <2>2. NearChunks' = NearChunks /\ NearChunks \subseteq Loaded
    BY <1>1, <1>6 DEF NearChunks, NearCamera, SameWorld
  <2>3. ASSUME NEW c \in NearChunks, Attended(c)
        PROVE  Attended(c)'
    BY <1>1, <1>6, <2>1, <2>2, <2>3, AttendedKept DEF Attended, IsCached, Identity
  <2> QED
    BY <1>1, <1>2, <2>2, <2>3 DEF NothingIsForgotten, At
<1> QED
  BY <1>1, <1>2, <1>3, <1>5, <1>7, <1>8 DEF RenderingInv, CacheIsFinite, MailboxAgrees

\* What the renderer's invariant says of a frame that is drawn: nothing is on
\* its way between its steps, and the table of the meshes is the palette's.
LEMMA DrawnFrames ==
  ASSUME RenderingInv
  PROVE  NoStaleMeshIsForgotten /\ ResidencyIsBounded
<1>1. /\ NothingIsForgotten /\ FrameAgrees /\ World!ChunksTypeOK
  BY DEF RenderingInv, RenderingTypeOK
<1>2. ASSUME At("draw")
      PROVE  NoStaleMeshIsForgotten
  <2>1. UnderWay = pending \cup DOMAIN jobs \cup DOMAIN uploads
    BY <1>1, <1>2, NothingInFlight DEF FrameAgrees, At
  <2>2. \A c \in NearChunks : Attended(c)
    BY <1>1, <1>2 DEF NothingIsForgotten, At
  <2> QED
    BY <2>1, <2>2 DEF NoStaleMeshIsForgotten, Attended
<1>3. ASSUME At("draw")
      PROVE  ResidencyIsBounded
  <2>1. /\ ResidentBytes(entry) <= TerrainBudget
        /\ \A c \in ResidentMeshes(entry) : NearCamera(c, RetainDistance)
        /\ \A c \in DOMAIN entry : c \in Loaded /\ entry[c].generation = shownChunks[c].generation
    BY <1>1, <1>3 DEF FrameAgrees, At
  <2>2. \A c \in ResidentMeshes(entry) : IsLoaded(<<c, entry[c].generation>>)
    BY <2>1 DEF IsLoaded, Identity, ResidentMeshes
  <2> QED
    BY <2>1, <2>2 DEF ResidencyIsBounded
<1> QED
  BY <1>2, <1>3 DEF NoStaleMeshIsForgotten, ResidencyIsBounded

\* However the world, the owner thread's frames and the workers interleave, what
\* is on its way is what the renderer takes it for.
LEMMA RenderingInvariant == RenderingSpec => []RenderingInv
<1>1. RenderingInit => RenderingInv
  BY RenderingStart
<1>2. RenderingInv /\ [RenderingNext]_renderVars => RenderingInv'
  BY RenderingStep, RenderingStutters
<1> QED
  BY <1>1, <1>2, PTL DEF RenderingSpec

\* Whatever chunks are edited, loaded and unloaded, wherever the camera goes and
\* whichever meshes and uploads fail or come too late, a frame is drawn with no
\* stale mesh that nothing is going to replace.
THEOREM StaleMeshesAreRebuilt == RenderingSpec => []NoStaleMeshIsForgotten
<1>1. RenderingInv => NoStaleMeshIsForgotten
  BY DrawnFrames
<1> QED
  BY <1>1, RenderingInvariant, PTL

\* A frame is drawn with meshes that fit the terrain budget, each of a loaded
\* chunk the camera has not left behind.
THEOREM ResidencyBound == RenderingSpec => []ResidencyIsBounded
<1>1. RenderingInv => ResidencyIsBounded
  BY DrawnFrames
<1> QED
  BY <1>1, RenderingInvariant, PTL

\* The two parts keep their types while the other, or the memory of the meshes,
\* takes its steps.
THEOREM MCTypeCorrect == MCSpec => []MCTypeOK
<1> DEFINE Inv == StreamingInv /\ RenderingInv
<1>1. MCInit => Inv
  BY StreamingStart, RenderingStart DEF MCInit
<1>2. ASSUME Inv, [MCNext]_<<streamVars, renderVars, memoryVars, part>>
      PROVE  Inv'
  <2>1. /\ StreamingNext \/ UNCHANGED streamVars
        /\ RenderingNext \/ UNCHANGED renderVars
    BY <1>2 DEF MCNext
  <2>2. StreamingInv'
    BY <1>2, <2>1, StreamingStep
  <2>3. RenderingInv'
    BY <1>2, <2>1, RenderingStep, RenderingStutters
  <2> QED
    BY <2>2, <2>3
<1>3. Inv => MCTypeOK
  BY DEF StreamingInv, RenderingInv, MCTypeOK
<1> QED
  BY <1>1, <1>2, <1>3, PTL DEF MCSpec
=============================================================================
