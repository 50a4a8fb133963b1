------------------------------ MODULE MCChunks ------------------------------
(* Chunk streaming, chunk rendering and the memory of chunk meshes in one     *)
(* run: a behaviour is one of ChunkStreaming, ChunkRendering or GpuMemory,    *)
(* each on chunks of its own, the others standing still.  What streaming does *)
(* depends on neither load generations, revisions nor mesh dirtiness, so the  *)
(* view leaves them out.                                                      *)
EXTENDS ChunkStreaming, ChunkRendering, GpuMemory

VARIABLE part

(* Chunk 0 is generated solid, the others empty.                              *)
Terrain == [c \in Coords |-> [v \in Voxels |-> IF c = 0 THEN 1 ELSE 0]]

Radii == [x \in Cells |-> 1]

(* Within one chunk of the camera a chunk is visible, within two it has a     *)
(* mesh, within three it may keep one.  From 0 both chunks are visible, or    *)
(* chunk 0 is behind the camera; from 2 only chunk 1 is, from 3 none, and     *)
(* from 4 chunk 0 is out of reach.  The camera starts at home.                *)
Places == {[at |-> 0, sees |-> {1}]} \cup [at : {0, 2, 3, 4}, sees : {Coords}]

Home == [at |-> 0, sees |-> Coords]

(* A small mesh, an empty one, and a larger one together with the small one.  *)
Sizes(v, i) == [vertices |-> v, indices |-> i]

UploadBatches ==
    {<<<<0, Sizes(1, 1)>>>>, <<<<0, Sizes(0, 0)>>>>,
     <<<<1, Sizes(2, 1)>>, <<0, Sizes(1, 1)>>>>}

MCInit ==
    /\ StreamingInit
    /\ RenderingInit
    /\ MemoryInit
    /\ \/ part = "streaming" /\ camera = Home /\ Loaded = {}
       \/ part = "rendering" /\ viewer = 0 /\ camera = Home
       \/ part = "memory" /\ viewer = 0 /\ camera = Home /\ Loaded = {}

MCNext ==
    /\ UNCHANGED part
    /\ \/ part = "streaming" /\ StreamingNext /\ UNCHANGED <<renderVars, memoryVars>>
       \/ part = "rendering" /\ RenderingNext /\ UNCHANGED <<streamVars, memoryVars>>
       \/ part = "memory" /\ MemoryNext /\ UNCHANGED <<streamVars, renderVars>>

(* The owner thread keeps drawing frames and the workers keep working.        *)
RenderingFairness ==
    /\ WF_renderVars(Owner)
    /\ \A id \in Coords \X (1..(MaxDisturbances + 1)) : WF_renderVars(Worker(id))

MCSpec == MCInit /\ [][MCNext]_<<streamVars, renderVars, memoryVars, part>> /\ RenderingFairness

View ==
    CASE part = "streaming" ->
             <<[c \in Resident |-> <<chunks[c].cells, chunks[c].dirty \ {"mesh"}>>], editLog,
               viewer, pass, disk, replicated, edited>>
      [] part = "rendering" -> <<renderVars>>
      [] part = "memory" -> <<memoryVars>>

(* The variables of streaming and rendering keep their types.                 *)
MCTypeOK == StreamingTypeOK /\ RenderingTypeOK
=============================================================================
