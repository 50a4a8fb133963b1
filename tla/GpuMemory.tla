----------------------------- MODULE GpuMemory -----------------------------
(* Chunk meshes in GPU memory: the cache that owns them                       *)
(* (src/engine/renderer/chunks/chunk_gpu_cache.cpp), an arena for their       *)
(* vertices and one for their indices, and of the Vulkan device               *)
(* (src/engine/renderer/vulkan/vulkan_backend.cpp) the queue submissions, the *)
(* frame and upload contexts that are used in turn, and the staging ring.     *)
(* The host runs on one thread; the GPU finishes submissions in their order,  *)
(* whenever it likes, and the host learns of it from fences.                  *)
EXTENDS GpuArena, FiniteSets

CONSTANTS Chunks,
          Batches,           \* the batches of meshes to upload: sequences of a
                             \* chunk and what its mesh takes of each arena,
                             \* both or neither, no chunk twice
          StagingCapacity,   \* persistent_staging_capacity
          Contexts,          \* frames_in_flight
          MaxSubmissions     \* bound: queue submissions

Kinds == {"vertices", "indices"}

(* replace_meshes refuses a chunk that is there twice and a mesh of vertices  *)
(* or indices only; validate_desc a device without frames in flight.          *)
ASSUME MemoryAssumption ==
    /\ StagingCapacity \in Nat \ {0}
    /\ Contexts \in Nat \ {0}
    /\ MaxSubmissions \in Nat
    /\ Batches \subseteq Seq(Chunks \X [Kinds -> Nat])
    /\ \A batch \in Batches :
           /\ \A i, j \in DOMAIN batch : batch[i][1] = batch[j][1] => i = j
           /\ \A i \in DOMAIN batch :
                  batch[i][2]["vertices"] = 0 <=> batch[i][2]["indices"] = 0

VARIABLES arena,       \* vertex_arena_ and index_arena_
          mesh,        \* cached chunk -> its allocations, none of an empty mesh
          submitted,   \* last_submission_serial_
          completed,   \* completed_submission_serial_
          frameContexts,      \* frame_contexts_ and the next one to use
          uploadContexts,     \* upload_contexts_, likewise
          ring,        \* staging_ring_
          executing    \* what the GPU has still to do, by serial

memoryVars ==
    <<arena, mesh, submitted, completed, frameContexts, uploadContexts, ring, executing>>

(* Of a context, the serial it has in flight, 0 if none.                      *)
IdleContexts == [context |-> [i \in 0..(Contexts - 1) |-> 0], next |-> 0]

Busy(contexts) == {contexts.context[i] : i \in DOMAIN contexts.context} \ {0}

NoStaging == [offset |-> 0, size |-> 0, serial |-> 0]

MemoryInit ==
    /\ arena = [k \in Kinds |-> EmptyArena]
    /\ mesh = <<>>
    /\ submitted = 0
    /\ completed = 0
    /\ frameContexts = IdleContexts
    /\ uploadContexts = IdleContexts
    /\ ring = [head |-> 0, active |-> {}]
    /\ executing = <<>>

Finished(serial) == serial \notin DOMAIN executing

(* f, of x as well.                                                           *)
Extended(f, x, value) == [y \in DOMAIN f \cup {x} |-> IF y = x THEN value ELSE f[y]]
-----------------------------------------------------------------------------
(* The device.                                                                *)

(* wait_for_frame_context, wait_for_upload_context: the next context's last   *)
(* submission has to finish first, and everything before it has then as well. *)
Waited(contexts) == Finished(contexts.context[contexts.next])

CompletedAfter(contexts) == Max({completed, contexts.context[contexts.next]})

ReleasedContext(contexts) == [contexts EXCEPT !.context[contexts.next] = 0]

Occupied(contexts) ==
    [context |-> [contexts.context EXCEPT ![contexts.next] = submitted + 1],
     next |-> (contexts.next + 1) % Contexts]

(* Faulty variant: what has been submitted is taken for completed.            *)
StillActiveUnsubmitted(upTo) == {r \in ring.active : r.serial > submitted}

(* StagingRingAllocator::release_completed                                    *)
StillActive(upTo) == {r \in ring.active : r.serial > upTo}

(* allocate_from_gaps: the first place at or after the head, else the first   *)
(* before it, that no active range overlaps.                                  *)
StagingOffsets(active, size) ==
    LET places == {s \in 0..(StagingCapacity - size) :
                       \A r \in active : s + size <= r.offset \/ r.offset + r.size <= s}
        ahead == {s \in places : s >= ring.head}
        behind == {s \in places : s + size <= ring.head}
    IN IF size > StagingCapacity THEN {}
       ELSE IF ahead # {} THEN {Min(ahead)}
       ELSE IF behind # {} THEN {Min(behind)}
       ELSE {}

(* The GPU is done with its oldest submission.                                *)
Finish(serial) ==
    /\ serial \in DOMAIN executing
    /\ \A older \in DOMAIN executing : serial <= older
    /\ executing' = [s \in DOMAIN executing \ {serial} |-> executing[s]]
    /\ UNCHANGED <<arena, mesh, submitted, completed, frameContexts, uploadContexts, ring>>

(* poll_completed_submissions, in every call that binds a layout, writes      *)
(* descriptors or releases a resource.                                        *)
PollCompletedSubmissions ==
    LET signalled == {s \in Busy(frameContexts) \cup Busy(uploadContexts) : Finished(s)}
        Observed(contexts) ==
            [context |-> [i \in DOMAIN contexts.context |->
                             IF contexts.context[i] \in signalled THEN 0 ELSE contexts.context[i]],
             next |-> contexts.next]
    IN /\ signalled # {}
       /\ completed' = Max(signalled \cup {completed})
       /\ frameContexts' = Observed(frameContexts)
       /\ uploadContexts' = Observed(uploadContexts)
       /\ ring' = [ring EXCEPT !.active = StillActive(completed')]
       /\ UNCHANGED <<arena, mesh, submitted, executing>>

(* Everything a mesh owns, as <<kind, allocation>>.                           *)
Owned(m) == {<<k, m[k]>> : k \in DOMAIN m}

(* execute_submitted_frame, with every mesh in view: its draws read what the  *)
(* meshes own.  It may fail, or give up for want of a swapchain image, after  *)
(* the wait; what fails after the submission makes no difference here.        *)
ExecuteFrame ==
    /\ Waited(frameContexts)
    /\ completed' = CompletedAfter(frameContexts)
    /\ ring' = [ring EXCEPT !.active = StillActive(completed')]
    /\ \/ /\ submitted < MaxSubmissions
          /\ submitted' = submitted + 1
          /\ frameContexts' = Occupied(frameContexts)
          /\ executing' = Extended(executing, submitted',
                [uses |-> UNION {Owned(mesh[c]) : c \in DOMAIN mesh}, staging |-> NoStaging])
       \/ /\ frameContexts' = ReleasedContext(frameContexts)
          /\ UNCHANGED <<submitted, executing>>
    /\ UNCHANGED <<arena, mesh, uploadContexts>>

(* upload_buffer_batch, for the allocations it fills: the bytes are staged in *)
(* the ring, or in a buffer of the context when the ring is full.             *)
UploadBufferBatch(writes, size) ==
    LET active == StillActive(CompletedAfter(uploadContexts))
        offsets == StagingOffsets(active, size)
        staged == [offset |-> Min(offsets), size |-> size, serial |-> submitted + 1]
    IN /\ Waited(uploadContexts)
       /\ submitted < MaxSubmissions
       /\ completed' = CompletedAfter(uploadContexts)
       /\ submitted' = submitted + 1
       /\ uploadContexts' = Occupied(uploadContexts)
       /\ ring' = IF offsets = {} THEN [ring EXCEPT !.active = active]
                  ELSE [head |-> (staged.offset + size) % StagingCapacity,
                        active |-> active \cup {staged}]
       /\ executing' = Extended(executing, submitted',
             [uses |-> writes, staging |-> IF offsets = {} THEN NoStaging ELSE staged])

(* The upload fails after the wait: before a range is staged or after, when   *)
(* the range is cancelled and only the head has moved.                        *)
UploadFails(size) ==
    LET active == StillActive(CompletedAfter(uploadContexts))
        offsets == StagingOffsets(active, size)
    IN /\ Waited(uploadContexts)
       /\ completed' = CompletedAfter(uploadContexts)
       /\ uploadContexts' = ReleasedContext(uploadContexts)
       /\ \E head \in {ring.head} \cup {(s + size) % StagingCapacity : s \in offsets} :
              ring' = [head |-> head, active |-> active]
       /\ UNCHANGED <<submitted, executing>>
-----------------------------------------------------------------------------
(* The cache.                                                                 *)

InsertEntry(c) ==
    /\ c \notin DOMAIN mesh
    /\ mesh' = Extended(mesh, c, <<>>)
    /\ UNCHANGED <<arena, submitted, completed, frameContexts, uploadContexts, ring, executing>>

Of(k, owned) == {o[2] : o \in {p \in owned : p[1] = k}}

(* Faulty variant: the submissions that have completed are taken for the ones *)
(* that have been made.                                                       *)
RetireOwnedEarly(arenas, owned, serial) ==
    [k \in Kinds |-> Retire(arenas[k], Of(k, owned), completed)]

(* retire_entry_allocations, at last_submission_serial                        *)
RetireOwned(arenas, owned, serial) ==
    [k \in Kinds |-> Retire(arenas[k], Of(k, owned), serial)]

CollectRetired(arenas, upTo) == [k \in Kinds |-> Collect(arenas[k], upTo)]

EraseEntry(c) ==
    /\ c \in DOMAIN mesh
    /\ arena' = CollectRetired(RetireOwned(arena, Owned(mesh[c]), submitted), completed)
    /\ mesh' = [d \in DOMAIN mesh \ {c} |-> mesh[d]]
    /\ UNCHANGED <<submitted, completed, frameContexts, uploadContexts, ring, executing>>

ReleaseMesh(c) ==
    /\ c \in DOMAIN mesh
    /\ mesh[c] # <<>>
    /\ arena' = CollectRetired(RetireOwned(arena, Owned(mesh[c]), submitted), completed)
    /\ mesh' = [mesh EXCEPT ![c] = <<>>]
    /\ UNCHANGED <<submitted, completed, frameContexts, uploadContexts, ring, executing>>

(* One mesh of a batch: its vertices are allocated, then its indices, unless  *)
(* an allocation has failed already.                                          *)
PrepareOne(done, c, sizes, refused) ==
    LET v == Allocate(done.arenas["vertices"], sizes["vertices"], refused # "vertices")
        i == Allocate(done.arenas["indices"], sizes["indices"], refused # "indices")
    IN IF ~done.ok \/ sizes["vertices"] = 0 THEN done
       ELSE IF ~v.ok THEN [done EXCEPT !.ok = FALSE]
       ELSE [ok |-> i.ok,
             arenas |-> [done.arenas EXCEPT !["vertices"] = v.arena, !["indices"] = i.arena],
             made |-> done.made \cup {<<c, "vertices", v.allocation>>}
                          \cup (IF i.ok THEN {<<c, "indices", i.allocation>>} ELSE {})]

(* A batch is a sequence of <<chunk, sizes>>, its meshes are prepared in its  *)
(* order.  The device creates no buffer of the refused kind.                  *)
Prepared(batch, refused) ==
    FoldLeft(LAMBDA done, upload : PrepareOne(done, upload[1], upload[2], refused),
             [ok |-> TRUE, arenas |-> arena, made |-> {}], batch)

Made(prepared) == {<<m[2], m[3]>> : m \in prepared.made}

(* What the meshes of a batch have to stage.                                  *)
SizeOf(prepared) == MapThenSumSet(LAMBDA m : m[3].size, prepared.made)

(* Faulty variant: what the failing upload has allocated is left behind.      *)
RolledBackIncompletely(prepared) == prepared.arenas

(* rollback: no submission uses what has been prepared.                       *)
RolledBack(prepared) ==
    CollectRetired(RetireOwned(prepared.arenas, Made(prepared), 0), 0)

MeshOf(c, prepared) ==
    LET mine == {m \in prepared.made : m[1] = c}
    IN [k \in {m[2] : m \in mine} |-> (CHOOSE m \in mine : m[2] = k)[3]]

(* The new meshes are published and the old ones retired.                     *)
Publish(batch, prepared) ==
    LET chunks == {batch[i][1] : i \in DOMAIN batch}
        old == UNION {Owned(mesh[c]) : c \in chunks}
    IN /\ mesh' = [c \in DOMAIN mesh |->
                       IF c \in chunks THEN MeshOf(c, prepared) ELSE mesh[c]]
       /\ arena' = CollectRetired(RetireOwned(prepared.arenas, old, submitted'), completed')

(* replace_meshes, with a refusal only where it makes the batch fail: any     *)
(* other one is the same step as none.                                        *)
ReplaceMeshes(batch, refused) ==
    LET prepared == Prepared(batch, refused)
        size == SizeOf(prepared)
    IN /\ \A i \in DOMAIN batch : batch[i][1] \in DOMAIN mesh
       /\ refused = "none" \/ ~prepared.ok
       /\ \/ /\ prepared.ok
             /\ prepared.made = {}
             /\ UNCHANGED <<submitted, completed, uploadContexts, ring, executing>>
             /\ Publish(batch, prepared)
          \/ /\ prepared.ok
             /\ prepared.made # {}
             /\ UploadBufferBatch(Made(prepared), size)
             /\ Publish(batch, prepared)
          \/ /\ prepared.ok
             /\ prepared.made # {}
             /\ UploadFails(size)
             /\ arena' = RolledBack(prepared)
             /\ UNCHANGED mesh
          \/ /\ ~prepared.ok
             /\ arena' = RolledBack(prepared)
             /\ UNCHANGED <<mesh, submitted, completed, uploadContexts, ring, executing>>
       /\ UNCHANGED frameContexts

MemoryNext ==
    \/ \E serial \in DOMAIN executing : Finish(serial)
    \/ PollCompletedSubmissions
    \/ ExecuteFrame
    \/ \E c \in Chunks : InsertEntry(c) \/ EraseEntry(c) \/ ReleaseMesh(c)
    \/ \E batch \in Batches, refused \in Kinds \cup {"none"} : ReplaceMeshes(batch, refused)

MemorySpec == MemoryInit /\ [][MemoryNext]_memoryVars
-----------------------------------------------------------------------------
(* Every block of the arenas is tiled by what is allocated and what is free,  *)
(* free ranges are merged (renderer_v1_handoff.md:73), what is allocated and  *)
(* not retired belongs to exactly one cached mesh, and what a mesh owns is    *)
(* allocated and not retired: no growth, collection, replacement or failing   *)
(* batch leaks a range, frees one too many or retires one twice.              *)
MeshesOwnTheArenas ==
    \A k \in Kinds :
        LET owners(a) == {c \in DOMAIN mesh : <<k, a>> \in Owned(mesh[c])}
        IN /\ Tiled(arena[k])
           /\ \A a \in arena[k].live \ Retired(arena[k]) : Cardinality(owners(a)) = 1
           /\ \A c \in DOMAIN mesh : k \in DOMAIN mesh[c] =>
                  mesh[c][k] \in arena[k].live \ Retired(arena[k])

(* Ranges are collected "only after the RHI's completed submission serial     *)
(* reaches the last submission that could have referenced the old range"      *)
(* (rendering.md:130): what an unfinished submission draws or fills is still  *)
(* allocated, so nothing else can be written there.                           *)
MemoryInUseIsKept ==
    \A serial \in DOMAIN executing :
        \A use \in executing[serial].uses : use[2] \in arena[use[1]].live

(* "Staging ranges or fallback buffers remain alive until their serial        *)
(* completes" (rendering.md:275): the bytes an unfinished upload reads are    *)
(* its own.                                                                   *)
StagingInUseIsKept ==
    \A serial \in DOMAIN executing :
        LET mine == executing[serial].staging
        IN /\ mine.size > 0 => mine \in ring.active
           /\ \A r \in ring.active :
                  r.serial # serial =>
                      Span(r.offset, r.size) \cap Span(mine.offset, mine.size) = {}

InUseIsKept == MemoryInUseIsKept /\ StagingInUseIsKept
=============================================================================
