------------------------------ MODULE GpuArena ------------------------------
(* The memory a renderer component suballocates from GPU buffers              *)
(* (src/engine/renderer/memory/gpu_buffer_arena.cpp): blocks that grow, the   *)
(* free ranges of each, what is allocated, and what has been retired and      *)
(* waits for the submissions that may still use it.  Sizes are in units of    *)
(* the alignment, which every size and offset here is a multiple of.          *)
(* Generations, which tell a stale handle from the allocation that has taken  *)
(* its place, are left out: no owner modelled here keeps a stale handle.      *)
EXTENDS Naturals, Sequences, SequencesExt

CONSTANTS InitialBlock,   \* GpuBufferArenaConfig::initial_block_bytes
          MaxCapacity     \* maximum_capacity_bytes

(* GpuBufferArena::create: there is an initial block, and the budget holds it.*)
ASSUME ArenaAssumption ==
    /\ InitialBlock \in Nat \ {0}
    /\ MaxCapacity \in Nat
    /\ InitialBlock <= MaxCapacity

EmptyArena == [blocks |-> <<>>, live |-> {}, retired |-> {}]

Span(offset, size) == offset .. offset + size - 1

(* insert_free_range: the range is joined to its neighbours.                  *)
InsertFreeRange(free, range) ==
    LET neighbours == {f \in free : \/ f.offset + f.size = range.offset
                                    \/ range.offset + range.size = f.offset}
        merged == neighbours \cup {range}
        first == Min({f.offset : f \in merged})
        end == Max({f.offset + f.size : f \in merged})
    IN (free \ neighbours) \cup {[offset |-> first, size |-> end - first]}

Capacity(arena) == MapThenSumSet(LAMBDA b : arena.blocks[b].capacity, DOMAIN arena.blocks)

(* allocate_from: the range's start is taken, its rest stays free.            *)
AllocateFrom(arena, b, range, size) ==
    LET rest == [offset |-> range.offset + size, size |-> range.size - size]
        others == arena.blocks[b].free \ {range}
        free == IF rest.size = 0 THEN others ELSE InsertFreeRange(others, rest)
        allocation == [block |-> b, offset |-> range.offset, size |-> size]
    IN [ok |-> TRUE,
        allocation |-> allocation,
        arena |-> [blocks |-> [arena.blocks EXCEPT
                                  ![b] = [capacity |-> arena.blocks[b].capacity, free |-> free]],
                   live |-> arena.live \cup {allocation},
                   retired |-> arena.retired]]

(* grow: a block twice the last one, at least what is asked for, at most what *)
(* the budget leaves.                                                         *)
NewBlock(arena, size) ==
    LET desired == IF arena.blocks = <<>> THEN InitialBlock ELSE 2 * Last(arena.blocks).capacity
        capacity == Min({Max({desired, size}), MaxCapacity - Capacity(arena)})
    IN [capacity |-> capacity, free |-> {[offset |-> 0, size |-> capacity]}]

(* allocate: first fit over the blocks, then a new block if the budget and    *)
(* the device (deviceGrows) allow one.                                        *)
Allocate(arena, size, deviceGrows) ==
    LET Fitting(b) == {r \in arena.blocks[b].free : r.size >= size}
        roomy == {b \in DOMAIN arena.blocks : Fitting(b) # {}}
        last == Len(arena.blocks) + 1
    IN IF roomy # {}
       THEN LET b == Min(roomy)
            IN AllocateFrom(arena, b,
                            CHOOSE r \in Fitting(b) : \A s \in Fitting(b) : r.offset <= s.offset,
                            size)
       ELSE IF deviceGrows /\ size <= MaxCapacity - Capacity(arena)
       THEN LET grown == [arena EXCEPT !.blocks = Append(@, NewBlock(arena, size))]
            IN AllocateFrom(grown, last, [offset |-> 0, size |-> grown.blocks[last].capacity], size)
       ELSE [ok |-> FALSE, arena |-> arena]

Retired(arena) == {r.allocation : r \in arena.retired}

(* retire, of a set of allocations: one that is not live, or retired already, *)
(* is refused.                                                                *)
Retire(arena, allocations, serial) ==
    [arena EXCEPT !.retired = @ \cup
        {[allocation |-> a, serial |-> serial] :
             a \in (allocations \cap arena.live) \ Retired(arena)}]

(* insert_free_range, of each of some ranges.                                 *)
InsertFreeRanges(free, ranges) ==
    FoldSet(LAMBDA range, list : InsertFreeRange(list, range), free, ranges)

(* The ranges of a block that some retired allocations occupy.                *)
RangesIn(b, retired) ==
    {[offset |-> r.allocation.offset, size |-> r.allocation.size] :
         r \in {d \in retired : d.allocation.block = b}}

(* collect: the ranges whose last submission has completed become free.       *)
Collect(arena, completed) ==
    LET done == {r \in arena.retired : r.serial <= completed}
    IN [blocks |-> [b \in DOMAIN arena.blocks |->
                       [capacity |-> arena.blocks[b].capacity,
                        free |-> InsertFreeRanges(arena.blocks[b].free, RangesIn(b, done))]],
        live |-> arena.live \ {r.allocation : r \in done},
        retired |-> arena.retired \ done]
-----------------------------------------------------------------------------
(* A block is tiled by its free ranges and its allocations, and no two free   *)
(* ranges touch.                                                              *)
Tiled(arena) ==
    \A b \in DOMAIN arena.blocks :
        LET free == arena.blocks[b].free
            taken == {a \in arena.live : a.block = b}
            pieces == {<<"free", f.offset, f.size>> : f \in free}
                      \cup {<<"live", a.offset, a.size>> : a \in taken}
        IN /\ UNION {Span(p[2], p[3]) : p \in pieces} = Span(0, arena.blocks[b].capacity)
           /\ \A p, q \in pieces : p # q => Span(p[2], p[3]) \cap Span(q[2], q[3]) = {}
           /\ \A f, g \in free : f.offset + f.size # g.offset
=============================================================================
