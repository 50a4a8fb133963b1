---------------------------- MODULE ChunkGeometry ----------------------------
(* The chunks of a world, and what its generator puts into them.  Chunks lie  *)
(* on a line and voxels along it.                                             *)
EXTENDS Integers

CONSTANTS Coords,               \* the chunk coordinates
          EdgeLength,           \* voxels per chunk
          Cells,                \* what a voxel can hold
          InvalidationRadius,   \* [Cells -> Nat], VoxelPalette::mesh_invalidation_radius
          Baseline              \* [Coords -> [Voxels -> Cells]], the generated terrain

Voxels == 0..(EdgeLength - 1)

ASSUME ChunkAssumption ==
    /\ Coords \subseteq Int
    /\ EdgeLength \in Nat \ {0}
    /\ InvalidationRadius \in [Cells -> Nat]
    /\ Baseline \in [Coords -> [Voxels -> Cells]]
=============================================================================
