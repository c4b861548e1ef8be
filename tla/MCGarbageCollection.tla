------------------------ MODULE MCGarbageCollection -------------------------
(* Small instances of GarbageCollection. *)
EXTENDS GarbageCollection, TLC

CONSTANTS g1, x, y, z

CollectSymmetry == Permutations(Collectors) \cup Permutations(Contents)
=============================================================================
