---------------------------- MODULE MCBlockCache ----------------------------
(* Instances of BlockCache for TLC. *)
EXTENDS BlockCache, TLC
CONSTANTS b1, b2, l1, w1, w2

CacheSymm == Permutations(Writers) \cup Permutations(BlockKeys)
=============================================================================
