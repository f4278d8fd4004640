---------------------------- MODULE MCBlockFetch ----------------------------
(* Instances of BlockFetch for TLC: a file of one block and a half, whose size is not known well, *)
(* open as f1 and, too large for the cache on disk, as f2.                                        *)
EXTENDS BlockFetch, TLC
CONSTANTS r1, r2, r3, f1, f2

SizeOdd == [h \in Handles |-> 3]
ClaimedMore == [h \in Handles |-> 4]
SpanTwo == {<<1, 2>>}

\* Three requests of one handle without a fault, or two requests with two faults.
Untouched(h) == /\ cache[h] = <<>> /\ ~handle[h].shown /\ ~handle[h].closed
                /\ \A r \in Readers : rd[r].pc # "idle" => rd[r].h # h
ReadBound == reads = 3 => faults = 0 /\ \E h \in Handles : Untouched(h)

ReadSymm == Permutations(Readers)
=============================================================================
