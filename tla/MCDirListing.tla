---------------------------- MODULE MCDirListing ----------------------------
(***************************************************************************)
(* Instances of DirListing for TLC: two folders, A mounted and persisted    *)
(* empty, B never listed.                                                   *)
(***************************************************************************)
EXTENDS DirListing, TLC
CONSTANTS A, B, x1, x2, a1, a2, c1, c2

InitialA == [l \in Links |-> None]
PersistedEmpty == [f \in Folders |-> IF f = A THEN {} ELSE None]

NoListingRace == races = {}

\* Either the dirNodes of a folder come and go, or the drive changes more than once.
InUse(f) == {n \in DirNodes : FolderOf(n) = f /\ (dir[n].st # "none" \/ FetchesOf(n) # {})}
OneLifeOrChange ==
  \/ \A f \in Folders : Cardinality(InUse(f)) <= 1
  \/ /\ Len(log) <= 1 /\ last = None
     /\ ~Listed(RootNode) /\ FetchesOf(RootNode) = {}

\* One fetch beside a handler's own change, or two at once and one change of the drive.
FetchesOrChange == \/ \E x \in Fetches : fetch[x].pc = "idle"
                   \/ op.pc = "idle" /\ Len(log) <= 1

FolderBound == NoListingRace /\ OneLifeOrChange /\ FetchesOrChange

\* Of the events that were handled, and of the patch counts, only what a guard or a property
\* reads tells two states apart.
ListingView ==
  <<drive, Len(log), SubSeq(log, (IF last = None THEN 0 ELSE last) + 1, Len(log)), last = None,
    [l \in Links |-> <<told[l] >= Latest(l), Latest(l) = 0, Deleted(l)>>],
    poll, dirs, parentOf, disk, own, races,
    [op EXCEPT !.ev = @ = Latest(op.link)],
    [n \in DirNodes |-> IF dir[n].st = "none" /\ FetchesOf(n) = {} THEN NoDirNode
                       ELSE [dir[n] EXCEPT !.gen = @ - dir[n].persisted, !.persisted = 0]],
    [x \in Fetches |-> IF fetch[x].pc = "idle" THEN fetch[x]
                       ELSE [fetch[x] EXCEPT !.gen = @ - dir[fetch[x].node].persisted]]>>

Symm == Permutations(Lives) \cup Permutations(Fetches)
=============================================================================
