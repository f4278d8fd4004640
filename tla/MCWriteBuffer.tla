--------------------------- MODULE MCWriteBuffer ---------------------------
(***************************************************************************)
(* Instances of WriteBuffer for TLC.  The search does not go on past a      *)
(* known race that a property of the run excepts, since nothing is said     *)
(* of the states beyond it.                                                 *)
(***************************************************************************)
EXTENDS WriteBuffer, TLC

CONSTANTS f1, f2, f3, doc, bak, new, tmp

\* No known race at all, and none that loses a save.
NoRaceYet == races = {}
NoLossYet == races \cap LosingRaces = {}

\* The first, and the unmount left to other runs.
MountedNoRace == NoRaceYet /\ mount = "up"

\* Three files with a save each under one name that uploads and one that stays local, or two
\* files with one save under three names that upload.
Unused(n) == /\ tree[n] = None /\ listing[n] = None /\ want[n] = None
             /\ n \notin {op.from, op.to}
             /\ \A f \in Files : n \notin {name[f], rel[f].name, rel[f].to}
             /\ \A l \in Links : drive[l].name # n
TwoFiles == \E f \in Files : Fresh(f) /\ node[f] = None /\ name[f] = InitialName
ChainBound ==
  /\ MountedNoRace
  /\ \/ Unused(bak) /\ Unused(new)
     \/ saves <= 1 /\ TwoFiles /\ Unused(tmp)

\* For the properties about saves and names: neither what an application expects nor
\* the races those properties do not mention tell two states apart.
LossView == <<treeVars, drive, nodeVars, handle, rel, op, mountVars, saves, acked, forgone,
              uploaded, kept, races \cap LosingRaces>>

\* Files are interchangeable: Init and every action treat them alike.
FileSymmetry == Permutations(Files)
\* So are two names, both of which upload, and neither is the initial one.
ChainSymmetry == FileSymmetry \cup Permutations({bak, new})
=============================================================================
