---------------------- MODULE WriteBufferSafetyProofs ----------------------
(***************************************************************************)
(* Proofs about WriteBuffer for any number of files, names, links, saves    *)
(* and upload slots: an excluded name never reaches the drive, no buffer is *)
(* parked without a way out, and no acknowledged save is lost.              *)
(***************************************************************************)
EXTENDS WriteBufferProofs

\* A race that happened stays in the history.
LEMMA RacesStay == ASSUME [Next]_vars PROVE races \subseteq races'
<1> USE DEF Raced
<1>1. ASSUME NEW f \in Files, ReleaseStep(f) PROVE races \subseteq races'
  BY <1>1 DEF ReleaseStep, ReadRelease, Decide, AwaitReplaced, LockUpload, AcquireSlot,
     QueueCancelled, UploadSucceeds, UploadLate, UploadFails, Claim, TrashGone, Patch, Publish,
     ReleaseMoveTrash, ReleaseMove, fateVars
<1>2. CASE DirStep
  BY <1>2 DEF DirStep, UnlinkPending, UnlinkTrash, RenamePending, Retarget, RenameTrash,
     RenameMove, RenameReplace, RenameApply, ReplaceRaces, fateVars
<1>3. CASE UserStep
  BY <1>3 DEF UserStep, Lookup, Create, Open, Unlink, Rename, Write, Truncate, Close, fateVars
<1>4. CASE UnmountStep
  BY <1>4 DEF UnmountStep, BeginFlush, PassDone, FlushDeadline, AbandonKept, Detach,
     ExternalUnmount, Kill, Exit, FlushSettle, fateVars
<1>5. CASE Terminated \/ UNCHANGED vars
  BY <1>5 DEF Terminated, vars, fateVars
<1>6. ASSUME NEW f \in Files, TimerFires(f) PROVE races \subseteq races'
  BY <1>6 DEF TimerFires, fateVars
<1>7. CASE Refresh
  BY <1>7 DEF Refresh, fateVars
<1> QED
  BY <1>1, <1>2, <1>3, <1>4, <1>5, <1>6, <1>7 DEF Next, MountedNext

(***************************************************************************)
(* The tree.                                                                *)
(***************************************************************************)

\* The operation in progress works on the file its name shows, and no file is shown
\* under two names.
OpFile  == op.pc # "idle" => tree[op.from] = op.file
OneName == \A m, n \in Names : tree[m] = tree[n] /\ tree[m] # None => m = n
TreeInv == OpFile /\ OneName

LEMMA SameTree ==
  ASSUME TreeInv, tree' = tree,
         op'.pc = "idle" \/ (op.pc # "idle" /\ op'.from = op.from /\ op'.file = op.file)
  PROVE  TreeInv'
BY DEF TreeInv, OpFile, OneName

LEMMA MovedTree ==
  ASSUME TypeOK, TreeInv, op'.pc = "idle", tree' = Moved(tree, op.from, op.to)
  PROVE  TreeInv'
BY OperationTypes DEF TreeInv, OpFile, OneName, Moved, TypeOK, TreeOK

LEMMA ReturnTree ==
  ASSUME TypeOK, TreeInv, NEW f \in Files, NEW ok, Return(f, ok)
  PROVE  TreeInv'
BY MovedTree, SameTree DEF Return, RunByRename, NoOp

\* A step of a Release returns, or leaves the tree and the operation alone.
LEMMA ReleaseStepReturns ==
  ASSUME NEW f \in Files, ReleaseStep(f)
  PROVE  (\E ok \in BOOLEAN : Return(f, ok)) \/ UNCHANGED <<op, tree, want>>
BY DEF ReleaseStep, ReadRelease, Decide, AwaitReplaced, LockUpload, AcquireSlot,
     QueueCancelled, UploadSucceeds, UploadLate, UploadFails, Claim, TrashGone, Patch, Publish,
     ReleaseMoveTrash, ReleaseMove, fateVars, treeVars

LEMMA ReleaseStepTree == ASSUME TypeOK, TreeInv, NEW f \in Files, ReleaseStep(f) PROVE TreeInv'
BY ReleaseStepReturns, ReturnTree, SameTree

LEMMA UnlinkReturnsTree ==
  ASSUME TypeOK, TreeInv, NEW n \in Names, NEW given, UnlinkReturns(n, given)
  PROVE  TreeInv'
BY DEF UnlinkReturns, NoOp, TreeInv, OpFile, OneName, TypeOK, TreeOK

LEMMA RenameReleasesTree ==
  ASSUME TypeOK, TreeInv, NEW f \in Files, op.pc # "idle", RenameReleases(f)
  PROVE  TreeInv'
<1>1. CASE Parked(f)
  BY <1>1, SameTree DEF RenameReleases, TypeOK, OpOK, Operations
<1>2. CASE ~Parked(f)
  BY <1>2, MovedTree DEF RenameReleases, NoOp
<1> QED
  BY <1>1, <1>2

LEMMA DirStepTree == ASSUME TypeOK, TreeInv, DirStep PROVE TreeInv'
<1> USE DEF TypeOK, OpOK, Operations, treeVars
<1>1. CASE UnlinkPending
  BY <1>1, UnlinkReturnsTree, SameTree DEF UnlinkPending
<1>2. CASE UnlinkTrash
  BY <1>2, UnlinkReturnsTree, SameTree DEF UnlinkTrash, NoOp
<1>3. CASE RenamePending \/ RenameReplace
  BY <1>3, SameTree DEF RenamePending, RenameReplace
<1>4. CASE Retarget \/ RenameApply
  BY <1>4, RenameReleasesTree DEF Retarget, RenameApply
<1>5. CASE RenameTrash \/ RenameMove
  <2>1. tree' = tree /\ op.pc # "idle"
    BY <1>5 DEF RenameTrash, RenameMove
  <2>2. op' = NoOp \/ (op'.from = op.from /\ op'.file = op.file)
    BY <1>5 DEF RenameTrash, RenameMove
  <2> QED
    BY <2>1, <2>2, SameTree DEF NoOp
<1> QED
  BY <1>1, <1>2, <1>3, <1>4, <1>5 DEF DirStep

LEMMA UserStepTree == ASSUME TypeOK, TreeInv, UserStep PROVE TreeInv'
<1>1. ASSUME NEW n \in Names, Lookup(n) \/ Create(n) PROVE TreeInv'
  <2>1. PICK f \in Files : tree' = [tree EXCEPT ![n] = f]
                           /\ (tree[n] = f \/ \A m \in Names : tree[m] # f)
    BY <1>1 DEF Lookup, Create, Fresh
  <2>2. op' = op /\ op.pc = "idle"
    BY <1>1 DEF Lookup, Create, DirIdle
  <2> QED
    BY <2>1, <2>2 DEF TreeInv, OpFile, OneName, TypeOK, TreeOK
<1>2. ASSUME NEW n \in Names, Unlink(n) PROVE TreeInv'
  <2>1. CASE Parked(tree[n]) /\ Pending(tree[n])
    BY <1>2, <2>1, UnlinkReturnsTree DEF Unlink
  <2>2. CASE ~(Parked(tree[n]) /\ Pending(tree[n]))
    BY <1>2, <2>2 DEF Unlink, NoOp, TreeInv, OpFile, OneName
  <2> QED
    BY <2>1, <2>2
<1>3. ASSUME NEW from \in Names, NEW to \in Names, Rename(from, to) PROVE TreeInv'
  BY <1>3 DEF Rename, NoOp, TreeInv, OpFile, OneName, treeVars
<1>4. ASSUME NEW n \in Names, Open(n) PROVE TreeInv'
  BY <1>4 DEF Open, TreeInv, OpFile, OneName, treeVars
<1>5. ASSUME NEW f \in Files, Write(f) \/ Truncate(f) \/ Close(f) PROVE TreeInv'
  BY <1>5 DEF Write, Truncate, Close, TreeInv, OpFile, OneName, treeVars
<1> QED
  BY <1>1, <1>2, <1>3, <1>4, <1>5 DEF UserStep

LEMMA ExitTree == ASSUME NEW r, Exit(r) PROVE TreeInv'
BY DEF Exit, NoOp, TreeInv, OpFile, OneName

LEMMA NextTree == ASSUME TypeOK, TreeInv, [Next]_vars PROVE TreeInv'
<1>1. CASE UnmountStep
  <2>1. CASE Detach \/ ExternalUnmount \/ Kill
    BY <2>1, ExitTree DEF Detach, ExternalUnmount, Kill
  <2>2. CASE ~(Detach \/ ExternalUnmount \/ Kill)
    BY <1>1, <2>2 DEF UnmountStep, BeginFlush, PassDone, FlushDeadline, AbandonKept, FlushSettle,
       TreeInv, OpFile, OneName, treeVars
  <2> QED
    BY <2>1, <2>2
<1>2. CASE Refresh \/ Terminated \/ UNCHANGED vars
  BY <1>2 DEF Refresh, Terminated, vars, TreeInv, OpFile, OneName, treeVars
<1>3. ASSUME NEW f \in Files, TimerFires(f) PROVE TreeInv'
  BY <1>3 DEF TimerFires, TreeInv, OpFile, OneName, treeVars
<1> QED
  BY <1>1, <1>2, <1>3, ReleaseStepTree, DirStepTree, UserStepTree DEF Next, MountedNext

LEMMA InitTree == Init => TreeInv
BY DEF Init, NoOp, TreeInv, OpFile, OneName

(***************************************************************************)
(* Names.  Unless a pending file was renamed to an excluded name while it   *)
(* uploads, a Release past its look at the name works under no excluded     *)
(* name, and neither does the rename of a drive item.                       *)
(***************************************************************************)

NamedRight(f) ==
  /\ rel[f].upName \notin Excluded /\ rel[f].to \notin Excluded
  /\ Started(f) /\ rel[f].pc # "decide" => rel[f].name \notin Excluded
  /\ Started(f) /\ rel[f].name \notin Excluded => name[f] \notin Excluded

DriveNames   == \A l \in Links : drive[l].name \notin Excluded
ReleaseNames == \A f \in Files : NamedRight(f)
MovesNames   == op.pc \in {"renameTrash", "renameMove", "renameReplace", "renameApply"}
                  => op.to \notin Excluded
\* A rename that waits for a Release has given its file the new name, which only that
\* Release changes.
WaitsUnderTo == op.pc = "renameWait"
                  => name[op.file] = op.to \/ name[op.file] \notin Excluded
\* A file shown under a name that uploads has such a name, but for the rename that is
\* about to move it.
ShownRight   == \A n \in Names \ Excluded : \A f \in Files :
                  tree[n] = f /\ name[f] \in Excluded => RunByRename(f)
NamesRight   == DriveNames /\ ReleaseNames /\ MovesNames /\ WaitsUnderTo /\ ShownRight

LEMMA InitialNameUploads ==
  /\ InitialName \notin Excluded /\ InitialName \in Names
  /\ NoRelease.upName = InitialName /\ NoRelease.to = InitialName /\ NoRelease.pc = "idle"
  /\ NoOp.pc = "idle" /\ NoOp.dropped = None
BY WriteBufferAssumption DEF NoRelease, NoOp

\* A Release returns.  One that fails is past its look at the name.
LEMMA ReturnNames ==
  ASSUME TypeOK, TreeInv, NamesRight, NEW f \in Files, NEW ok \in BOOLEAN, Return(f, ok),
         DriveNames', \A g \in Files \ {f} : name'[g] = name[g],
         name'[f] = name[f] \/ name'[f] \notin Excluded, ok \/ name'[f] \notin Excluded
  PROVE  NamesRight'
<1>1. ReleaseNames'
  BY InitialNameUploads DEF Return, TypeOK, ReleaseOK, NamesRight, ReleaseNames, NamedRight, Started
<1>2. MovesNames'
  BY InitialNameUploads DEF Return, NamesRight, MovesNames
<1>3. WaitsUnderTo'
  BY InitialNameUploads, OperationTypes DEF Return, NamesRight, WaitsUnderTo, RunByRename
<1>4. ShownRight'
  <2> SUFFICES ASSUME NEW n \in Names \ Excluded, NEW g \in Files, tree'[n] = g,
                      name'[g] \in Excluded
               PROVE  RunByRename(g)'
    BY DEF ShownRight
  <2>1. CASE tree' = tree /\ op' = op
    BY <2>1 DEF NamesRight, ShownRight, RunByRename
  <2>2. CASE RunByRename(f)
    <3>1. op' = NoOp /\ (tree' = tree \/ (ok /\ tree' = Moved(tree, op.from, op.to)))
      BY <2>2 DEF Return
    <3>2. tree[op.from] = f /\ op.pc = "renameWait" /\ op.file = f
      BY <2>2 DEF TreeInv, OpFile, RunByRename
    <3>3. CASE g # f
      <4>1. ~RunByRename(g)
        BY <3>2, <3>3 DEF RunByRename
      <4>2. tree[n] = g
        BY <3>1, <3>2, <3>3, OperationTypes, WriteBufferAssumption DEF Moved, TypeOK, TreeOK
      <4> QED
        BY <3>3, <4>1, <4>2 DEF NamesRight, ShownRight
    <3>4. CASE g = f
      <4>1. ok /\ name[f] \in Excluded /\ name'[f] = name[f]
        BY <3>4
      <4>2. name[f] = op.to
        BY <3>2, <4>1 DEF NamesRight, WaitsUnderTo
      <4>3. tree' = Moved(tree, op.from, op.to)
        BY <2>2, <4>1 DEF Return
      <4>4. n # op.from /\ n # op.to
        BY <3>4, <4>1, <4>2, <4>3, OperationTypes, WriteBufferAssumption
           DEF Moved, TypeOK, TreeOK
      <4>5. tree[n] = f
        BY <3>4, <4>3, <4>4 DEF Moved, TypeOK, TreeOK
      <4> QED
        BY <3>2, <4>4, <4>5, OperationTypes, WriteBufferAssumption DEF TreeInv, OneName
    <3> QED
      BY <3>3, <3>4
  <2>3. CASE ~RunByRename(f)
    BY <2>1, <2>3 DEF Return
  <2> QED
    BY <2>2, <2>3
<1>5. DriveNames'
  OBVIOUS
<1> QED
  BY <1>1, <1>2, <1>3, <1>4, <1>5 DEF NamesRight

\* A Release goes on.
LEMMA GoesOnNames ==
  ASSUME NamesRight, NEW f \in Files, UNCHANGED <<op, tree, name>>, DriveNames',
         \A g \in Files \ {f} : rel'[g] = rel[g], NamedRight(f)'
  PROVE  NamesRight'
BY DEF NamesRight, ReleaseNames, NamedRight, Started, MovesNames, WaitsUnderTo, ShownRight,
   RunByRename

\* An operation other than the end of a rename leaves the names, and may take one off the tree.
LEMMA OtherNames ==
  ASSUME NamesRight, \A n \in Names : tree'[n] \in {tree[n], None}, name' = name,
         ReleaseNames', DriveNames', MovesNames',
         op' = op \/ (op.pc # "renameWait" /\ op'.pc # "renameWait")
  PROVE  NamesRight'
BY WriteBufferAssumption DEF NamesRight, WaitsUnderTo, ShownRight, RunByRename

\* A buffer is released, and nothing else that the names depend on changes.
LEMMA StartNames ==
  ASSUME TypeOK, NamesRight, NEW f \in Files, NEW by,
         rel' = [rel EXCEPT ![f].pc = "start", ![f].by = by], name' = name
  PROVE  ReleaseNames'
BY DEF NamesRight, ReleaseNames, NamedRight, Started, TypeOK, ReleaseOK, Releases

\* A Release that is past its look at the names works under a name that uploads.
LEMMA PastLook ==
  ASSUME NamesRight, NEW f \in Files, rel[f].pc \notin {"idle", "start", "decide"}
  PROVE  rel[f].name \notin Excluded /\ name[f] \notin Excluded
BY DEF NamesRight, ReleaseNames, NamedRight, Started

\* What a commit adds to the drive bears the name its Release looked at.
LEMMA CommittedNames ==
  ASSUME TypeOK, NamesRight, NEW f \in Files, NEW l \in Links, NEW v, Committed(f, l, v),
         rel[f].pc = "upload"
  PROVE  DriveNames'
BY PastLook DEF Committed, NamesRight, DriveNames, TypeOK, FolderOK, DriveLinks

LEMMA SameDriveNames == ASSUME NamesRight, drive' = drive PROVE DriveNames'
BY DEF NamesRight, DriveNames

LEMMA TrashedNames ==
  ASSUME TypeOK, NamesRight, NEW l, drive' = [drive EXCEPT ![l].st = "trashed"]
  PROVE  DriveNames'
BY DEF NamesRight, DriveNames, TypeOK, FolderOK, DriveLinks

LEMMA MoveTrashNames ==
  ASSUME TypeOK, NamesRight, NEW l, NEW to, MoveTrash(l, to)
  PROVE  DriveNames'
BY SameDriveNames, TrashedNames DEF MoveTrash

LEMMA MoveDoneNames ==
  ASSUME TypeOK, NamesRight, NEW l, NEW from, NEW to, to \notin Excluded, MoveDone(l, from, to)
  PROVE  DriveNames'
BY DEF MoveDone, NamesRight, DriveNames, TypeOK, FolderOK, DriveLinks

LEMMA ReleaseStepNames ==
  ASSUME TypeOK, TreeInv, NamesRight, NEW f \in Files, ReleaseStep(f)
  PROVE  NamesRight'
<1> USE DEF TypeOK, ReleaseOK, Releases, nodeVars, treeVars, fateVars
<1>1. CASE ReadRelease(f)
  <2>1. CASE handle[f].gone \/ ~handle[f].dirty
    BY <1>1, <2>1, ReturnNames, SameDriveNames DEF ReadRelease
  <2>2. CASE ~(handle[f].gone \/ ~handle[f].dirty)
    <3>1. NamedRight(f)'
      <4>1. /\ rel'[f].pc = "decide" /\ rel'[f].name = name[f] /\ name' = name
            /\ rel'[f].upName = rel[f].upName /\ rel'[f].to = rel[f].to
        <5>1. /\ rel' = [rel EXCEPT ![f].pc = "decide", ![f].name = name[f],
                                    ![f].existing = node[f]]
              /\ name' = name
          BY <1>1, <2>2 DEF ReadRelease
        <5> QED
          BY <5>1
      <4> QED
        BY <4>1 DEF NamedRight, NamesRight, ReleaseNames
    <3>2. UNCHANGED <<op, tree, name, drive>> /\ \A g \in Files \ {f} : rel'[g] = rel[g]
      BY <1>1, <2>2 DEF ReadRelease
    <3> QED
      BY <3>1, <3>2, GoesOnNames, SameDriveNames
  <2> QED
    BY <2>1, <2>2
<1>2. CASE Decide(f)
  <2>1. rel[f].pc = "decide" /\ UNCHANGED <<name, drive>>
    BY <1>2 DEF Decide
  <2>2. CASE PhaseForName(f) # "releasing"
    BY <1>2, <2>1, <2>2, ReturnNames, SameDriveNames DEF Decide
  <2>3. CASE PhaseForName(f) = "releasing"
    <3>1. /\ rel' = [rel EXCEPT ![f].pc = "await", ![f].chain = replaces[f]]
          /\ UNCHANGED <<op, tree>>
      BY <1>2, <2>3 DEF Decide
    <3>2. rel[f].name \notin Excluded
      BY <2>3 DEF PhaseForName
    <3>3. NamedRight(f)'
      BY <2>1, <3>1, <3>2 DEF NamedRight, Started, NamesRight, ReleaseNames
    <3>4. \A g \in Files \ {f} : rel'[g] = rel[g]
      BY <3>1
    <3> QED
      BY <2>1, <3>1, <3>3, <3>4, GoesOnNames, SameDriveNames
  <2> QED
    BY <2>2, <2>3
<1>3. CASE AwaitReplaced(f)
  <2>1. /\ rel' = [rel EXCEPT ![f].chain = replaces[rel[f].chain]] /\ rel[f].pc = "await"
        /\ UNCHANGED <<op, tree, name, drive>>
    BY <1>3 DEF AwaitReplaced
  <2>2. NamedRight(f)'
    BY <2>1 DEF NamedRight, Started, NamesRight, ReleaseNames
  <2>3. \A g \in Files \ {f} : rel'[g] = rel[g]
    BY <2>1
  <2> QED
    BY <2>1, <2>2, <2>3, GoesOnNames, SameDriveNames
<1>4. CASE LockUpload(f)
  <2>1. drive' = drive /\ name' = name /\ DriveNames'
    BY <1>4, SameDriveNames DEF LockUpload, nodeVars
  <2>2. CASE handle[f].gone
    BY <1>4, <2>1, <2>2, ReturnNames DEF LockUpload
  <2>3. CASE ~handle[f].gone
    <3>1. Step(f, "queued") /\ rel[f].pc = "await" /\ UNCHANGED <<op, tree>>
      BY <1>4, <2>3 DEF LockUpload
    <3>2. NamedRight(f)'
      BY <2>1, <3>1 DEF Step, NamedRight, Started, NamesRight, ReleaseNames, TypeOK, ReleaseOK,
                        Releases
    <3> QED
      BY <2>1, <3>1, <3>2, GoesOnNames DEF Step
  <2> QED
    BY <2>2, <2>3
<1>5. CASE AcquireSlot(f)
  <2>1. /\ rel' = [rel EXCEPT ![f].pc = "upload", ![f].ver = handle[f].ver]
        /\ rel[f].pc = "queued" /\ UNCHANGED <<op, tree, name, drive>>
    BY <1>5 DEF AcquireSlot
  <2>2. NamedRight(f)'
    BY <2>1 DEF NamedRight, Started, NamesRight, ReleaseNames
  <2>3. \A g \in Files \ {f} : rel'[g] = rel[g]
    BY <2>1
  <2> QED
    BY <2>1, <2>2, <2>3, GoesOnNames, SameDriveNames
<1>6. CASE QueueCancelled(f)
  BY <1>6, ReturnNames, PastLook, SameDriveNames DEF QueueCancelled
<1>7. CASE UploadLate(f)
  BY <1>7, ReturnNames, PastLook, CommittedNames DEF UploadLate
<1>8. CASE UploadFails(f)
  BY <1>8, ReturnNames, PastLook, SameDriveNames DEF UploadFails
<1>9. CASE UploadSucceeds(f)
  <2>1. DriveNames'
    BY <1>9, CommittedNames DEF UploadSucceeds
  <2>2. NamedRight(f)'
    BY <1>9, <2>1 DEF UploadSucceeds, NamedRight, Started, NamesRight, ReleaseNames, DriveNames
  <2>3. \A g \in Files \ {f} : rel'[g] = rel[g]
    BY <1>9 DEF UploadSucceeds
  <2> QED
    BY <1>9, <2>1, <2>2, <2>3, GoesOnNames DEF UploadSucceeds
<1>10. CASE Claim(f)
  <2>1. CASE Return(f, TRUE)
    BY <1>10, <2>1, ReturnNames, SameDriveNames DEF Claim
  <2>2. CASE (Step(f, "trash") \/ Step(f, "patch")) /\ UNCHANGED <<op, tree>>
    <3>1. NamedRight(f)'
      <4>1. /\ rel'[f].name = rel[f].name /\ name' = name
            /\ rel'[f].upName = rel[f].upName /\ rel'[f].to = rel[f].to
        <5>1. PICK pc \in RelSteps : rel' = [rel EXCEPT ![f].pc = pc]
          BY <2>2 DEF Step, RelSteps
        <5>2. name' = name
          BY <1>10 DEF Claim
        <5> QED
          BY <5>1, <5>2
      <4>2. rel[f].name \notin Excluded /\ name[f] \notin Excluded
        BY <1>10, PastLook DEF Claim
      <4> QED
        BY <4>1, <4>2 DEF NamedRight, NamesRight, ReleaseNames
    <3>2. UNCHANGED <<name, drive>> /\ \A g \in Files \ {f} : rel'[g] = rel[g]
      BY <1>10, <2>2 DEF Claim, Step
    <3> QED
      BY <2>2, <3>1, <3>2, GoesOnNames, SameDriveNames
  <2> QED
    BY <1>10, <2>1, <2>2 DEF Claim
<1>11. CASE TrashGone(f)
  BY <1>11, ReturnNames, SameDriveNames, TrashedNames DEF TrashGone
<1>12. CASE Patch(f)
  <2>1. CASE rel[f].up = None
    BY <1>12, <2>1, ReturnNames, SameDriveNames DEF Patch
  <2>2. CASE rel[f].up # None
    <3>1. name[f] \notin Excluded /\ rel[f].name \notin Excluded
      BY <1>12, PastLook DEF Patch
    <3>2. NamedRight(f)'
      BY <1>12, <2>2, <3>1 DEF Patch, NamedRight, Started, NamesRight, ReleaseNames
    <3>3. UNCHANGED <<op, tree, name, drive>> /\ \A g \in Files \ {f} : rel'[g] = rel[g]
      BY <1>12, <2>2 DEF Patch
    <3> QED
      BY <3>2, <3>3, GoesOnNames, SameDriveNames
  <2> QED
    BY <2>1, <2>2
<1>13. CASE Publish(f)
  <2>1. /\ Return(f, TRUE) /\ DriveNames' /\ rel[f].upName \notin Excluded
        /\ name' = [name EXCEPT ![f] = rel[f].upName]
    <3>1. /\ Return(f, TRUE) /\ drive' = drive
          /\ name' = [name EXCEPT ![f] = rel[f].upName]
      BY <1>13 DEF Publish
    <3>2. NamedRight(f)
      BY DEF NamesRight, ReleaseNames
    <3> QED
      BY <3>1, <3>2, SameDriveNames DEF NamedRight
  <2>2. name'[f] = rel[f].upName /\ \A g \in Files \ {f} : name'[g] = name[g]
    BY <2>1 DEF TypeOK, NodesOK
  <2>3. /\ Return(f, TRUE) /\ DriveNames' /\ TRUE \in BOOLEAN
        /\ name'[f] \notin Excluded /\ \A g \in Files \ {f} : name'[g] = name[g]
    BY <2>1, <2>2
  <2> QED
    BY <2>3, ReturnNames
<1>14. CASE ReleaseMoveTrash(f)
  <2>1. NamedRight(f) /\ name' = name /\ name[f] \notin Excluded
    BY <1>14, PastLook DEF ReleaseMoveTrash, nodeVars, NamesRight, ReleaseNames, NamedRight, Started
  <2>2. CASE MoveTrash(rel[f].up, rel[f].to)
             /\ rel' = [rel EXCEPT ![f].pc = "move",
                                   ![f].trashed = MoveTrashed(rel[f].up, rel[f].to)]
             /\ UNCHANGED <<op, tree>>
    <3>1. DriveNames'
      BY <2>2, MoveTrashNames
    <3>2. NamedRight(f)'
      BY <1>14, <2>1, <2>2 DEF NamedRight, Started, ReleaseMoveTrash, TypeOK, ReleaseOK, Releases
    <3>3. \A g \in Files \ {f} : rel'[g] = rel[g]
      BY <2>2
    <3> QED
      BY <2>1, <2>2, <3>1, <3>2, <3>3, GoesOnNames
  <2>3. CASE Return(f, FALSE) /\ drive' = drive
    BY <2>1, <2>3, ReturnNames, SameDriveNames
  <2> QED
    BY <1>14, <2>2, <2>3 DEF ReleaseMoveTrash
<1>15. CASE ReleaseMove(f)
  BY <1>15, ReturnNames, SameDriveNames, MoveDoneNames, PastLook DEF ReleaseMove, NamesRight,
     ReleaseNames, NamedRight, NodesOK
<1> QED
  BY <1>1, <1>2, <1>3, <1>4, <1>5, <1>6, <1>7, <1>8,
     <1>9, <1>10, <1>11, <1>12, <1>13, <1>14, <1>15 DEF ReleaseStep

(***************************************************************************)
(* Names in the handlers and directory operations.                          *)
(***************************************************************************)

LEMMA SameReleaseNames ==
  ASSUME NamesRight, rel' = rel, name' = name
  PROVE  ReleaseNames'
BY DEF NamesRight, ReleaseNames, NamedRight, Started

\* The end of a rename gives the file the name op.to, excluded only if no upload runs.
LEMMA RenameReleasesNames ==
  ASSUME TypeOK, OwnedByRelease, TreeInv, NamesRight, RenameReleases(op.file),
         op.pc \in {"retarget", "renameApply"}, drive' = drive,
         name' = [name EXCEPT ![op.file] = op.to],
         op.to \in Excluded => ~Started(op.file)
  PROVE  NamesRight'
<1> DEFINE f == op.file
<1>1. f \in Files /\ op.to \in Names /\ op.from \in Names /\ tree[op.from] = f
  BY OperationTypes DEF TreeInv, OpFile
<1>2. DriveNames'
  BY SameDriveNames
<1>3. \A n \in Names \ Excluded : \A g \in Files \ {f} :
        tree[n] = g => name[g] \notin Excluded /\ name'[g] = name[g]
  BY <1>1 DEF NamesRight, ShownRight, RunByRename, TypeOK, NodesOK
<1>4. name'[f] = op.to
  BY <1>1 DEF TypeOK, NodesOK
<1>5. CASE Parked(f)
  <2>1. /\ rel' = [rel EXCEPT ![f].pc = "start", ![f].by = "user"]
        /\ op' = [op EXCEPT !.pc = "renameWait"] /\ tree' = tree
    BY <1>5 DEF RenameReleases
  <2>2. op'.pc = "renameWait" /\ op'.file = f /\ op'.to = op.to
    BY <2>1 DEF TypeOK, OpOK, Operations
  <2>3. ReleaseNames'
    BY <1>1, <1>4, <2>1 DEF NamesRight, ReleaseNames, NamedRight, Started, TypeOK, ReleaseOK,
       Releases, NodesOK
  <2>4. MovesNames' /\ WaitsUnderTo'
    BY <1>4, <2>2 DEF MovesNames, WaitsUnderTo
  <2>5. ShownRight'
    BY <1>3, <2>1, <2>2 DEF ShownRight, RunByRename
  <2> QED
    BY <1>2, <2>3, <2>4, <2>5 DEF NamesRight
<1>6. CASE ~Parked(f)
  <2>1. op' = NoOp /\ tree' = Moved(tree, op.from, op.to) /\ rel' = rel
    BY <1>6 DEF RenameReleases
  <2>2. ReleaseNames'
    BY <1>1, <1>4, <2>1 DEF NamesRight, ReleaseNames, NamedRight, Started, TypeOK, NodesOK
  <2>3. MovesNames' /\ WaitsUnderTo'
    BY <2>1, InitialNameUploads DEF MovesNames, WaitsUnderTo
  <2>4. ShownRight'
    <3> SUFFICES ASSUME NEW n \in Names \ Excluded, NEW g \in Files, tree'[n] = g,
                        name'[g] \in Excluded
                 PROVE  FALSE
      BY DEF ShownRight
    <3>1. n # op.from
      BY <1>1, <2>1, WriteBufferAssumption DEF Moved, TypeOK, TreeOK
    <3>2. CASE n = op.to
      BY <1>1, <1>4, <2>1, <3>1, <3>2 DEF Moved, TypeOK, TreeOK
    <3>3. CASE n # op.to
      <4>1. tree[n] = g
        BY <1>1, <2>1, <3>1, <3>3 DEF Moved, TypeOK, TreeOK
      <4>2. g # f
        BY <1>1, <3>1, <4>1, WriteBufferAssumption DEF TreeInv, OneName
      <4> QED
        BY <1>3, <4>1, <4>2
    <3> QED
      BY <3>2, <3>3
  <2> QED
    BY <1>2, <2>2, <2>3, <2>4 DEF NamesRight
<1> QED
  BY <1>5, <1>6

LEMMA DirStepNames ==
  ASSUME TypeOK, OwnedByRelease, TreeInv, NamesRight, DirStep,
         "excludedMidUpload" \notin races'
  PROVE  NamesRight'
<1> USE DEF nodeVars, treeVars, fateVars
<1>1. CASE UnlinkPending
  <2>1. rel' = rel /\ name' = name /\ drive' = drive
    BY <1>1 DEF UnlinkPending
  <2>2. op.pc = "unlinkPending" /\ op'.pc \in {"idle", "unlinkTrash"}
    BY <1>1, InitialNameUploads DEF UnlinkPending, UnlinkReturns, TypeOK, OpOK, Operations
  <2>3. \A n \in Names : tree'[n] \in {tree[n], None}
    BY <1>1 DEF UnlinkPending, UnlinkReturns, TypeOK, TreeOK
  <2> QED
    BY <2>1, <2>2, <2>3, OtherNames, SameDriveNames, SameReleaseNames DEF MovesNames
<1>2. CASE UnlinkTrash
  <2>1. rel' = rel /\ name' = name
    BY <1>2 DEF UnlinkTrash
  <2>2. op.pc = "unlinkTrash" /\ op'.pc = "idle"
    BY <1>2, InitialNameUploads DEF UnlinkTrash, UnlinkReturns
  <2>3. \A n \in Names : tree'[n] \in {tree[n], None}
    BY <1>2 DEF UnlinkTrash, UnlinkReturns, TypeOK, TreeOK
  <2>4. DriveNames'
    BY <1>2, SameDriveNames, TrashedNames DEF UnlinkTrash
  <2> QED
    BY <2>1, <2>2, <2>3, <2>4, OtherNames, SameReleaseNames DEF MovesNames
<1>3. CASE RenamePending \/ RenameReplace
  <2>1. rel' = rel /\ name' = name /\ drive' = drive /\ tree' = tree
    BY <1>3 DEF RenamePending, RenameReplace
  <2>2. /\ op.pc \in {"renamePending", "renameReplace"} /\ op'.pc # "renameWait"
        /\ op'.pc = "renameApply" => op.pc = "renameReplace"
        /\ op'.pc \in {"retarget", "renameApply"} /\ op'.to = op.to
    BY <1>3 DEF RenamePending, RenameReplace, TypeOK, OpOK, Operations
  <2>3. MovesNames'
    BY <2>2 DEF NamesRight, MovesNames
  <2> QED
    BY <2>1, <2>2, <2>3, OtherNames, SameDriveNames, SameReleaseNames
<1>4. CASE RenameTrash \/ RenameMove
  <2>1. rel' = rel /\ name' = name /\ tree' = tree
    BY <1>4 DEF RenameTrash, RenameMove
  <2>2. /\ op.pc \in {"renameTrash", "renameMove"}
        /\ op' = NoOp \/ (op'.to = op.to /\ op'.pc \in {"renameMove", "renameReplace"})
    BY <1>4 DEF RenameTrash, RenameMove, TypeOK, OpOK, Operations
  <2>3. op.to \notin Excluded
    BY <2>2 DEF NamesRight, MovesNames
  <2>4. DriveNames'
    BY <1>4, <2>3, SameDriveNames, MoveTrashNames, MoveDoneNames DEF RenameTrash, RenameMove
  <2>5. MovesNames'
    BY <2>2, <2>3, InitialNameUploads DEF MovesNames
  <2> QED
    BY <2>1, <2>2, <2>4, <2>5, OtherNames, SameReleaseNames, InitialNameUploads
<1>5. CASE Retarget
  <2>1. op.to \in Excluded => ~Started(op.file)
    BY <1>5 DEF Retarget, Races, LosingRaces
  <2> QED
    BY <1>5, <2>1, RenameReleasesNames DEF Retarget
<1>6. CASE RenameApply
  <2>1. op.to \notin Excluded
    BY <1>6 DEF RenameApply, NamesRight, MovesNames
  <2> QED
    BY <1>6, <2>1, RenameReleasesNames DEF RenameApply
<1> QED
  BY <1>1, <1>2, <1>3, <1>4, <1>5, <1>6 DEF DirStep

\* Lookup and Create put a file under n, and give it that name.
LEMMA NamedNames ==
  ASSUME TypeOK, TreeInv, NamesRight, op.pc = "idle", NEW n \in Names, NEW f \in Files,
         \A m \in Names \ {n} : tree[m] # f,
         tree' = [tree EXCEPT ![n] = f], name' = [name EXCEPT ![f] = n],
         n \notin Excluded \/ ~Started(f), UNCHANGED <<op, rel, drive>>
  PROVE  NamesRight'
<1>1. DriveNames'
  BY SameDriveNames
<1>2. ReleaseNames'
  BY DEF NamesRight, ReleaseNames, NamedRight, Started, TypeOK, NodesOK
<1>3. MovesNames' /\ WaitsUnderTo'
  BY DEF NamesRight, MovesNames, WaitsUnderTo
<1>4. ShownRight'
  BY DEF NamesRight, ShownRight, RunByRename, TypeOK, NodesOK, TreeOK
<1> QED
  BY <1>1, <1>2, <1>3, <1>4 DEF NamesRight

LEMMA UserStepNames ==
  ASSUME TypeOK, OwnedByRelease, TreeInv, NamesRight, UserStep
  PROVE  NamesRight'
<1> USE DEF nodeVars, treeVars, fateVars
<1>1. ASSUME NEW n \in Names, Lookup(n) PROVE NamesRight'
  <2>1. PICK f \in Files : /\ IF tree[n] = None THEN Fresh(f) ELSE f = tree[n]
                           /\ tree' = [tree EXCEPT ![n] = f]
                           /\ name' = [name EXCEPT ![f] = n]
    BY <1>1 DEF Lookup
  <2>2. \A m \in Names \ {n} : tree[m] # f
    BY <2>1, WriteBufferAssumption DEF Fresh, TreeInv, OneName
  <2> QED
    BY <1>1, <2>1, <2>2, NamedNames DEF Lookup, DirIdle
<1>2. ASSUME NEW n \in Names, Create(n) PROVE NamesRight'
  <2>1. PICK f \in Files : /\ Fresh(f) /\ tree' = [tree EXCEPT ![n] = f]
                           /\ name' = [name EXCEPT ![f] = n]
    BY <1>2 DEF Create
  <2> QED
    BY <1>2, <2>1, NamedNames DEF Create, DirIdle, Fresh, Started
<1>3. ASSUME NEW n \in Names, Unlink(n) PROVE NamesRight'
  <2>1. rel' = rel /\ name' = name /\ drive' = drive /\ op.pc = "idle"
    BY <1>3 DEF Unlink, DirIdle
  <2>2. op'.pc \in {"idle", "unlinkPending"}
    BY <1>3, InitialNameUploads DEF Unlink, UnlinkReturns, NoOp
  <2>3. \A m \in Names : tree'[m] \in {tree[m], None}
    BY <1>3 DEF Unlink, UnlinkReturns, TypeOK, TreeOK
  <2> QED
    BY <2>1, <2>2, <2>3, OtherNames, SameDriveNames, SameReleaseNames DEF MovesNames
<1>4. ASSUME NEW from \in Names, NEW to \in Names, Rename(from, to) PROVE NamesRight'
  <2>1. rel' = rel /\ name' = name /\ drive' = drive /\ tree' = tree /\ op.pc = "idle"
    BY <1>4 DEF Rename, DirIdle
  <2>2. /\ op'.pc \in {"renamePending", "renameTrash"} /\ op'.to = to
        /\ op'.pc = "renameTrash" => to \notin Excluded
    BY <1>4 DEF Rename, NoOp
  <2> QED
    BY <2>1, <2>2, OtherNames, SameDriveNames, SameReleaseNames DEF MovesNames
<1>5. ASSUME NEW n \in Names, Open(n) PROVE NamesRight'
  BY <1>5, OtherNames, SameDriveNames, SameReleaseNames DEF Open, NamesRight, MovesNames
<1>6. ASSUME NEW f \in Files, Write(f) \/ Truncate(f) PROVE NamesRight'
  BY <1>6, OtherNames, SameDriveNames, SameReleaseNames
     DEF Write, Truncate, NamesRight, MovesNames
<1>7. ASSUME NEW f \in Files, Close(f) PROVE NamesRight'
  BY <1>7, OtherNames, SameDriveNames, StartNames DEF Close, NamesRight, MovesNames
<1> QED
  BY <1>1, <1>2, <1>3, <1>4, <1>5, <1>6, <1>7 DEF UserStep

LEMMA SettleNames ==
  ASSUME TypeOK, NamesRight, NEW f \in Files, NEW by, Settle(f, by),
         UNCHANGED <<op, tree, name, drive>>
  PROVE  NamesRight'
BY OtherNames, SameDriveNames, StartNames DEF Settle, NamesRight, MovesNames

LEMMA SameNames ==
  ASSUME NamesRight, UNCHANGED <<op, tree, name, drive, rel>>
  PROVE  NamesRight'
BY OtherNames, SameDriveNames, SameReleaseNames DEF NamesRight, MovesNames

LEMMA ExitNames == ASSUME TypeOK, NamesRight, NEW r, Exit(r) PROVE NamesRight'
<1>1. DriveNames'
  BY SameDriveNames DEF Exit
<1> QED
  BY <1>1, InitialNameUploads, WriteBufferAssumption
     DEF Exit, NamesRight, ReleaseNames, NamedRight, Started, MovesNames, WaitsUnderTo,
         ShownRight

LEMMA NextNames ==
  ASSUME TypeOK, OwnedByRelease, TreeInv, NamesRight, [Next]_vars,
         "excludedMidUpload" \notin races'
  PROVE  NamesRight'
<1> USE DEF nodeVars, treeVars, fateVars
<1>1. CASE UnmountStep
  <2>1. CASE Detach \/ ExternalUnmount \/ Kill
    BY <2>1, ExitNames DEF Detach, ExternalUnmount, Kill
  <2>2. CASE BeginFlush \/ PassDone \/ FlushDeadline \/ AbandonKept
    BY <2>2, SameNames DEF BeginFlush, PassDone, FlushDeadline, AbandonKept
  <2>3. ASSUME NEW f \in Files, FlushSettle(f) PROVE NamesRight'
    BY <2>3, SettleNames, SameNames DEF FlushSettle
  <2> QED
    BY <1>1, <2>1, <2>2, <2>3 DEF UnmountStep
<1>2. CASE Refresh \/ Terminated \/ UNCHANGED vars
  BY <1>2, SameNames DEF Refresh, Terminated, vars
<1>3. ASSUME NEW f \in Files, TimerFires(f) PROVE NamesRight'
  BY <1>3, SettleNames DEF TimerFires
<1> QED
  BY <1>1, <1>2, <1>3, ReleaseStepNames, DirStepNames, UserStepNames DEF Next, MountedNext

LEMMA InitNames == Init => NamesRight
BY InitialNameUploads, WriteBufferAssumption
   DEF Init, NamesRight, DriveNames, NoLink, ReleaseNames, NamedRight, Started, MovesNames,
       WaitsUnderTo, ShownRight

NamesInv == "excludedMidUpload" \notin races => NamesRight

\* Types, owners, tree and names together, in every reachable state.
LEMMA NamesHold == Spec => [](TypeOK /\ OwnedByRelease /\ TreeInv /\ NamesInv)
<1>1. Init => TreeInv /\ NamesInv
  BY InitTree, InitNames DEF NamesInv
<1>2. TypeOK /\ OwnedByRelease /\ TreeInv /\ NamesInv /\ [Next]_vars => TreeInv' /\ NamesInv'
  BY NextTree, NextNames, RacesStay DEF NamesInv
<1> QED
  BY <1>1, <1>2, TypeCorrect, OneOwner, PTL DEF Spec

\* An excluded name never reaches the drive, whichever uploads, renames, deletes and
\* timers interleave, unless a pending file was renamed to it in the middle of its upload.
THEOREM ExcludedLocal == Spec => []ExcludedStaysLocal
<1>1. NamesInv => ExcludedStaysLocal
  BY WriteBufferAssumption DEF NamesInv, NamesRight, DriveNames, ExcludedStaysLocal, Active
<1> QED
  BY <1>1, NamesHold, PTL

(***************************************************************************)
(* Buffers parked with no timer.                                            *)
(***************************************************************************)

KeptRight(f) == handle[f].phase = "kept"
                  => ~handle[f].gone /\ (name[f] \in Excluded \/ handle[f].failed)
AllKept == \A f \in Files : KeptRight(f)
StrandRaces == {"staleName", "parkedGone", "excludedMidUpload"}

\* A step that touches one file's buffer or name leaves the others' way out.
LEMMA OneKept ==
  ASSUME AllKept, NEW f \in Files, KeptRight(f)',
         \A g \in Files \ {f} : handle'[g] = handle[g] /\ name'[g] = name[g]
  PROVE  AllKept'
BY DEF AllKept, KeptRight

\* A dropped buffer is not parked.
LEMMA DropKept == ASSUME TypeOK, NEW f \in Files, Drop(f) \/ KeepUnsaved(f) \/ Discard(f)
                  PROVE  KeptRight(f)' /\ \A g \in Files \ {f} : handle'[g] = handle[g]
BY DEF Drop, KeepUnsaved, Discard, KeptRight, NoHandle, TypeOK, BuffersOK

LEMMA ParkedBuffer ==
  ASSUME TypeOK, NEW f \in Files, NEW phase, NEW failed, Park(f, phase, failed)
  PROVE  /\ handle'[f].phase = phase /\ handle'[f].failed = failed
         /\ handle'[f].gone = handle[f].gone /\ handle'[f].ver = handle[f].ver
         /\ handle'[f].dirty = handle[f].dirty
         /\ \A g \in Files \ {f} : handle'[g] = handle[g]
BY DEF Park, TypeOK, BuffersOK, Buffers

LEMMA KeepForRetryKept ==
  ASSUME TypeOK, NEW f \in Files, NEW permanent \in BOOLEAN, KeepForRetry(f, permanent)
  PROVE  KeptRight(f)' /\ \A g \in Files \ {f} : handle'[g] = handle[g]
<1>1. CASE handle[f].gone \/ Closing
  BY <1>1, DropKept DEF KeepForRetry
<1>2. CASE ~handle[f].gone /\ ~Closing /\ permanent
  <2>1. PICK failed \in BOOLEAN : failed = TRUE
    OBVIOUS
  <2>2. Park(f, "kept", failed)
    BY <1>2, <2>1 DEF KeepForRetry
  <2> QED
    BY <1>2, <2>1, <2>2, ParkedBuffer DEF KeptRight
<1>3. CASE ~handle[f].gone /\ ~Closing /\ ~permanent
  BY <1>3, ParkedBuffer DEF KeepForRetry, KeptRight
<1> QED
  BY <1>1, <1>2, <1>3

LEMMA DecideKept ==
  ASSUME TypeOK, AllKept, NEW f \in Files, Decide(f), races' \cap StrandRaces = {}
  PROVE  AllKept'
<1>1. /\ handle'[f].phase = PhaseForName(f) /\ handle'[f].gone = handle[f].gone
      /\ \A g \in Files \ {f} : handle'[g] = handle[g]
  BY ParkedBuffer DEF Decide
<1>2. name' = name
  BY DEF Decide, nodeVars
<1>3. PhaseForName(f) = "kept" => name[f] \in Excluded /\ ~handle[f].gone
  BY DEF Decide, StrandRaces, Races, LosingRaces
<1> QED
  BY <1>1, <1>2, <1>3, OneKept DEF KeptRight

LEMMA ReleaseStepKept ==
  ASSUME TypeOK, OwnedByRelease, AllKept, NEW f \in Files, ReleaseStep(f),
         races' \cap StrandRaces = {}
  PROVE  AllKept'
<1>1. CASE Decide(f)
  BY <1>1, DecideKept
<1>2. CASE ~Decide(f)
  <2>1. \A g \in Files \ {f} : name'[g] = name[g]
    BY <1>2 DEF ReleaseStep, ReadRelease, AwaitReplaced, LockUpload, AcquireSlot,
       QueueCancelled, UploadSucceeds, UploadLate, UploadFails, Claim, TrashGone, Patch, Publish,
       ReleaseMoveTrash, ReleaseMove, nodeVars, TypeOK, NodesOK
  <2>2. KeptRight(f)' /\ \A g \in Files \ {f} : handle'[g] = handle[g]
    <3>1. CASE Drop(f) \/ Discard(f) \/ \E permanent \in BOOLEAN : KeepForRetry(f, permanent)
      BY <3>1, DropKept, KeepForRetryKept
    <3>2. CASE handle' = handle
      <4>1. rel[f].pc # "idle"
        BY <1>2 DEF ReleaseStep, ReadRelease, AwaitReplaced, LockUpload, AcquireSlot,
           QueueCancelled, UploadSucceeds, UploadLate, UploadFails, Claim, TrashGone, Patch,
           Publish, ReleaseMoveTrash, ReleaseMove
      <4>2. handle[f].phase = "releasing"
        BY <4>1 DEF OwnedByRelease
      <4> QED
        BY <3>2, <4>2 DEF KeptRight
    <3> QED
      BY <1>2, <3>1, <3>2 DEF ReleaseStep, ReadRelease, AwaitReplaced, LockUpload, AcquireSlot,
         QueueCancelled, UploadSucceeds, UploadLate, UploadFails, Claim, TrashGone, Patch,
         Publish, ReleaseMoveTrash, ReleaseMove
  <2> QED
    BY <2>1, <2>2, OneKept
<1> QED
  BY <1>1, <1>2

LEMMA SettleKept ==
  ASSUME TypeOK, AllKept, NEW f \in Files, NEW by, Settle(f, by), name' = name
  PROVE  AllKept'
<1>1. handle'[f].phase = "releasing" /\ \A g \in Files \ {f} : handle'[g] = handle[g]
  BY DEF Settle, TypeOK, BuffersOK, Buffers
<1> QED
  BY <1>1, OneKept DEF KeptRight

LEMMA ReplaceKept ==
  ASSUME TypeOK, AllKept, NEW to \in Names, NEW src, NEW link, Replace(to, src, link),
         name' = name
  PROVE  AllKept'
<1> DEFINE dst == tree[to]
           left == dst \in {None, src} \/ (link # None /\ node[dst] = link) \/ ~HasBuf(dst)
<1>1. CASE left
  BY <1>1 DEF Replace, AllKept, KeptRight
<1>2. CASE ~left
  <2>1. dst \in Files
    BY <1>2 DEF TypeOK, TreeOK, FileOrNone
  <2>2. CASE Parked(dst)
    BY <1>2, <2>1, <2>2, DropKept, OneKept DEF Replace
  <2>3. CASE ~Parked(dst)
    <3>1. handle' = [handle EXCEPT ![dst].gone = TRUE]
      BY <1>2, <2>3 DEF Replace
    <3>2. handle'[dst].phase # "kept" /\ \A g \in Files \ {dst} : handle'[g] = handle[g]
      BY <2>1, <2>3, <3>1 DEF Parked, TypeOK, BuffersOK, Buffers
    <3> QED
      BY <2>1, <3>2, OneKept DEF KeptRight
  <2> QED
    BY <2>2, <2>3
<1> QED
  BY <1>1, <1>2

LEMMA RenameReleasesKept ==
  ASSUME TypeOK, AllKept, NEW f \in Files, NEW n, RenameReleases(f),
         name' = [name EXCEPT ![f] = n]
  PROVE  AllKept'
<1>1. \A g \in Files \ {f} : name'[g] = name[g]
  BY DEF TypeOK, NodesOK
<1>2. CASE Parked(f)
  <2>1. handle'[f].phase = "releasing" /\ \A g \in Files \ {f} : handle'[g] = handle[g]
    BY <1>2 DEF RenameReleases, TakenBack, TypeOK, BuffersOK, Buffers
  <2> QED
    BY <1>1, <2>1, OneKept DEF KeptRight
<1>3. CASE ~Parked(f)
  BY <1>1, <1>3, OneKept DEF RenameReleases, KeptRight, Parked
<1> QED
  BY <1>2, <1>3

LEMMA DirStepKept ==
  ASSUME TypeOK, AllKept, DirStep, races' \cap StrandRaces = {}
  PROVE  AllKept'
<1>1. CASE UnlinkPending
  <2>1. op.file \in Files /\ name' = name
    BY <1>1, OperationTypes DEF UnlinkPending, nodeVars
  <2>2. CASE Pending(op.file) /\ HasBuf(op.file)
    <3>1. handle' = [handle EXCEPT ![op.file].gone = TRUE] /\ handle[op.file].phase # "kept"
      BY <1>1, <2>2 DEF UnlinkPending, Raced, StrandRaces
    <3>2. handle'[op.file].phase # "kept" /\ \A g \in Files \ {op.file} : handle'[g] = handle[g]
      BY <2>1, <3>1 DEF TypeOK, BuffersOK, Buffers
    <3> QED
      BY <2>1, <3>2, OneKept DEF KeptRight
  <2>3. CASE ~(Pending(op.file) /\ HasBuf(op.file))
    BY <1>1, <2>1, <2>3 DEF UnlinkPending, AllKept, KeptRight
  <2> QED
    BY <2>2, <2>3
<1>2. CASE RenamePending \/ RenameReplace
  BY <1>2, OperationTypes, ReplaceKept DEF RenamePending, RenameReplace
<1>3. CASE Retarget \/ RenameApply
  BY <1>3, OperationTypes, RenameReleasesKept DEF Retarget, RenameApply
<1>4. CASE UnlinkTrash \/ RenameTrash \/ RenameMove
  BY <1>4 DEF UnlinkTrash, RenameTrash, RenameMove, nodeVars, AllKept, KeptRight
<1> QED
  BY <1>1, <1>2, <1>3, <1>4 DEF DirStep

LEMMA UserStepKept ==
  ASSUME TypeOK, TreeInv, NamesRight, AllKept, UserStep
  PROVE  AllKept'
<1> USE DEF nodeVars
<1>1. ASSUME NEW n \in Names, Lookup(n) PROVE AllKept'
  <2>1. PICK f \in Files : /\ IF tree[n] = None THEN Fresh(f) ELSE f = tree[n]
                           /\ name' = [name EXCEPT ![f] = n]
    BY <1>1 DEF Lookup
  <2>2. handle' = handle /\ op.pc = "idle" /\ n \notin Excluded
    BY <1>1 DEF Lookup, DirIdle
  <2>3. handle[f].phase = "kept" => ~handle[f].gone /\ handle[f].failed
    <3>1. CASE Fresh(f)
      BY <3>1 DEF Fresh, NoHandle
    <3>2. CASE f = tree[n]
      BY <2>2, <3>2 DEF NamesRight, ShownRight, RunByRename, AllKept, KeptRight
    <3> QED
      BY <2>1, <3>1, <3>2
  <2>4. \A g \in Files \ {f} : name'[g] = name[g]
    BY <2>1 DEF TypeOK, NodesOK
  <2> QED
    BY <2>2, <2>3, <2>4, OneKept DEF KeptRight
<1>2. ASSUME NEW n \in Names, Create(n) PROVE AllKept'
  <2>1. PICK f \in Files :
          /\ name' = [name EXCEPT ![f] = n]
          /\ handle' = [handle EXCEPT ![f] =
                              [NoHandle EXCEPT !.phase = "open", !.ver = saves + 1,
                                               !.dirty = TRUE]]
    BY <1>2 DEF Create
  <2>2. handle'[f].phase = "open"
        /\ \A g \in Files \ {f} : handle'[g] = handle[g] /\ name'[g] = name[g]
    BY <2>1 DEF TypeOK, BuffersOK, NodesOK, NoHandle
  <2> QED
    BY <2>2, OneKept DEF KeptRight
<1>3. ASSUME NEW n \in Names, Unlink(n) PROVE AllKept'
  <2>1. tree[n] \in Files /\ name' = name
    BY <1>3 DEF Unlink, TypeOK, TreeOK, FileOrNone
  <2>2. CASE Parked(tree[n])
    BY <1>3, <2>1, <2>2, DropKept, OneKept DEF Unlink
  <2>3. CASE ~Parked(tree[n])
    BY <1>3, <2>1, <2>3 DEF Unlink, AllKept, KeptRight
  <2> QED
    BY <2>2, <2>3
<1>4. ASSUME NEW n \in Names, Open(n) PROVE AllKept'
  <2>1. tree[n] \in Files /\ name' = name
    BY <1>4 DEF Open, TypeOK, TreeOK, FileOrNone
  <2>2. handle'[tree[n]].phase = "open" /\ \A g \in Files \ {tree[n]} : handle'[g] = handle[g]
    BY <1>4, <2>1 DEF Open, TakenBack, NoHandle, TypeOK, BuffersOK, Buffers
  <2> QED
    BY <2>1, <2>2, OneKept DEF KeptRight
<1>5. ASSUME NEW f \in Files, Write(f) \/ Truncate(f) PROVE AllKept'
  <2>1. /\ handle'[f].phase = handle[f].phase /\ handle'[f].gone = handle[f].gone
        /\ handle'[f].failed = handle[f].failed /\ name' = name
        /\ \A g \in Files \ {f} : handle'[g] = handle[g]
    BY <1>5 DEF Write, Truncate, TypeOK, BuffersOK, Buffers
  <2> QED
    BY <2>1 DEF AllKept, KeptRight
<1>6. ASSUME NEW f \in Files, Close(f) PROVE AllKept'
  <2>1. handle'[f].phase = "releasing" /\ name' = name
        /\ \A g \in Files \ {f} : handle'[g] = handle[g]
    BY <1>6 DEF Close, TypeOK, BuffersOK, Buffers
  <2> QED
    BY <2>1, OneKept DEF KeptRight
<1>7. ASSUME NEW from \in Names, NEW to \in Names, Rename(from, to) PROVE AllKept'
  BY <1>7 DEF Rename, AllKept, KeptRight
<1> QED
  BY <1>1, <1>2, <1>3, <1>4, <1>5, <1>6, <1>7 DEF UserStep

LEMMA NextKept ==
  ASSUME TypeOK, OwnedByRelease, TreeInv, NamesRight, AllKept, [Next]_vars,
         races' \cap StrandRaces = {}
  PROVE  AllKept'
<1> USE DEF nodeVars
<1>1. CASE UnmountStep
  <2>1. CASE Detach \/ ExternalUnmount \/ Kill
    BY <2>1 DEF Detach, ExternalUnmount, Kill, Exit, NoHandle, AllKept, KeptRight
  <2>2. CASE BeginFlush \/ PassDone \/ FlushDeadline
    BY <2>2 DEF BeginFlush, PassDone, FlushDeadline, AllKept, KeptRight
  <2>3. ASSUME NEW f \in Files, FlushSettle(f) PROVE AllKept'
    <3>1. CASE handle[f].phase = "waiting"
      BY <2>3, <3>1, SettleKept DEF FlushSettle
    <3>2. CASE handle[f].phase # "waiting"
      BY <2>3, <3>2 DEF FlushSettle, AllKept, KeptRight
    <3> QED
      BY <3>1, <3>2
  <2>4. CASE AbandonKept
    <3>1. \A f \in Files : handle'[f].phase # "kept"
      BY <2>4 DEF AbandonKept, Parked, NoHandle
    <3> QED
      BY <3>1 DEF AllKept, KeptRight
  <2> QED
    BY <1>1, <2>1, <2>2, <2>3, <2>4 DEF UnmountStep
<1>2. CASE Refresh \/ Terminated \/ UNCHANGED vars
  BY <1>2 DEF Refresh, Terminated, vars, AllKept, KeptRight
<1>3. ASSUME NEW f \in Files, TimerFires(f) PROVE AllKept'
  BY <1>3, SettleKept DEF TimerFires
<1> QED
  BY <1>1, <1>2, <1>3, ReleaseStepKept, DirStepKept, UserStepKept DEF Next, MountedNext

KeptInv == races \cap StrandRaces = {} => AllKept

LEMMA KeptHolds == Spec => []KeptInv
<1>1. Init => KeptInv
  BY DEF Init, NoHandle, KeptInv, AllKept, KeptRight
<1>2. /\ TypeOK /\ OwnedByRelease /\ TreeInv /\ NamesInv /\ KeptInv /\ [Next]_vars
      => KeptInv'
  BY NextKept, RacesStay DEF KeptInv, NamesInv, StrandRaces
<1> QED
  BY <1>1, <1>2, NamesHold, PTL DEF Spec

\* A buffer parked with no timer has a way out: nothing deletes or replaces it where it
\* is, and its name stays excluded or its upload was refused, whatever is renamed, reopened
\* or looked up meanwhile, but for the three races of a Release with a rename or a delete.
THEOREM NoneStranded == Spec => []NothingStranded
<1>1. KeptInv => NothingStranded
  BY DEF KeptInv, AllKept, KeptRight, StrandRaces, NothingStranded
<1> QED
  BY <1>1, KeptHolds, PTL

(***************************************************************************)
(* The saves in the buffers.  No two buffers hold one save, a buffer with   *)
(* nothing written in it holds what was on the drive from the start, and    *)
(* the save of a buffer marked gone was given up or uploaded.               *)
(***************************************************************************)

SaveRight(f) ==
  /\ handle[f].ver <= saves
  /\ ~handle[f].dirty => handle[f].ver = 0
  /\ handle[f].gone /\ handle[f].ver \in acked => handle[f].ver \in forgone \cup uploaded
AllSaves   == \A f \in Files : SaveRight(f)
NoneShared == \A f, g \in Files : f # g /\ handle[f].ver = handle[g].ver => handle[f].ver = 0
HistoryInv == 0 \in uploaded /\ \A v \in acked : v <= saves
SavesInv   == AllSaves /\ NoneShared /\ HistoryInv

LEMMA SaveTypes ==
  ASSUME TypeOK
  PROVE  /\ saves \in Nat /\ 0 \in Saves
         /\ \A f \in Files : handle[f].ver \in Nat /\ handle[f].ver \in Saves
         /\ acked \subseteq Nat
         /\ Saves \subseteq Nat
BY WriteBufferAssumption DEF TypeOK, BuffersOK, Buffers, HistoryOK, Saves

LEMMA NextSaveTypes ==
  ASSUME TypeOK'
  PROVE  /\ saves' \in Nat /\ acked' \subseteq Nat
         /\ \A f \in Files : handle'[f].ver \in Nat
BY WriteBufferAssumption DEF TypeOK, BuffersOK, Buffers, HistoryOK, Saves

\* One buffer changes; what is acknowledged meanwhile is its save.
LEMMA OneSaved ==
  ASSUME TypeOK, TypeOK', SavesInv, NEW f \in Files,
         \A g \in Files \ {f} : handle'[g] = handle[g],
         saves <= saves', uploaded \subseteq uploaded', forgone \subseteq forgone',
         \/ handle'[f].ver \in {0, handle[f].ver}
         \/ handle'[f].ver = saves + 1,
         acked' \subseteq acked \cup {handle'[f].ver}, SaveRight(f)'
  PROVE  SavesInv'
<1>1. /\ saves \in Nat /\ saves' \in Nat /\ acked' \subseteq Nat
      /\ \A g \in Files : handle[g].ver \in Nat /\ handle'[g].ver \in Nat
  BY SaveTypes, NextSaveTypes
<1>2. HistoryInv'
  BY <1>1 DEF SavesInv, HistoryInv, SaveRight
<1>3. NoneShared'
  BY <1>1 DEF SavesInv, AllSaves, SaveRight, NoneShared
<1>4. ASSUME NEW g \in Files, g # f PROVE SaveRight(g)'
  <2>1. handle'[g] = handle[g] /\ SaveRight(g)
    BY <1>4 DEF SavesInv, AllSaves
  <2>2. handle'[g].ver \in acked' => handle[g].ver \in acked \/ handle[g].ver = 0
    BY <1>1, <1>4, <2>1 DEF SavesInv, NoneShared, SaveRight
  <2>3. handle'[g].ver <= saves'
    BY <1>1, <2>1 DEF SaveRight
  <2> QED
    BY <2>1, <2>2, <2>3 DEF SaveRight, SavesInv, HistoryInv
<1>5. AllSaves'
  BY <1>4 DEF AllSaves
<1> QED
  BY <1>2, <1>3, <1>5 DEF SavesInv

\* Buffers go, and the history of the saves only grows.
LEMMA ManySaved ==
  ASSUME TypeOK, TypeOK', SavesInv, \A g \in Files : handle'[g] \in {handle[g], NoHandle},
         saves' = saves, acked' = acked, uploaded \subseteq uploaded', forgone \subseteq forgone'
  PROVE  SavesInv'
<1>1. NoHandle.ver = 0 /\ ~NoHandle.gone
  BY DEF NoHandle
<1>2. AllSaves'
  BY <1>1, SaveTypes DEF SavesInv, AllSaves, SaveRight
<1>3. NoneShared'
  BY <1>1 DEF SavesInv, NoneShared
<1>4. HistoryInv'
  BY DEF SavesInv, HistoryInv
<1> QED
  BY <1>2, <1>3, <1>4 DEF SavesInv

\* What a step of a Release does to the buffers: it drops its own, or leaves the content.
SameContent(f) == /\ handle'[f].ver = handle[f].ver /\ handle'[f].dirty = handle[f].dirty
                  /\ handle'[f].gone = handle[f].gone
LEMMA DropContent ==
  ASSUME TypeOK, NEW f \in Files, Drop(f) \/ KeepUnsaved(f) \/ Discard(f)
  PROVE  /\ handle'[f] = NoHandle /\ \A g \in Files \ {f} : handle'[g] = handle[g]
         /\ kept \subseteq kept'
BY DEF Drop, KeepUnsaved, Discard, TypeOK, BuffersOK

\* A refused upload parks its buffer with the same content, keeps it for recovery, or
\* drops it when the file is gone.
LEMMA KeepForRetryContent ==
  ASSUME TypeOK, NEW f \in Files, NEW permanent \in BOOLEAN, KeepForRetry(f, permanent)
  PROVE  /\ \/ handle'[f] = NoHandle /\ (handle[f].gone \/ handle[f].ver \in kept')
            \/ handle'[f].phase \in {"kept", "waiting"} /\ SameContent(f)
         /\ \A g \in Files \ {f} : handle'[g] = handle[g]
         /\ kept \subseteq kept'
<1>1. CASE handle[f].gone
  BY <1>1, DropContent DEF KeepForRetry
<1>2. CASE ~handle[f].gone /\ Closing
  BY <1>2, DropContent DEF KeepForRetry, KeepUnsaved
<1>3. CASE ~handle[f].gone /\ ~Closing
  <2>1. PICK phase \in {"kept", "waiting"}, failed \in BOOLEAN : Park(f, phase, failed)
    BY <1>3 DEF KeepForRetry, TypeOK, BuffersOK, Buffers
  <2> QED
    BY <2>1, ParkedBuffer DEF SameContent, Park
<1> QED
  BY <1>1, <1>2, <1>3

\* What the buffer of f held when its Release let go of it is safe, or nobody was told
\* that it is saved.
Carried(f) ==
  /\ rel[f].pc = "upload" => rel[f].ver = handle[f].ver
  /\ rel[f].pc \in {"claim", "trash", "patch", "publish", "moveTrash", "move"}
       => handle[f].ver \in uploaded
Settled(f) == handle[f].ver \in acked => handle[f].ver \in forgone \cup uploaded' \cup kept'
Fate(f) == /\ \A g \in Files \ {f} : handle'[g] = handle[g]
           /\ kept \subseteq kept' /\ uploaded \subseteq uploaded'
           /\ \/ handle'[f] = NoHandle
              \/ SameContent(f) /\ handle'[f].phase # "none"

\* The steps that go no further than the upload.
LEMMA EarlyFate ==
  ASSUME TypeOK, OwnedByRelease, SavesInv, NEW f \in Files,
         \/ ReadRelease(f) \/ Decide(f) \/ AwaitReplaced(f) \/ LockUpload(f) \/ AcquireSlot(f)
         \/ QueueCancelled(f) \/ UploadLate(f) \/ UploadFails(f) \/ UploadSucceeds(f)
  PROVE  Fate(f) /\ (handle'[f] = NoHandle => Settled(f))
<1>1. handle[f].phase = "releasing"
  BY DEF OwnedByRelease, ReadRelease, Decide, AwaitReplaced, LockUpload, AcquireSlot,
     QueueCancelled, UploadLate, UploadFails, UploadSucceeds
<1>2. uploaded \subseteq uploaded'
  BY DEF ReadRelease, Decide, AwaitReplaced, LockUpload, AcquireSlot, QueueCancelled,
     UploadLate, UploadFails, UploadSucceeds, Committed, fateVars
<1>3. handle[f].gone \/ ~handle[f].dirty => Settled(f)
  BY <1>2 DEF Settled, SavesInv, AllSaves, SaveRight, HistoryInv
<1>4. CASE UNCHANGED <<handle, kept>>
  BY <1>1, <1>2, <1>4 DEF Fate, SameContent, NoHandle
<1>5. CASE (Drop(f) \/ Discard(f)) /\ (handle[f].gone \/ ~handle[f].dirty)
  BY <1>2, <1>3, <1>5, DropContent DEF Fate
<1>6. ASSUME NEW permanent \in BOOLEAN, KeepForRetry(f, permanent)
      PROVE  Fate(f) /\ (handle'[f] = NoHandle => Settled(f))
  BY <1>2, <1>3, <1>6, KeepForRetryContent DEF Fate, Settled, NoHandle
<1>7. CASE Decide(f)
  <2>1. /\ SameContent(f) /\ handle'[f].phase = PhaseForName(f) /\ kept' = kept
        /\ \A g \in Files \ {f} : handle'[g] = handle[g]
    BY <1>7, ParkedBuffer DEF Decide, SameContent, Park
  <2> QED
    BY <1>2, <2>1 DEF Fate, PhaseForName, NoHandle
<1> QED
  BY <1>4, <1>5, <1>6, <1>7 DEF ReadRelease, AwaitReplaced, LockUpload, AcquireSlot,
     QueueCancelled, UploadLate, UploadFails, UploadSucceeds, fateVars

\* The steps that follow it.
LEMMA LateFate ==
  ASSUME TypeOK, OwnedByRelease, NEW f \in Files,
         \/ Claim(f) \/ TrashGone(f) \/ Patch(f) \/ Publish(f) \/ ReleaseMoveTrash(f)
         \/ ReleaseMove(f)
  PROVE  Fate(f) /\ (Carried(f) => Settled(f))
<1>1. handle[f].phase = "releasing"
  BY DEF OwnedByRelease, Claim, TrashGone, Patch, Publish, ReleaseMoveTrash, ReleaseMove
<1>2. uploaded' = uploaded
  BY DEF Claim, TrashGone, Patch, Publish, ReleaseMoveTrash, ReleaseMove
<1>3. ASSUME UNCHANGED <<handle, kept>> PROVE Fate(f)
  BY <1>1, <1>2, <1>3 DEF Fate, SameContent, NoHandle
<1>4. ASSUME Drop(f) PROVE Fate(f)
  BY <1>2, <1>4, DropContent DEF Fate
<1>5. Fate(f)
  BY <1>3, <1>4 DEF Claim, TrashGone, Patch, Publish, ReleaseMoveTrash, ReleaseMove
<1>6. Carried(f) => Settled(f)
  BY <1>2 DEF Carried, Settled, Claim, TrashGone, Patch, Publish, ReleaseMoveTrash, ReleaseMove
<1> QED
  BY <1>5, <1>6

\* The fate of a save at a step of its Release: the buffer keeps its content, or it is
\* dropped after its save reached the drive, was kept for recovery or was given up.
LEMMA ReleaseStepFate ==
  ASSUME TypeOK, OwnedByRelease, SavesInv, NEW f \in Files, ReleaseStep(f)
  PROVE  /\ Fate(f) /\ (Carried(f) /\ handle'[f] = NoHandle => Settled(f))
         /\ UNCHANGED <<saves, acked, forgone, local, mount>>
<1>1. Fate(f) /\ (Carried(f) /\ handle'[f] = NoHandle => Settled(f))
  BY EarlyFate, LateFate DEF ReleaseStep
<1>2. UNCHANGED <<saves, acked, forgone, local, mount>>
  BY DEF ReleaseStep, ReadRelease, Decide, AwaitReplaced, LockUpload, AcquireSlot,
     QueueCancelled, UploadSucceeds, UploadLate, UploadFails, Claim, TrashGone, Patch, Publish,
     ReleaseMoveTrash, ReleaseMove, fateVars, mountVars
<1> QED
  BY <1>1, <1>2

LEMMA ReleaseStepSaves ==
  ASSUME TypeOK, TypeOK', OwnedByRelease, SavesInv, NEW f \in Files, ReleaseStep(f)
  PROVE  SavesInv'
<1>1. Fate(f) /\ UNCHANGED <<saves, acked, forgone>>
  BY ReleaseStepFate
<1>2. CASE handle'[f] = NoHandle
  BY <1>1, <1>2, ManySaved DEF Fate
<1>3. CASE SameContent(f)
  <2>1. SaveRight(f)'
    BY <1>1, <1>3 DEF SavesInv, AllSaves, SaveRight, SameContent, Fate
  <2> QED
    BY <1>1, <1>3, <2>1, OneSaved, SaveTypes DEF Fate, SameContent
<1> QED
  BY <1>1, <1>2, <1>3 DEF Fate

(***************************************************************************)
(* The saves in the handlers and directory operations.                      *)
(***************************************************************************)

\* The content of a buffer stays, and it may now be marked written or gone.
LEMMA SameSaves ==
  ASSUME TypeOK, TypeOK', SavesInv, NEW f \in Files,
         \A g \in Files \ {f} : handle'[g] = handle[g],
         handle'[f].ver = handle[f].ver, handle'[f].dirty \/ handle'[f].dirty = handle[f].dirty,
         handle'[f].gone = handle[f].gone \/ handle[f].ver \in forgone',
         saves' = saves, acked' = acked, uploaded' = uploaded, forgone \subseteq forgone'
  PROVE  SavesInv'
<1>1. SaveRight(f)'
  BY DEF SavesInv, AllSaves, SaveRight
<1> QED
  BY <1>1, OneSaved, SaveTypes

LEMMA SettleSaves ==
  ASSUME TypeOK, TypeOK', SavesInv, NEW f \in Files, NEW by, Settle(f, by),
         UNCHANGED <<saves, acked, forgone, uploaded>>
  PROVE  SavesInv'
<1>1. /\ handle'[f].ver = handle[f].ver /\ handle'[f].dirty
      /\ handle'[f].gone = handle[f].gone
      /\ \A g \in Files \ {f} : handle'[g] = handle[g]
  BY DEF Settle, TypeOK, BuffersOK, Buffers
<1> QED
  BY <1>1, SameSaves

LEMMA TakenBackContent ==
  ASSUME TypeOK, NEW f \in Files, NEW phase, handle' = TakenBack(f, phase)
  PROVE  /\ handle'[f].ver = handle[f].ver /\ handle'[f].dirty
         /\ handle'[f].gone = handle[f].gone /\ handle'[f].phase = phase
         /\ \A g \in Files \ {f} : handle'[g] = handle[g]
BY DEF TakenBack, TypeOK, BuffersOK, Buffers

\* A file makes way: its buffer is dropped or marked, and its save is given up.
LEMMA ReplaceContent ==
  ASSUME TypeOK, NEW to \in Names, NEW src, NEW link, Replace(to, src, link)
  PROVE  \/ UNCHANGED <<handle, kept, forgone>>
         \/ \E dst \in Files :
              /\ forgone' = forgone \cup {handle[dst].ver} /\ kept \subseteq kept'
              /\ \A g \in Files \ {dst} : handle'[g] = handle[g]
              /\ \/ handle'[dst] = NoHandle /\ Parked(dst)
                 \/ /\ handle'[dst].ver = handle[dst].ver
                    /\ handle'[dst].dirty = handle[dst].dirty
                    /\ handle'[dst].phase = handle[dst].phase
<1> DEFINE dst == tree[to]
           left == dst \in {None, src} \/ (link # None /\ node[dst] = link) \/ ~HasBuf(dst)
<1>1. CASE left
  BY <1>1 DEF Replace
<1>2. CASE ~left
  <2>1. dst \in Files /\ forgone' = forgone \cup {handle[dst].ver}
    BY <1>2 DEF Replace, TypeOK, TreeOK, FileOrNone
  <2>2. CASE Parked(dst)
    BY <1>2, <2>1, <2>2, DropContent DEF Replace
  <2>3. CASE ~Parked(dst)
    <3>1. handle' = [handle EXCEPT ![dst].gone = TRUE] /\ kept' = kept
      BY <1>2, <2>3 DEF Replace
    <3>2. /\ handle'[dst].ver = handle[dst].ver /\ handle'[dst].dirty = handle[dst].dirty
          /\ handle'[dst].phase = handle[dst].phase
          /\ \A g \in Files \ {dst} : handle'[g] = handle[g]
      BY <2>1, <3>1 DEF TypeOK, BuffersOK, Buffers
    <3> QED
      BY <2>1, <3>1, <3>2
  <2> QED
    BY <2>2, <2>3
<1> QED
  BY <1>1, <1>2

\* A replaced file's save is given up with its buffer.
LEMMA ReplaceSaves ==
  ASSUME TypeOK, TypeOK', SavesInv, NEW to \in Names, NEW src, NEW link,
         Replace(to, src, link), UNCHANGED <<saves, acked, uploaded>>
  PROVE  SavesInv'
<1>1. CASE UNCHANGED <<handle, kept, forgone>>
  BY <1>1, ManySaved
<1>2. CASE ~UNCHANGED <<handle, kept, forgone>>
  <2>1. PICK dst \in Files :
              /\ forgone' = forgone \cup {handle[dst].ver}
              /\ \A g \in Files \ {dst} : handle'[g] = handle[g]
              /\ \/ handle'[dst] = NoHandle
                 \/ /\ handle'[dst].ver = handle[dst].ver
                    /\ handle'[dst].dirty = handle[dst].dirty
    BY <1>2, ReplaceContent
  <2>2. CASE handle'[dst] = NoHandle
    BY <2>1, <2>2, ManySaved
  <2>3. CASE handle'[dst] # NoHandle
    BY <2>1, <2>3, SameSaves
  <2> QED
    BY <2>2, <2>3
<1> QED
  BY <1>1, <1>2

LEMMA RenameReleasesSaves ==
  ASSUME TypeOK, TypeOK', SavesInv, NEW f \in Files, RenameReleases(f),
         UNCHANGED <<saves, acked, uploaded, forgone>>
  PROVE  SavesInv'
<1>1. CASE Parked(f)
  BY <1>1, TakenBackContent, SameSaves DEF RenameReleases
<1>2. CASE ~Parked(f)
  BY <1>2, ManySaved DEF RenameReleases
<1> QED
  BY <1>1, <1>2

LEMMA DirStepSaves ==
  ASSUME TypeOK, TypeOK', SavesInv, DirStep
  PROVE  SavesInv'
<1> USE DEF fateVars
<1>1. CASE UnlinkPending
  <2>1. op.file \in Files /\ UNCHANGED <<saves, acked, uploaded>>
    BY <1>1, OperationTypes DEF UnlinkPending
  <2>2. CASE Pending(op.file) /\ HasBuf(op.file)
    <3>1. /\ handle' = [handle EXCEPT ![op.file].gone = TRUE]
          /\ handle[op.file].ver \in forgone' /\ forgone \subseteq forgone'
      BY <1>1, <2>1, <2>2, SaveTypes, WriteBufferAssumption DEF UnlinkPending, UnlinkReturns
    <3>2. /\ handle'[op.file].ver = handle[op.file].ver
          /\ handle'[op.file].dirty = handle[op.file].dirty
          /\ \A g \in Files \ {op.file} : handle'[g] = handle[g]
      BY <2>1, <3>1 DEF TypeOK, BuffersOK, Buffers
    <3> QED
      BY <2>1, <3>1, <3>2, SameSaves
  <2>3. CASE ~(Pending(op.file) /\ HasBuf(op.file))
    BY <1>1, <2>1, <2>3, ManySaved DEF UnlinkPending
  <2> QED
    BY <2>2, <2>3
<1>2. CASE UnlinkTrash
  <2>1. forgone \subseteq forgone'
    BY <1>2 DEF UnlinkTrash, UnlinkReturns
  <2> QED
    BY <1>2, <2>1, ManySaved DEF UnlinkTrash
<1>3. CASE RenamePending \/ RenameReplace
  BY <1>3, OperationTypes, ReplaceSaves DEF RenamePending, RenameReplace
<1>4. CASE Retarget \/ RenameApply
  BY <1>4, OperationTypes, RenameReleasesSaves DEF Retarget, RenameApply
<1>5. CASE RenameTrash \/ RenameMove
  BY <1>5, ManySaved DEF RenameTrash, RenameMove
<1> QED
  BY <1>1, <1>2, <1>3, <1>4, <1>5 DEF DirStep

LEMMA UserStepSaves ==
  ASSUME TypeOK, TypeOK', SavesInv, UserStep
  PROVE  SavesInv'
<1> USE DEF fateVars
<1>1. ASSUME NEW n \in Names, Create(n) PROVE SavesInv'
  <2>1. PICK f \in Files : handle' = [handle EXCEPT ![f] =
               [NoHandle EXCEPT !.phase = "open", !.ver = saves + 1, !.dirty = TRUE]]
    BY <1>1 DEF Create
  <2>2. /\ handle'[f].ver = saves + 1 /\ handle'[f].dirty /\ ~handle'[f].gone
        /\ \A g \in Files \ {f} : handle'[g] = handle[g]
    BY <2>1 DEF TypeOK, BuffersOK, NoHandle
  <2>3. saves' = saves + 1 /\ UNCHANGED <<acked, forgone, uploaded>>
    BY <1>1 DEF Create, NewSave
  <2>4. SaveRight(f)'
    BY <2>2, <2>3, SaveTypes DEF SaveRight
  <2> QED
    BY <2>2, <2>3, <2>4, OneSaved, SaveTypes
<1>2. ASSUME NEW n \in Names, Open(n) PROVE SavesInv'
  <2>1. tree[n] \in Files /\ UNCHANGED <<saves, acked, forgone, uploaded>>
    BY <1>2 DEF Open, TypeOK, TreeOK, FileOrNone
  <2>2. CASE handle' = TakenBack(tree[n], "open")
    BY <2>1, <2>2, TakenBackContent, SameSaves
  <2>3. CASE handle' = [handle EXCEPT ![tree[n]] = [NoHandle EXCEPT !.phase = "open"]]
    <3>1. /\ handle'[tree[n]].ver = 0 /\ ~handle'[tree[n]].gone
          /\ \A g \in Files \ {tree[n]} : handle'[g] = handle[g]
      BY <2>1, <2>3 DEF TypeOK, BuffersOK, NoHandle
    <3>2. \A f \in Files : f = tree[n] => SaveRight(f)'
      BY <2>1, <3>1, SaveTypes DEF SaveRight
    <3>3. PICK f \in Files : f = tree[n]
      BY <2>1
    <3> QED
      BY <2>1, <3>1, <3>2, <3>3, OneSaved, SaveTypes
  <2> QED
    BY <1>2, <2>2, <2>3 DEF Open
<1>3. ASSUME NEW n \in Names, Unlink(n) PROVE SavesInv'
  <2>1. tree[n] \in Files /\ UNCHANGED <<saves, acked, uploaded>>
    BY <1>3 DEF Unlink, TypeOK, TreeOK, FileOrNone
  <2>2. \A g \in Files : handle'[g] \in {handle[g], NoHandle}
    BY <1>3, <2>1, DropContent DEF Unlink
  <2>3. forgone \subseteq forgone'
    BY <1>3 DEF Unlink, UnlinkReturns
  <2> QED
    BY <2>1, <2>2, <2>3, ManySaved
<1>4. ASSUME NEW f \in Files, Write(f) PROVE SavesInv'
  <2>1. /\ handle'[f].ver = saves + 1 /\ handle'[f].dirty
        /\ \A g \in Files \ {f} : handle'[g] = handle[g]
    BY <1>4 DEF Write, TypeOK, BuffersOK, Buffers
  <2>2. /\ saves' = saves + 1 /\ UNCHANGED <<acked, uploaded>> /\ forgone \subseteq forgone'
    BY <1>4 DEF Write, NewSave
  <2>3. saves + 1 \notin acked
    BY SaveTypes DEF SavesInv, HistoryInv
  <2>4. SaveRight(f)'
    BY <2>1, <2>2, <2>3, SaveTypes DEF SaveRight
  <2> QED
    BY <2>1, <2>2, <2>4, OneSaved, SaveTypes
<1>5. ASSUME NEW f \in Files, Truncate(f) PROVE SavesInv'
  <2>1. /\ handle'[f].ver = saves + 1 /\ handle'[f].dirty
        /\ handle'[f].gone = handle[f].gone
        /\ \A g \in Files \ {f} : handle'[g] = handle[g]
    BY <1>5 DEF Truncate, TypeOK, BuffersOK, Buffers
  <2>2. /\ saves' = saves + 1 /\ uploaded' = uploaded /\ acked' = acked \cup {saves + 1}
        /\ forgone \subseteq forgone'
        /\ handle[f].gone => saves + 1 \in forgone'
    BY <1>5 DEF Truncate, NewSave
  <2>3. SaveRight(f)'
    BY <2>1, <2>2, SaveTypes DEF SaveRight
  <2> QED
    BY <2>1, <2>2, <2>3, OneSaved, SaveTypes
<1>6. ASSUME NEW f \in Files, Close(f) PROVE SavesInv'
  <2>1. /\ handle'[f].ver = handle[f].ver /\ handle'[f].dirty = handle[f].dirty
        /\ handle'[f].gone = handle[f].gone
        /\ \A g \in Files \ {f} : handle'[g] = handle[g]
    BY <1>6 DEF Close, TypeOK, BuffersOK, Buffers
  <2>2. /\ saves' = saves /\ uploaded' = uploaded /\ forgone \subseteq forgone'
        /\ \/ acked' = acked
           \/ acked' = acked \cup {handle[f].ver} /\ (handle[f].gone => handle[f].ver \in forgone')
    BY <1>6 DEF Close
  <2>3. SaveRight(f)'
    BY <2>1, <2>2 DEF SavesInv, AllSaves, SaveRight
  <2> QED
    BY <2>1, <2>2, <2>3, OneSaved, SaveTypes
<1>7. ASSUME \/ \E n \in Names : Lookup(n)
             \/ \E from, to \in Names : Rename(from, to)
      PROVE  SavesInv'
  BY <1>7, ManySaved DEF Lookup, Rename
<1> QED
  BY <1>1, <1>2, <1>3, <1>4, <1>5, <1>6, <1>7 DEF UserStep

LEMMA NextSaves ==
  ASSUME TypeOK, TypeOK', OwnedByRelease, SavesInv, [Next]_vars
  PROVE  SavesInv'
<1> USE DEF fateVars
<1>1. CASE UnmountStep
  <2>1. CASE Detach \/ ExternalUnmount \/ Kill
    BY <2>1, ManySaved DEF Detach, ExternalUnmount, Kill, Exit
  <2>2. CASE AbandonKept
    BY <2>2, ManySaved DEF AbandonKept
  <2>3. CASE BeginFlush \/ PassDone \/ FlushDeadline
    BY <2>3, ManySaved DEF BeginFlush, PassDone, FlushDeadline
  <2>4. ASSUME NEW f \in Files, FlushSettle(f) PROVE SavesInv'
    BY <2>4, SettleSaves, ManySaved DEF FlushSettle
  <2> QED
    BY <1>1, <2>1, <2>2, <2>3, <2>4 DEF UnmountStep
<1>2. CASE Refresh \/ Terminated \/ UNCHANGED vars
  BY <1>2, ManySaved DEF Refresh, Terminated, vars
<1>3. ASSUME NEW f \in Files, TimerFires(f) PROVE SavesInv'
  BY <1>3, SettleSaves DEF TimerFires
<1> QED
  BY <1>1, <1>2, <1>3, ReleaseStepSaves, DirStepSaves, UserStepSaves DEF Next, MountedNext

(***************************************************************************)
(* What an upload carries, while nothing truncates its file.                *)
(***************************************************************************)

AllCarried == \A f \in Files : Carried(f)

LEMMA OneCarried ==
  ASSUME TypeOK, AllCarried, NEW f \in Files, uploaded \subseteq uploaded', Carried(f)',
         \A g \in Files \ {f} : handle'[g] = handle[g] /\ rel'[g] = rel[g]
  PROVE  AllCarried'
BY DEF AllCarried, Carried

\* A file without a Release carries nothing.
LEMMA IdleCarried ==
  ASSUME TypeOK, OwnedByRelease', AllCarried, uploaded \subseteq uploaded',
         \A g \in Files : \/ handle'[g].phase # "releasing"
                          \/ rel'[g].pc \in {"idle", "start"}
                          \/ handle'[g].ver = handle[g].ver /\ rel'[g] = rel[g]
  PROVE  AllCarried'
BY DEF AllCarried, Carried, OwnedByRelease

LEMMA OneIdleCarried ==
  ASSUME TypeOK, OwnedByRelease', AllCarried, NEW f \in Files, uploaded \subseteq uploaded',
         handle'[f].phase # "releasing" \/ rel'[f].pc = "start",
         \A g \in Files \ {f} : handle'[g] = handle[g] /\ rel'[g] = rel[g]
  PROVE  AllCarried'
<1>1. rel'[f].pc \in {"idle", "start"}
  BY DEF OwnedByRelease
<1>2. Carried(f)'
  BY <1>1 DEF Carried
<1> QED
  BY <1>2, OneCarried

LEMMA ReleaseStepCarried ==
  ASSUME TypeOK, OwnedByRelease, OwnedByRelease', SavesInv, AllCarried, NEW f \in Files,
         ReleaseStep(f)
  PROVE  AllCarried'
<1> USE DEF TypeOK, ReleaseOK, Releases
<1>1. Fate(f)
  BY ReleaseStepFate
<1>2. \A g \in Files \ {f} : rel'[g] = rel[g]
  BY DEF ReleaseStep, ReadRelease, Decide, AwaitReplaced, LockUpload, AcquireSlot,
     QueueCancelled, UploadSucceeds, UploadLate, UploadFails, Claim, TrashGone, Patch, Publish,
     ReleaseMoveTrash, ReleaseMove, Return, Step
<1>3. CASE handle'[f].phase # "releasing"
  BY <1>1, <1>2, <1>3, OneIdleCarried DEF Fate
<1>4. CASE handle'[f].phase = "releasing"
  <2>1. handle'[f].ver = handle[f].ver /\ rel'[f].pc # "idle"
    BY <1>1, <1>4 DEF Fate, SameContent, NoHandle, OwnedByRelease
  <2>2. ~(\E ok \in BOOLEAN : Return(f, ok))
    BY <2>1 DEF Return, NoRelease
  <2>3. CASE AcquireSlot(f)
    BY <1>1, <1>2, <2>1, <2>3, OneCarried DEF AcquireSlot, Carried, Fate
  <2>4. CASE UploadSucceeds(f)
    <3>1. rel[f].ver = handle[f].ver
      BY <2>4 DEF UploadSucceeds, AllCarried, Carried
    <3>2. handle[f].ver \in uploaded'
      BY <2>4, <3>1 DEF UploadSucceeds, Committed
    <3>3. rel'[f].pc = "claim"
      BY <2>4 DEF UploadSucceeds
    <3> QED
      BY <1>1, <1>2, <2>1, <3>2, <3>3, OneCarried DEF Carried, Fate
  <2>5. CASE Claim(f) \/ Patch(f) \/ ReleaseMoveTrash(f)
    <3>1. handle[f].ver \in uploaded'
      BY <1>1, <2>5 DEF Claim, Patch, ReleaseMoveTrash, AllCarried, Carried, Fate
    <3>2. rel'[f].pc \in {"trash", "patch", "publish", "moveTrash", "move"}
      <4>1. CASE Claim(f)
        <5>1. PICK pc \in {"trash", "patch"} : Step(f, pc)
          BY <2>2, <4>1 DEF Claim
        <5> QED
          BY <5>1 DEF Step
      <4>2. CASE Patch(f)
        BY <2>2, <4>2 DEF Patch
      <4>3. CASE ReleaseMoveTrash(f)
        BY <2>2, <4>3 DEF ReleaseMoveTrash
      <4> QED
        BY <2>5, <4>1, <4>2, <4>3
    <3> QED
      BY <1>1, <1>2, <2>1, <3>1, <3>2, OneCarried DEF Carried, Fate
  <2>6. CASE ReadRelease(f) \/ Decide(f) \/ AwaitReplaced(f) \/ LockUpload(f)
    <3>1. rel'[f].pc \in {"decide", "await", "queued"}
      <4>1. CASE ReadRelease(f)
        <5>1. rel' = [rel EXCEPT ![f].pc = "decide", ![f].name = name[f],
                                 ![f].existing = node[f]]
          BY <2>2, <4>1 DEF ReadRelease
        <5> QED
          BY <5>1
      <4>2. CASE Decide(f)
        BY <2>2, <4>2 DEF Decide
      <4>3. CASE AwaitReplaced(f)
        BY <4>3 DEF AwaitReplaced
      <4>4. CASE LockUpload(f)
        BY <2>2, <4>4 DEF LockUpload, Step
      <4> QED
        BY <2>6, <4>1, <4>2, <4>3, <4>4
    <3> QED
      BY <1>1, <1>2, <3>1, OneCarried DEF Carried, Fate
  <2> QED
    BY <2>2, <2>3, <2>4, <2>5, <2>6 DEF ReleaseStep, QueueCancelled, UploadLate, UploadFails,
       TrashGone, Publish, ReleaseMove
<1> QED
  BY <1>3, <1>4

LEMMA SettleCarried ==
  ASSUME TypeOK, OwnedByRelease', AllCarried, NEW f \in Files, NEW by, Settle(f, by),
         uploaded' = uploaded
  PROVE  AllCarried'
<1>1. rel'[f].pc = "start"
      /\ \A g \in Files \ {f} : handle'[g] = handle[g] /\ rel'[g] = rel[g]
  BY DEF Settle, TypeOK, BuffersOK, ReleaseOK, Releases
<1> QED
  BY <1>1, OneIdleCarried

LEMMA RenameReleasesCarried ==
  ASSUME TypeOK, OwnedByRelease', AllCarried, NEW f \in Files, RenameReleases(f),
         uploaded' = uploaded
  PROVE  AllCarried'
<1>1. CASE Parked(f)
  <2>1. \A g \in Files \ {f} : handle'[g] = handle[g] /\ rel'[g] = rel[g]
    BY <1>1 DEF RenameReleases, TakenBack, TypeOK, BuffersOK, ReleaseOK
  <2>2. rel'[f].pc = "start"
    BY <1>1 DEF RenameReleases, TypeOK, ReleaseOK, Releases
  <2> QED
    BY <2>1, <2>2, OneIdleCarried
<1>2. CASE ~Parked(f)
  BY <1>2, IdleCarried DEF RenameReleases
<1> QED
  BY <1>1, <1>2

LEMMA ReplaceCarried ==
  ASSUME TypeOK, OwnedByRelease', AllCarried, NEW to \in Names, NEW src, NEW link,
         Replace(to, src, link), rel' = rel, uploaded' = uploaded
  PROVE  AllCarried'
<1>1. \A g \in Files : handle'[g].phase # "releasing" \/ handle'[g].ver = handle[g].ver
  BY ReplaceContent DEF NoHandle
<1> QED
  BY <1>1, IdleCarried

LEMMA DirStepCarried ==
  ASSUME TypeOK, OwnedByRelease', AllCarried, DirStep
  PROVE  AllCarried'
<1> USE DEF fateVars
<1>1. CASE UnlinkPending
  <2>1. rel' = rel /\ uploaded' = uploaded /\ \A g \in Files : handle'[g].ver = handle[g].ver
    BY <1>1 DEF UnlinkPending, TypeOK, BuffersOK, Buffers
  <2> QED
    BY <2>1, IdleCarried
<1>2. CASE RenamePending \/ RenameReplace
  BY <1>2, OperationTypes, ReplaceCarried DEF RenamePending, RenameReplace
<1>3. CASE Retarget \/ RenameApply
  BY <1>3, OperationTypes, RenameReleasesCarried DEF Retarget, RenameApply
<1>4. CASE UnlinkTrash \/ RenameTrash \/ RenameMove
  BY <1>4, IdleCarried DEF UnlinkTrash, RenameTrash, RenameMove
<1> QED
  BY <1>1, <1>2, <1>3, <1>4 DEF DirStep

LEMMA UserStepCarried ==
  ASSUME TypeOK, OwnedByRelease, OwnedByRelease', AllCarried, UserStep,
         "truncate" \notin races'
  PROVE  AllCarried'
<1> USE DEF fateVars
<1>1. ASSUME NEW n \in Names, Create(n) \/ Open(n) \/ Unlink(n) PROVE AllCarried'
  <2>1. CASE Create(n)
    <3>1. PICK f \in Files : handle' = [handle EXCEPT ![f] =
               [NoHandle EXCEPT !.phase = "open", !.ver = saves + 1, !.dirty = TRUE]]
      BY <2>1 DEF Create
    <3>2. /\ handle'[f].phase = "open" /\ rel' = rel /\ uploaded' = uploaded
          /\ \A g \in Files \ {f} : handle'[g] = handle[g]
      BY <2>1, <3>1 DEF Create, TypeOK, BuffersOK, NoHandle
    <3> QED
      BY <3>2, IdleCarried
  <2>2. CASE Open(n)
    <3>1. /\ tree[n] \in Files /\ rel' = rel /\ uploaded' = uploaded
      BY <2>2 DEF Open, TypeOK, TreeOK, FileOrNone
    <3>2. /\ handle'[tree[n]].phase = "open"
          /\ \A g \in Files \ {tree[n]} : handle'[g] = handle[g]
      BY <2>2, <3>1 DEF Open, TakenBack, TypeOK, BuffersOK, Buffers, NoHandle
    <3> QED
      BY <3>1, <3>2, IdleCarried
  <2>3. CASE Unlink(n)
    <3>1. /\ tree[n] \in Files /\ rel' = rel /\ uploaded' = uploaded
      BY <2>3 DEF Unlink, TypeOK, TreeOK, FileOrNone
    <3>2. \A g \in Files : handle'[g] \in {handle[g], NoHandle}
      BY <2>3, <3>1, DropContent DEF Unlink
    <3> QED
      BY <3>1, <3>2, IdleCarried DEF NoHandle
  <2> QED
    BY <1>1, <2>1, <2>2, <2>3
<1>2. ASSUME NEW f \in Files, Write(f) PROVE AllCarried'
  <2>1. /\ handle'[f].phase = "open" /\ rel' = rel /\ uploaded' = uploaded
        /\ \A g \in Files \ {f} : handle'[g] = handle[g]
    BY <1>2 DEF Write, TypeOK, BuffersOK, Buffers
  <2> QED
    BY <2>1, IdleCarried
<1>3. ASSUME NEW f \in Files, Truncate(f) PROVE AllCarried'
  <2>1. /\ rel' = rel /\ uploaded' = uploaded /\ ~HoldsSlot(f)
        /\ \A g \in Files \ {f} : handle'[g] = handle[g]
    BY <1>3 DEF Truncate, Raced, TypeOK, BuffersOK
  <2>2. rel[f].pc \notin {"upload", "claim", "trash", "patch", "publish", "moveTrash", "move"}
    BY <2>1 DEF HoldsSlot, HoldsMu, RelSteps
  <2> QED
    BY <2>1, <2>2, OneCarried DEF Carried
<1>4. ASSUME NEW f \in Files, Close(f) PROVE AllCarried'
  <2>1. /\ rel'[f].pc = "start" /\ uploaded' = uploaded
        /\ \A g \in Files \ {f} : handle'[g] = handle[g] /\ rel'[g] = rel[g]
    BY <1>4 DEF Close, TypeOK, BuffersOK, ReleaseOK, Releases
  <2> QED
    BY <2>1, OneIdleCarried
<1>5. ASSUME \/ \E n \in Names : Lookup(n)
             \/ \E from, to \in Names : Rename(from, to)
      PROVE  AllCarried'
  BY <1>5, IdleCarried DEF Lookup, Rename
<1> QED
  BY <1>1, <1>2, <1>3, <1>4, <1>5 DEF UserStep

LEMMA NextCarried ==
  ASSUME TypeOK, OwnedByRelease, OwnedByRelease', SavesInv, AllCarried, [Next]_vars,
         "truncate" \notin races'
  PROVE  AllCarried'
<1> USE DEF fateVars
<1>1. CASE UnmountStep
  <2>1. CASE Detach \/ ExternalUnmount \/ Kill
    <3>1. \A g \in Files : rel'[g].pc = "idle"
      BY <2>1 DEF Detach, ExternalUnmount, Kill, Exit, NoRelease
    <3> QED
      BY <3>1 DEF AllCarried, Carried
  <2>2. CASE AbandonKept
    <3>1. \A g \in Files : handle'[g] \in {NoHandle, handle[g]}
      BY <2>2 DEF AbandonKept
    <3> QED
      BY <2>2, <3>1, IdleCarried DEF AbandonKept, NoHandle
  <2>3. CASE BeginFlush \/ PassDone \/ FlushDeadline
    BY <2>3, IdleCarried DEF BeginFlush, PassDone, FlushDeadline
  <2>4. ASSUME NEW f \in Files, FlushSettle(f) PROVE AllCarried'
    BY <2>4, SettleCarried, IdleCarried DEF FlushSettle
  <2> QED
    BY <1>1, <2>1, <2>2, <2>3, <2>4 DEF UnmountStep
<1>2. CASE Refresh \/ Terminated \/ UNCHANGED vars
  BY <1>2, IdleCarried DEF Refresh, Terminated, vars
<1>3. ASSUME NEW f \in Files, TimerFires(f) PROVE AllCarried'
  BY <1>3, SettleCarried DEF TimerFires
<1> QED
  BY <1>1, <1>2, <1>3, ReleaseStepCarried, DirStepCarried, UserStepCarried
     DEF Next, MountedNext

(***************************************************************************)
(* No acknowledged save is lost.                                            *)
(***************************************************************************)

\* Only an Unlink in progress has a save in hand, and the local store takes saves in only
\* once the mount is about to end.
InHand     == op.pc \notin {"unlinkPending", "unlinkTrash"} => op.dropped = None
LocalEmpty == mount \notin {"detaching", "exited"} => \A n \in Names : local[n] = None

LEMMA NextInHand == ASSUME TypeOK, InHand, [Next]_vars PROVE InHand'
<1> USE DEF TypeOK, OpOK, Operations
<1>1. ASSUME NEW f \in Files, ReleaseStep(f) PROVE InHand'
  <2>1. op' = op \/ op' = NoOp
    BY <1>1, ReleaseStepReturns DEF Return
  <2> QED
    BY <2>1, InitialNameUploads DEF InHand
<1>2. CASE DirStep
  <2>1. CASE UnlinkPending \/ UnlinkTrash
    BY <2>1, InitialNameUploads DEF UnlinkPending, UnlinkTrash, UnlinkReturns, InHand
  <2>2. CASE RenamePending \/ RenameReplace \/ RenameTrash \/ RenameMove
    BY <2>2, InitialNameUploads DEF RenamePending, RenameReplace, RenameTrash, RenameMove, InHand
  <2>3. CASE Retarget \/ RenameApply
    BY <2>3, InitialNameUploads DEF Retarget, RenameApply, RenameReleases, InHand
  <2> QED
    BY <1>2, <2>1, <2>2, <2>3 DEF DirStep
<1>3. CASE UserStep
  <2>1. CASE \E n \in Names : Lookup(n) \/ Create(n) \/ Open(n)
    BY <2>1 DEF Lookup, Create, Open, InHand
  <2>2. CASE \E n \in Names : Unlink(n)
    BY <2>2, InitialNameUploads DEF Unlink, UnlinkReturns, NoOp, InHand
  <2>3. CASE \E from, to \in Names : Rename(from, to)
    BY <2>3, InitialNameUploads DEF Rename, NoOp, InHand
  <2>4. CASE \E f \in Files : Write(f) \/ Truncate(f) \/ Close(f)
    BY <2>4 DEF Write, Truncate, Close, InHand
  <2> QED
    BY <1>3, <2>1, <2>2, <2>3, <2>4 DEF UserStep
<1>4. CASE UnmountStep
  BY <1>4, InitialNameUploads DEF UnmountStep, BeginFlush, PassDone, FlushDeadline, AbandonKept,
     Detach, ExternalUnmount, Kill, Exit, FlushSettle, InHand
<1>5. CASE Terminated \/ UNCHANGED vars
  BY <1>5 DEF Terminated, vars, InHand
<1>6. ASSUME NEW f \in Files, TimerFires(f) PROVE InHand'
  BY <1>6 DEF TimerFires, InHand
<1>7. CASE Refresh
  BY <1>7 DEF Refresh, InHand
<1> QED
  BY <1>1, <1>2, <1>3, <1>4, <1>5, <1>6, <1>7 DEF Next, MountedNext

LEMMA NextLocalEmpty == ASSUME LocalEmpty, [Next]_vars PROVE LocalEmpty'
<1> USE DEF mountVars
<1>1. ASSUME NEW f \in Files, ReleaseStep(f) PROVE LocalEmpty'
  <2>1. mount' = mount /\ local' = local
    BY <1>1 DEF ReleaseStep, ReadRelease, Decide, AwaitReplaced, LockUpload, AcquireSlot,
       QueueCancelled, UploadSucceeds, UploadLate, UploadFails, Claim, TrashGone, Patch, Publish,
       ReleaseMoveTrash, ReleaseMove
  <2> QED
    BY <2>1 DEF LocalEmpty
<1>2. CASE DirStep
  BY <1>2 DEF DirStep, UnlinkPending, UnlinkTrash, RenamePending, Retarget, RenameTrash,
     RenameMove, RenameReplace, RenameApply, LocalEmpty
<1>3. CASE UserStep
  BY <1>3 DEF UserStep, Lookup, Create, Open, Unlink, Rename, Write, Truncate, Close, LocalEmpty
<1>4. CASE UnmountStep
  BY <1>4 DEF UnmountStep, BeginFlush, PassDone, FlushDeadline, AbandonKept, Detach,
     ExternalUnmount, Kill, Exit, FlushSettle, LocalEmpty
<1>5. CASE Terminated \/ UNCHANGED vars
  BY <1>5 DEF Terminated, vars, LocalEmpty
<1>6. ASSUME NEW f \in Files, TimerFires(f) PROVE LocalEmpty'
  BY <1>6 DEF TimerFires, LocalEmpty
<1>7. CASE Refresh
  BY <1>7 DEF Refresh, LocalEmpty
<1> QED
  BY <1>1, <1>2, <1>3, <1>4, <1>5, <1>6, <1>7 DEF Next, MountedNext

NoneLost == acked \subseteq Safe \cup Buffered

LEMMA SafeGrows ==
  ASSUME uploaded \subseteq uploaded', forgone \subseteq forgone', kept \subseteq kept',
         local' = local \/ \A n \in Names : local[n] = None
  PROVE  Safe \subseteq Safe'
BY DEF Safe

\* What lets a step keep every save: what is safe stays safe, and what a buffer or an Unlink
\* held is in the same place still, or safe now.
StillHeld(g) == handle'[g].phase # "none" /\ handle'[g].ver = handle[g].ver

\* A step loses nothing when what was safe stays safe, and each buffer and the operation's
\* own save stay or become safe.
LEMMA StepLosesNone ==
  ASSUME NoneLost, Safe \subseteq Safe',
         \A g \in Files : HasBuf(g) /\ handle[g].ver \in acked
                         => handle[g].ver \in Safe' \/ StillHeld(g),
         \/ op'.dropped = op.dropped \/ op.dropped = None \/ op.dropped \in Safe',
         \A v \in acked' : \/ v \in acked \cup Safe'
                          \/ \E g \in Files : handle'[g].phase # "none" /\ handle'[g].ver = v
  PROVE  NoneLost'
<1>1. Buffered' = {handle'[g].ver : g \in {h \in Files : handle'[h].phase # "none"}}
                    \cup ({op'.dropped} \ {None})
  BY DEF Buffered, HasBuf
<1>2. ASSUME NEW v \in acked PROVE v \in Safe' \cup Buffered'
  <2>1. v \in Safe \/ v \in Buffered
    BY <1>2 DEF NoneLost
  <2>2. CASE v \in {op.dropped} \ {None}
    BY <1>1, <2>2
  <2>3. ASSUME NEW g \in Files, HasBuf(g), v = handle[g].ver PROVE v \in Safe' \cup Buffered'
    BY <1>1, <1>2, <2>3 DEF StillHeld
  <2> QED
    BY <2>1, <2>2, <2>3 DEF Buffered
<1>3. ASSUME NEW v \in acked' PROVE v \in Safe' \cup Buffered'
  BY <1>1, <1>2, <1>3
<1> QED
  BY <1>3 DEF NoneLost

\* A step that neither drops a buffer nor acknowledges a save.
LEMMA QuietLosesNone ==
  ASSUME NoneLost, Safe \subseteq Safe', acked' = acked,
         \A g \in Files : HasBuf(g) => StillHeld(g),
         \/ op'.dropped = op.dropped \/ op.dropped = None \/ op.dropped \in Safe'
  PROVE  NoneLost'
BY StepLosesNone

LEMMA ReleaseStepLosesNone ==
  ASSUME TypeOK, OwnedByRelease, SavesInv, AllCarried, InHand, NoneLost, NEW f \in Files,
         ReleaseStep(f)
  PROVE  NoneLost'
<1>1. /\ Fate(f) /\ (handle'[f] = NoHandle => Settled(f))
      /\ UNCHANGED <<saves, acked, forgone, local, mount>>
  BY ReleaseStepFate DEF AllCarried
<1>2. Safe \subseteq Safe'
  BY <1>1, SafeGrows DEF Fate
<1>3. op' = op \/ op.dropped = None
  BY ReleaseStepReturns DEF Return, RunByRename, InHand
<1>4. ASSUME NEW g \in Files, HasBuf(g), handle[g].ver \in acked
      PROVE  handle[g].ver \in Safe' \/ StillHeld(g)
  <2>1. CASE g # f
    BY <1>1, <1>4, <2>1 DEF Fate, StillHeld, HasBuf
  <2>2. CASE g = f /\ handle'[f] = NoHandle
    BY <1>1, <1>4, <2>2 DEF Settled, Safe
  <2>3. CASE g = f /\ handle'[f] # NoHandle
    BY <1>1, <2>3 DEF Fate, SameContent, StillHeld
  <2> QED
    BY <2>1, <2>2, <2>3
<1> QED
  BY <1>1, <1>2, <1>3, <1>4, StepLosesNone

LEMMA SettleLosesNone ==
  ASSUME TypeOK, NoneLost, NEW f \in Files, NEW by, Settle(f, by),
         UNCHANGED <<acked, forgone, uploaded, kept, local, op>>
  PROVE  NoneLost'
<1>1. \A g \in Files : HasBuf(g) => StillHeld(g)
  BY DEF Settle, StillHeld, HasBuf, TypeOK, BuffersOK, Buffers
<1> QED
  BY <1>1, SafeGrows, QuietLosesNone

LEMMA ReplaceLosesNone ==
  ASSUME TypeOK, NoneLost, NEW to \in Names, NEW src, NEW link, Replace(to, src, link),
         UNCHANGED <<acked, uploaded, local>>, op'.dropped = op.dropped
  PROVE  NoneLost'
<1>1. CASE UNCHANGED <<handle, kept, forgone>>
  BY <1>1, SafeGrows, QuietLosesNone DEF StillHeld, HasBuf
<1>2. CASE ~UNCHANGED <<handle, kept, forgone>>
  <2>1. PICK dst \in Files :
              /\ forgone' = forgone \cup {handle[dst].ver} /\ kept \subseteq kept'
              /\ \A g \in Files \ {dst} : handle'[g] = handle[g]
    BY <1>2, ReplaceContent
  <2>2. Safe \subseteq Safe' /\ handle[dst].ver \in Safe'
    BY <2>1, SafeGrows DEF Safe
  <2>3. \A g \in Files \ {dst} : HasBuf(g) => StillHeld(g)
    BY <2>1 DEF StillHeld, HasBuf
  <2> QED
    BY <2>2, <2>3, StepLosesNone
<1> QED
  BY <1>1, <1>2

LEMMA RenameReleasesLosesNone ==
  ASSUME TypeOK, InHand, NoneLost, NEW f \in Files, RenameReleases(f),
         op.pc \in {"retarget", "renameApply"},
         UNCHANGED <<acked, uploaded, forgone, kept, local>>
  PROVE  NoneLost'
<1>1. \A g \in Files : HasBuf(g) => StillHeld(g)
  <2>1. CASE Parked(f)
    <3>1. /\ handle'[f].ver = handle[f].ver /\ handle'[f].phase = "releasing"
          /\ \A g \in Files \ {f} : handle'[g] = handle[g]
      BY <2>1, TakenBackContent DEF RenameReleases
    <3> QED
      BY <3>1 DEF StillHeld, HasBuf
  <2>2. CASE ~Parked(f)
    BY <2>2 DEF RenameReleases, StillHeld, HasBuf
  <2> QED
    BY <2>1, <2>2
<1>2. op.dropped = None
  BY DEF InHand
<1> QED
  BY <1>1, <1>2, SafeGrows, QuietLosesNone

LEMMA DirStepLosesNone ==
  ASSUME TypeOK, InHand, NoneLost, DirStep, races' \cap LosingRaces = {}
  PROVE  NoneLost'
<1> USE DEF fateVars, mountVars
<1>1. CASE UnlinkPending
  <2>1. op.file \in Files /\ UNCHANGED <<acked, uploaded, kept, local>>
    BY <1>1, OperationTypes DEF UnlinkPending
  <2>2. \A g \in Files : HasBuf(g) => StillHeld(g)
    BY <1>1, <2>1 DEF UnlinkPending, StillHeld, HasBuf, TypeOK, BuffersOK, Buffers
  <2>3. /\ forgone \subseteq forgone'
        /\ op'.dropped = op.dropped \/ op.dropped = None \/ op.dropped \in forgone'
    BY <1>1 DEF UnlinkPending, UnlinkReturns, TypeOK, OpOK, Operations
  <2> QED
    BY <2>1, <2>2, <2>3, SafeGrows, QuietLosesNone DEF Safe
<1>2. CASE UnlinkTrash
  <2>1. UNCHANGED <<acked, uploaded, kept, local, handle>>
    BY <1>2 DEF UnlinkTrash
  <2>2. forgone \subseteq forgone' /\ (op.dropped = None \/ op.dropped \in forgone')
    BY <1>2 DEF UnlinkTrash, UnlinkReturns, Raced, LosingRaces
  <2> QED
    BY <2>1, <2>2, SafeGrows, QuietLosesNone DEF Safe, StillHeld, HasBuf
<1>3. CASE RenamePending \/ RenameReplace
  <2>1. op'.dropped = op.dropped
    BY <1>3 DEF RenamePending, RenameReplace, TypeOK, OpOK, Operations
  <2> QED
    BY <1>3, <2>1, OperationTypes, ReplaceLosesNone DEF RenamePending, RenameReplace
<1>4. CASE Retarget \/ RenameApply
  BY <1>4, OperationTypes, RenameReleasesLosesNone DEF Retarget, RenameApply
<1>5. CASE RenameTrash \/ RenameMove
  <2>1. UNCHANGED <<acked, uploaded, kept, forgone, local, handle>>
    BY <1>5 DEF RenameTrash, RenameMove
  <2>2. op.dropped = None
    BY <1>5 DEF RenameTrash, RenameMove, InHand
  <2> QED
    BY <2>1, <2>2, SafeGrows, QuietLosesNone DEF StillHeld, HasBuf
<1> QED
  BY <1>1, <1>2, <1>3, <1>4, <1>5 DEF DirStep

LEMMA UserStepLosesNone ==
  ASSUME TypeOK, SavesInv, InHand, NoneLost, UserStep
  PROVE  NoneLost'
<1> USE DEF fateVars, mountVars
<1>1. ASSUME NEW n \in Names, Create(n) PROVE NoneLost'
  <2>1. PICK f \in Files : /\ Fresh(f)
                           /\ handle' = [handle EXCEPT ![f] =
                              [NoHandle EXCEPT !.phase = "open", !.ver = saves + 1,
                                               !.dirty = TRUE]]
    BY <1>1 DEF Create
  <2>2. ~HasBuf(f) /\ \A g \in Files \ {f} : handle'[g] = handle[g]
    BY <2>1 DEF Fresh, HasBuf, NoHandle
  <2>3. \A g \in Files : HasBuf(g) => StillHeld(g)
    BY <2>2 DEF StillHeld, HasBuf
  <2>4. UNCHANGED <<acked, uploaded, forgone, kept, local, op>>
    BY <1>1 DEF Create
  <2> QED
    BY <2>3, <2>4, SafeGrows, QuietLosesNone
<1>2. ASSUME NEW n \in Names, Open(n) PROVE NoneLost'
  <2>1. tree[n] \in Files /\ UNCHANGED <<acked, uploaded, forgone, kept, local, op>>
    BY <1>2 DEF Open, TypeOK, TreeOK, FileOrNone
  <2>2. \A g \in Files \ {tree[n]} : handle'[g] = handle[g]
    BY <1>2, <2>1, TakenBackContent DEF Open, TypeOK, BuffersOK
  <2>3. ~HasBuf(tree[n])
        \/ (handle'[tree[n]].phase = "open" /\ handle'[tree[n]].ver = handle[tree[n]].ver)
    BY <1>2, <2>1, TakenBackContent DEF Open
  <2>4. \A g \in Files : HasBuf(g) => StillHeld(g)
    BY <2>2, <2>3 DEF StillHeld, HasBuf
  <2> QED
    BY <2>1, <2>4, SafeGrows, QuietLosesNone
<1>3. ASSUME NEW n \in Names, Unlink(n) PROVE NoneLost'
  <2> DEFINE f == tree[n]
  <2>1. f \in Files /\ UNCHANGED <<acked, uploaded, local>> /\ op.dropped = None
    BY <1>3 DEF Unlink, DirIdle, TypeOK, TreeOK, FileOrNone, InHand
  <2>2. forgone \subseteq forgone' /\ kept \subseteq kept'
    BY <1>3, <2>1, DropContent DEF Unlink, UnlinkReturns
  <2>3. Safe \subseteq Safe'
    BY <2>1, <2>2, SafeGrows
  <2>4. CASE ~Parked(f)
    BY <1>3, <2>1, <2>3, <2>4, QuietLosesNone DEF Unlink, StillHeld, HasBuf
  <2>5. CASE Parked(f) /\ Pending(f)
    <3>1. handle[f].ver \in forgone'
      BY <1>3, <2>1, <2>5, SaveTypes, WriteBufferAssumption DEF Unlink, UnlinkReturns
    <3>2. \A g \in Files \ {f} : handle'[g] = handle[g]
      BY <1>3, <2>1, <2>5, DropContent DEF Unlink
    <3>3. \A g \in Files : HasBuf(g) => handle[g].ver \in Safe' \/ StillHeld(g)
      BY <3>1, <3>2 DEF Safe, StillHeld, HasBuf
    <3> QED
      BY <2>1, <2>3, <3>3, StepLosesNone
  <2>6. CASE Parked(f) /\ ~Pending(f)
    <3>1. op'.dropped = handle[f].ver
      BY <1>3, <2>6 DEF Unlink, NoOp
    <3>2. \A g \in Files \ {f} : handle'[g] = handle[g]
      BY <1>3, <2>1, <2>6, DropContent DEF Unlink
    <3>3. handle[f].ver \in Buffered'
      BY <2>1, <3>1, SaveTypes, WriteBufferAssumption DEF Buffered
    <3>4. \A g \in Files \ {f} : HasBuf(g) => handle[g].ver \in Buffered'
      <4>1. Buffered' = {handle'[g].ver : g \in {h \in Files : handle'[h].phase # "none"}}
                        \cup ({op'.dropped} \ {None})
        BY DEF Buffered, HasBuf
      <4> QED
        BY <3>2, <4>1 DEF HasBuf
    <3>5. Buffered \subseteq Buffered'
      BY <2>1, <3>3, <3>4 DEF Buffered
    <3> QED
      BY <2>1, <2>3, <3>5 DEF NoneLost
  <2> QED
    BY <2>4, <2>5, <2>6
<1>4. ASSUME NEW f \in Files, Write(f) \/ Truncate(f) PROVE NoneLost'
  <2>1. /\ handle'[f].ver = saves + 1 /\ handle'[f].phase # "none"
        /\ \A g \in Files \ {f} : handle'[g] = handle[g]
    BY <1>4 DEF Write, Truncate, Parked, TypeOK, BuffersOK, Buffers
  <2>2. /\ UNCHANGED <<uploaded, kept, local, op>> /\ forgone \subseteq forgone'
        /\ handle[f].ver \in forgone' /\ acked' \subseteq acked \cup {saves + 1}
    BY <1>4 DEF Write, Truncate
  <2>3. Safe \subseteq Safe' /\ handle[f].ver \in Safe'
    BY <2>2, SafeGrows DEF Safe
  <2>4. \A g \in Files : HasBuf(g) => handle[g].ver \in Safe' \/ StillHeld(g)
    BY <2>1, <2>3 DEF StillHeld, HasBuf
  <2>5. \A v \in acked' : \/ v \in acked
                          \/ handle'[f].phase # "none" /\ handle'[f].ver = v
    BY <2>1, <2>2
  <2> QED
    BY <2>2, <2>3, <2>4, <2>5, StepLosesNone
<1>5. ASSUME NEW f \in Files, Close(f) PROVE NoneLost'
  <2>1. /\ handle'[f].ver = handle[f].ver /\ handle'[f].phase # "none"
        /\ \A g \in Files \ {f} : handle'[g] = handle[g]
    BY <1>5 DEF Close, TypeOK, BuffersOK, Buffers
  <2>2. /\ UNCHANGED <<uploaded, kept, local, op>> /\ forgone \subseteq forgone'
        /\ acked' \subseteq acked \cup {handle[f].ver}
    BY <1>5 DEF Close
  <2>3. Safe \subseteq Safe'
    BY <2>2, SafeGrows
  <2>4. \A g \in Files : HasBuf(g) => StillHeld(g)
    BY <2>1 DEF StillHeld, HasBuf
  <2>5. \A v \in acked' : \/ v \in acked
                          \/ handle'[f].phase # "none" /\ handle'[f].ver = v
    BY <2>1, <2>2
  <2> QED
    BY <2>2, <2>3, <2>4, <2>5, StepLosesNone
<1>6. ASSUME \/ \E n \in Names : Lookup(n)
             \/ \E from, to \in Names : Rename(from, to)
      PROVE  NoneLost'
  <2>1. UNCHANGED <<acked, uploaded, forgone, kept, local, handle>> /\ op.pc = "idle"
    BY <1>6 DEF Lookup, Rename, DirIdle
  <2> QED
    BY <2>1, SafeGrows, QuietLosesNone DEF StillHeld, HasBuf, InHand
<1> QED
  BY <1>1, <1>2, <1>3, <1>4, <1>5, <1>6 DEF UserStep

\* The sweep after the grace: each parked buffer is kept for recovery, or has an excluded
\* name and goes to the local store, where no other of its name does.
LEMMA AbandonLosesNone ==
  ASSUME TypeOK, AllKept, LocalEmpty, NoneLost, AbandonKept, races' \cap LosingRaces = {}
  PROVE  NoneLost'
<1>1. UNCHANGED <<acked, forgone, uploaded, op>> /\ kept \subseteq kept'
  BY DEF AbandonKept
<1>2. \A n \in Names : local[n] = None
  BY DEF AbandonKept, LocalEmpty
<1>3. Safe \subseteq Safe'
  BY <1>1, <1>2, SafeGrows
<1>4. PICK last \in [Names -> Files] :
       /\ \A n \in Names : ToLocal(n) # {} => last[n] \in ToLocal(n)
       /\ local' = [n \in Names |-> IF ToLocal(n) = {} THEN local[n] ELSE handle[last[n]].ver]
  BY DEF AbandonKept
<1>5. \A n \in Names : \A f, g \in ToLocal(n) : f = g
  BY DEF AbandonKept, Raced, LosingRaces
<1>6. ASSUME NEW g \in Files, HasBuf(g) PROVE handle[g].ver \in Safe' \/ StillHeld(g)
  <2>1. CASE ~Parked(g)
    BY <1>6, <2>1 DEF AbandonKept, StillHeld, HasBuf
  <2>2. CASE Abandoned(g)
    BY <1>6, <2>2 DEF AbandonKept, Safe
  <2>3. CASE Parked(g) /\ ~Abandoned(g)
    <3>1. handle[g].phase = "kept" /\ ~handle[g].failed
      BY <2>3 DEF Parked, Abandoned
    <3>2. name[g] \in Excluded /\ name[g] \in Names
      BY <3>1, WriteBufferAssumption DEF AllKept, KeptRight
    <3>3. g \in ToLocal(name[g])
      BY <3>1, <3>2 DEF ToLocal
    <3>4. last[name[g]] = g
      BY <1>4, <1>5, <3>2, <3>3
    <3>5. local'[name[g]] = handle[g].ver /\ handle[g].ver # None
      BY <1>4, <3>2, <3>3, <3>4, SaveTypes, WriteBufferAssumption
    <3> QED
      BY <3>2, <3>5 DEF Safe
  <2> QED
    BY <2>1, <2>2, <2>3
<1> QED
  BY <1>1, <1>3, <1>6, StepLosesNone

LEMMA ExitLosesNone ==
  ASSUME NoneLost, NEW r \in LosingRaces, Exit(r), races' \cap LosingRaces = {}
  PROVE  NoneLost'
<1>1. (Buffered \cap acked) \ Safe = {}
  BY DEF Exit, Raced
<1>2. UNCHANGED <<acked, forgone, uploaded, kept, local>>
  BY DEF Exit
<1>3. Safe' = Safe
  BY <1>2 DEF Safe
<1> QED
  BY <1>1, <1>2, <1>3 DEF NoneLost

LEMMA UnmountStepLosesNone ==
  ASSUME TypeOK, AllKept, LocalEmpty, NoneLost, UnmountStep, races' \cap LosingRaces = {}
  PROVE  NoneLost'
<1> USE DEF fateVars
<1>1. CASE Detach \/ ExternalUnmount \/ Kill
  BY <1>1, ExitLosesNone DEF Detach, ExternalUnmount, Kill, LosingRaces
<1>2. CASE BeginFlush \/ PassDone \/ FlushDeadline
  BY <1>2, SafeGrows, QuietLosesNone DEF BeginFlush, PassDone, FlushDeadline, StillHeld, HasBuf
<1>3. ASSUME NEW f \in Files, FlushSettle(f) PROVE NoneLost'
  BY <1>3, SettleLosesNone, SafeGrows, QuietLosesNone DEF FlushSettle, StillHeld, HasBuf
<1> QED
  BY <1>1, <1>2, <1>3, AbandonLosesNone DEF UnmountStep

LEMMA NextLosesNone ==
  ASSUME TypeOK, OwnedByRelease, SavesInv, AllCarried, AllKept, InHand, LocalEmpty, NoneLost,
         [Next]_vars, races' \cap LosingRaces = {}
  PROVE  NoneLost'
<1> USE DEF fateVars, mountVars
<1>1. CASE Refresh \/ Terminated \/ UNCHANGED vars
  BY <1>1, SafeGrows, QuietLosesNone DEF Refresh, Terminated, vars, StillHeld, HasBuf
<1>2. ASSUME NEW f \in Files, TimerFires(f) PROVE NoneLost'
  BY <1>2, SettleLosesNone DEF TimerFires
<1> QED
  BY <1>1, <1>2, ReleaseStepLosesNone, DirStepLosesNone, UserStepLosesNone,
     UnmountStepLosesNone DEF Next, MountedNext

(***************************************************************************)
(* The inductive invariant, and what it gives.                              *)
(***************************************************************************)

AlwaysInv == TypeOK /\ OwnedByRelease /\ TreeInv /\ NamesInv /\ KeptInv
HistInv   == SavesInv /\ InHand /\ LocalEmpty
LossInv   == races \cap LosingRaces = {} => AllCarried /\ NoneLost

LEMMA InitSaves == Init => HistInv /\ LossInv
<1> SUFFICES ASSUME Init PROVE HistInv /\ LossInv
  OBVIOUS
<1>1. SavesInv
  BY DEF Init, NoHandle, SavesInv, AllSaves, SaveRight, NoneShared, HistoryInv
<1>2. InHand /\ LocalEmpty
  BY InitialNameUploads DEF Init, InHand, LocalEmpty
<1>3. AllCarried /\ NoneLost
  BY DEF Init, NoRelease, AllCarried, Carried, NoneLost, Safe
<1> QED
  BY <1>1, <1>2, <1>3 DEF HistInv, LossInv

LEMMA NextHist ==
  ASSUME AlwaysInv, HistInv, TypeOK', [Next]_vars
  PROVE  HistInv'
BY NextSaves, NextInHand, NextLocalEmpty DEF AlwaysInv, HistInv

LEMMA NextLoss ==
  ASSUME AlwaysInv, HistInv, LossInv, OwnedByRelease', [Next]_vars
  PROVE  LossInv'
<1> SUFFICES ASSUME races' \cap LosingRaces = {} PROVE AllCarried' /\ NoneLost'
  BY DEF LossInv
<1>1. races \cap LosingRaces = {} /\ "truncate" \notin races'
  BY RacesStay DEF LosingRaces
<1>2. AllKept /\ AllCarried /\ NoneLost
  BY <1>1 DEF AlwaysInv, KeptInv, LossInv, StrandRaces, LosingRaces
<1>3. AllCarried'
  BY <1>1, <1>2, NextCarried DEF AlwaysInv, HistInv
<1>4. NoneLost'
  BY <1>2, NextLosesNone DEF AlwaysInv, HistInv
<1> QED
  BY <1>3, <1>4

\* No acknowledged save is lost, whatever is closed, truncated before its upload, renamed
\* over, deleted, reopened, refused or unmounted meanwhile, and for any number of files and
\* saves: unless one of the losing races happened it is in a buffer, on the drive, kept for
\* recovery or in the local store, or the user gave it up.
THEOREM NothingLost == Spec => []NoSaveLost
<1>1. Init => HistInv /\ LossInv
  BY InitSaves
<1>2. /\ AlwaysInv /\ HistInv /\ LossInv /\ AlwaysInv' /\ [Next]_vars
      => HistInv' /\ LossInv'
  BY NextHist, NextLoss DEF AlwaysInv
<1>3. Spec => []AlwaysInv
  BY NamesHold, KeptHolds, PTL DEF AlwaysInv
<1>4. LossInv => NoSaveLost
  BY DEF LossInv, NoneLost, NoSaveLost, LostSaves
<1> QED
  BY <1>1, <1>2, <1>3, <1>4, PTL DEF Spec
=============================================================================
