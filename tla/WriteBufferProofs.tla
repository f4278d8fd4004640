------------------------- MODULE WriteBufferProofs -------------------------
(***************************************************************************)
(* Proofs about WriteBuffer for any number of files, names, links, saves    *)
(* and upload slots: type correctness, and that a write buffer has one      *)
(* owner at a time.                                                         *)
(***************************************************************************)
EXTENDS WriteBuffer, TLAPS

(***************************************************************************)
(* The types of what the helpers leave behind.                              *)
(***************************************************************************)

LEMMA NoValuesType ==
  /\ NoHandle \in Buffers /\ NoRelease \in Releases /\ NoOp \in Operations
  /\ NoLink \in DriveLinks
BY WriteBufferAssumption DEF NoHandle, Buffers, NoRelease, Releases, NoOp, Operations, NoLink,
   DriveLinks, Phases, RelSteps, OpSteps, LinkOrNone, FileOrNone, Saves

LEMMA DropType == ASSUME TypeOK, NEW f \in Files, Drop(f) PROVE BuffersOK'
BY NoValuesType DEF Drop, TypeOK, BuffersOK

LEMMA KeepUnsavedType == ASSUME TypeOK, NEW f \in Files, KeepUnsaved(f) PROVE BuffersOK'
BY NoValuesType DEF KeepUnsaved, TypeOK, BuffersOK, Buffers

LEMMA DiscardType == ASSUME TypeOK, NEW f \in Files, Discard(f) PROVE BuffersOK'
BY DropType, KeepUnsavedType DEF Discard

LEMMA ParkType ==
  ASSUME TypeOK, NEW f \in Files, NEW phase \in Phases, NEW failed \in BOOLEAN,
         Park(f, phase, failed)
  PROVE  BuffersOK'
<1> DEFINE parked == [handle[f] EXCEPT !.phase = phase, !.failed = failed, !.due = FALSE]
<1>1. parked \in Buffers
  BY DEF TypeOK, BuffersOK, Buffers
<1>2. handle' = [handle EXCEPT ![f] = parked]
  BY DEF Park, TypeOK, BuffersOK, Buffers
<1> QED
  BY <1>1, <1>2 DEF Park, TypeOK, BuffersOK

LEMMA KeepForRetryType ==
  ASSUME TypeOK, NEW f \in Files, NEW permanent \in BOOLEAN, KeepForRetry(f, permanent)
  PROVE  BuffersOK'
<1>1. handle[f].failed \in BOOLEAN
  BY DEF TypeOK, BuffersOK, Buffers
<1>2. {"kept", "waiting"} \subseteq Phases
  BY DEF Phases
<1> QED
  BY <1>1, <1>2, DiscardType, KeepUnsavedType, ParkType DEF KeepForRetry

LEMMA TakenBackType ==
  ASSUME TypeOK, NEW f \in Files, NEW phase \in Phases
  PROVE  TakenBack(f, phase) \in [Files -> Buffers]
<1> DEFINE taken == [handle[f] EXCEPT !.phase = phase, !.dirty = TRUE, !.failed = FALSE]
<1>1. taken \in Buffers
  BY DEF TypeOK, BuffersOK, Buffers
<1>2. TakenBack(f, phase) = [handle EXCEPT ![f] = taken]
  BY DEF TakenBack, TypeOK, BuffersOK, Buffers
<1> QED
  BY <1>1, <1>2 DEF TypeOK, BuffersOK

LEMMA StepType ==
  ASSUME TypeOK, NEW f \in Files, NEW pc \in RelSteps, Step(f, pc)
  PROVE  ReleaseOK'
BY DEF Step, TypeOK, ReleaseOK, Releases

LEMMA ReturnType ==
  ASSUME TypeOK, NEW f \in Files, NEW ok \in BOOLEAN, Return(f, ok)
  PROVE  TreeOK' /\ ReleaseOK' /\ OpOK'
<1>1. ReleaseOK'
  BY NoValuesType DEF Return, TypeOK, ReleaseOK
<1>2. OpOK'
  BY NoValuesType DEF Return, TypeOK, OpOK, NoOp
<1>3. TreeOK'
  BY DEF Return, TypeOK, TreeOK, OpOK, Moved, Operations, FileOrNone
<1> QED
  BY <1>1, <1>2, <1>3

LEMMA RacedType ==
  ASSUME TypeOK, NEW happened, NEW r \in Races, Raced(happened, r)
  PROVE  RacesOK'
BY DEF Raced, TypeOK, RacesOK

LEMMA FetchedType == Fetched(drive) \in [Names -> LinkOrNone]
BY DEF Fetched, Active, LinkOrNone

LEMMA UpsertType ==
  ASSUME NEW ls \in [Names -> LinkOrNone], NEW l \in LinkOrNone, NEW n \in Names
  PROVE  Upsert(ls, l, n) \in [Names -> LinkOrNone]
BY DEF Upsert, LinkOrNone

LEMMA RemovedType ==
  ASSUME NEW ls \in [Names -> LinkOrNone], NEW n \in Names
  PROVE  Removed(ls, n) \in [Names -> LinkOrNone]
BY DEF Removed, LinkOrNone

LEMMA ReleaseAtType ==
  ASSUME TypeOK, NEW f \in Files, NEW r \in Releases, rel' = [rel EXCEPT ![f] = r]
  PROVE  ReleaseOK'
BY DEF TypeOK, ReleaseOK

LEMMA FileTypes ==
  ASSUME TypeOK, NEW f \in Files
  PROVE  /\ rel[f] \in Releases /\ handle[f] \in Buffers
         /\ node[f] \in LinkOrNone /\ name[f] \in Names /\ replaces[f] \in FileOrNone
BY DEF TypeOK, ReleaseOK, BuffersOK, NodesOK

LEMMA LinkTypes ==
  ASSUME TypeOK, NEW f \in Files
  PROVE  /\ rel[f].up \in LinkOrNone /\ rel[f].name \in Names /\ rel[f].to \in Names
         /\ op.link \in LinkOrNone /\ op.from \in Names /\ op.to \in Names
         /\ rel[f].pc \in RelSteps
BY DEF TypeOK, ReleaseOK, Releases, OpOK, Operations

LEMMA MoveTrashType ==
  ASSUME TypeOK, NEW l \in LinkOrNone, NEW to \in Names
  PROVE  /\ MoveTrashed(l, to) \in LinkOrNone
         /\ MoveTrash(l, to) => FolderOK'
<1>1. MoveTrashed(l, to) \in LinkOrNone
  BY DEF MoveTrashed, TypeOK, FolderOK, LinkOrNone
<1>2. Removed(listing, to) \in [Names -> LinkOrNone]
  BY RemovedType DEF TypeOK, FolderOK
<1>3. MoveTrash(l, to) => drive' \in [Links -> DriveLinks]
  BY DEF MoveTrash, TypeOK, FolderOK, DriveLinks
<1>4. MoveTrash(l, to) => listing' \in [Names -> LinkOrNone]
  BY <1>2 DEF MoveTrash, TypeOK, FolderOK
<1> QED
  BY <1>1, <1>3, <1>4 DEF FolderOK

LEMMA MoveDoneType ==
  ASSUME TypeOK, NEW l \in LinkOrNone, NEW from \in Names, NEW to \in Names,
         MoveDone(l, from, to)
  PROVE  FolderOK'
<1>1. Removed(listing, from) \in [Names -> LinkOrNone]
  BY RemovedType DEF TypeOK, FolderOK
<1>2. listing' \in [Names -> LinkOrNone]
  BY <1>1, UpsertType DEF MoveDone
<1>3. drive' \in [Links -> DriveLinks]
  BY DEF MoveDone, TypeOK, FolderOK, DriveLinks
<1> QED
  BY <1>2, <1>3 DEF FolderOK

(***************************************************************************)
(* The steps of a Release.                                                  *)
(***************************************************************************)

LEMMA ReadReleaseType == ASSUME TypeOK, NEW f \in Files, ReadRelease(f) PROVE TypeOK'
<1>1. BuffersOK'
  BY DiscardType, DropType DEF ReadRelease, TypeOK, BuffersOK
<1>2. TreeOK' /\ ReleaseOK' /\ OpOK'
  <2>1. CASE ~(handle[f].gone \/ ~handle[f].dirty)
    <3> DEFINE r == [rel[f] EXCEPT !.pc = "decide", !.name = name[f], !.existing = node[f]]
    <3>1. r \in Releases
      BY FileTypes DEF Releases, RelSteps
    <3>2. rel' = [rel EXCEPT ![f] = r]
      BY <2>1 DEF ReadRelease, TypeOK, ReleaseOK, Releases
    <3> QED
      BY <2>1, <3>1, <3>2, ReleaseAtType DEF ReadRelease, TypeOK, TreeOK, OpOK
  <2>2. CASE handle[f].gone \/ ~handle[f].dirty
    BY <2>2, ReturnType DEF ReadRelease
  <2> QED
    BY <2>1, <2>2
<1>3. FolderOK' /\ NodesOK' /\ MountOK' /\ HistoryOK' /\ RacesOK'
  BY DEF ReadRelease, TypeOK, FolderOK, NodesOK, MountOK, HistoryOK, RacesOK, treeVars,
     nodeVars, mountVars, fateVars
<1> QED
  BY <1>1, <1>2, <1>3 DEF TypeOK

LEMMA DecideType == ASSUME TypeOK, NEW f \in Files, Decide(f) PROVE TypeOK'
<1>1. BuffersOK'
  BY ParkType DEF Decide, TypeOK, BuffersOK, Buffers, PhaseForName, Phases
<1>2. TreeOK' /\ ReleaseOK' /\ OpOK'
  <2>1. CASE PhaseForName(f) = "releasing"
    <3> DEFINE r == [rel[f] EXCEPT !.pc = "await", !.chain = replaces[f]]
    <3>1. r \in Releases
      BY FileTypes DEF Releases, RelSteps
    <3>2. rel' = [rel EXCEPT ![f] = r]
      BY <2>1 DEF Decide, TypeOK, ReleaseOK, Releases
    <3> QED
      BY <2>1, <3>1, <3>2, ReleaseAtType DEF Decide, TypeOK, TreeOK, OpOK
  <2>2. CASE PhaseForName(f) # "releasing"
    BY <2>2, ReturnType DEF Decide
  <2> QED
    BY <2>1, <2>2
<1>3. RacesOK'
  BY DEF Decide, TypeOK, RacesOK
<1>4. FolderOK' /\ NodesOK' /\ MountOK' /\ HistoryOK'
  BY DEF Decide, TypeOK, FolderOK, NodesOK, MountOK, HistoryOK, treeVars, nodeVars,
     mountVars, fateVars
<1> QED
  BY <1>1, <1>2, <1>3, <1>4 DEF TypeOK

LEMMA AwaitReplacedType == ASSUME TypeOK, NEW f \in Files, AwaitReplaced(f) PROVE TypeOK'
<1>1. ReleaseOK'
  BY DEF AwaitReplaced, TypeOK, NodesOK, ReleaseOK, Releases, FileOrNone
<1>2. TreeOK' /\ FolderOK' /\ NodesOK' /\ BuffersOK' /\ OpOK' /\ MountOK' /\ HistoryOK' /\ RacesOK'
  BY DEF AwaitReplaced, TypeOK, TreeOK, FolderOK, NodesOK, BuffersOK, OpOK, MountOK,
     HistoryOK, RacesOK, treeVars, nodeVars, mountVars, fateVars
<1> QED
  BY <1>1, <1>2 DEF TypeOK

LEMMA LockUploadType == ASSUME TypeOK, NEW f \in Files, LockUpload(f) PROVE TypeOK'
<1>1. BuffersOK'
  BY DiscardType DEF LockUpload, TypeOK, BuffersOK
<1>2. TreeOK' /\ ReleaseOK' /\ OpOK'
  BY ReturnType, StepType DEF LockUpload, TypeOK, TreeOK, OpOK, RelSteps
<1>3. FolderOK' /\ NodesOK' /\ MountOK' /\ HistoryOK' /\ RacesOK'
  BY DEF LockUpload, TypeOK, FolderOK, NodesOK, MountOK, HistoryOK, RacesOK, treeVars,
     nodeVars, mountVars, fateVars
<1> QED
  BY <1>1, <1>2, <1>3 DEF TypeOK

LEMMA AcquireSlotType == ASSUME TypeOK, NEW f \in Files, AcquireSlot(f) PROVE TypeOK'
<1>1. ReleaseOK'
  <2> DEFINE r == [rel[f] EXCEPT !.pc = "upload", !.ver = handle[f].ver]
  <2>1. r \in Releases
    <3>1. handle[f].ver \in Saves
      BY FileTypes DEF Buffers
    <3> QED
      BY <3>1, FileTypes DEF Releases, RelSteps
  <2>2. rel' = [rel EXCEPT ![f] = r]
    BY DEF AcquireSlot, TypeOK, ReleaseOK, Releases
  <2> QED
    BY <2>1, <2>2, ReleaseAtType
<1>2. TreeOK' /\ FolderOK' /\ NodesOK' /\ BuffersOK' /\ OpOK' /\ MountOK' /\ HistoryOK' /\ RacesOK'
  BY DEF AcquireSlot, TypeOK, TreeOK, FolderOK, NodesOK, BuffersOK, OpOK, MountOK,
     HistoryOK, RacesOK, treeVars, nodeVars, mountVars, fateVars
<1> QED
  BY <1>1, <1>2 DEF TypeOK

LEMMA QueueCancelledType == ASSUME TypeOK, NEW f \in Files, QueueCancelled(f) PROVE TypeOK'
<1>1. BuffersOK'
  BY KeepForRetryType DEF QueueCancelled
<1>2. TreeOK' /\ ReleaseOK' /\ OpOK'
  BY ReturnType DEF QueueCancelled
<1>3. RacesOK'
  BY RacedType DEF QueueCancelled, Races, LosingRaces
<1>4. FolderOK' /\ NodesOK' /\ MountOK' /\ HistoryOK'
  BY DEF QueueCancelled, TypeOK, FolderOK, NodesOK, MountOK, HistoryOK, treeVars, nodeVars,
     mountVars, fateVars
<1> QED
  BY <1>1, <1>2, <1>3, <1>4 DEF TypeOK

LEMMA UploadSucceedsType == ASSUME TypeOK, NEW f \in Files, UploadSucceeds(f) PROVE TypeOK'
<1>1. FolderOK' /\ HistoryOK'
  BY DEF UploadSucceeds, TypeOK, Committed, FolderOK, HistoryOK, ReleaseOK, Releases,
     DriveLinks, treeVars
<1>2. ReleaseOK'
  <2>1. PICK l \in Links, readback \in BOOLEAN :
          rel' = [rel EXCEPT ![f].pc = "claim", ![f].up = IF readback THEN l ELSE None,
                             ![f].upName = drive'[l].name]
    BY DEF UploadSucceeds
  <2> DEFINE up == IF readback THEN l ELSE None
             r == [rel[f] EXCEPT !.pc = "claim", !.up = up, !.upName = drive'[l].name]
  <2>2. drive'[l].name \in Names /\ up \in LinkOrNone
    BY <1>1 DEF FolderOK, DriveLinks, LinkOrNone
  <2>4. rel' = [rel EXCEPT ![f] = r]
    BY <2>1 DEF TypeOK, ReleaseOK, Releases
  <2>3. r \in Releases
    <3> HIDE DEF up
    <3> QED
      BY FileTypes, <2>2 DEF Releases, RelSteps
  <2> QED
    BY <2>3, <2>4, ReleaseAtType
<1>3. TreeOK' /\ NodesOK' /\ BuffersOK' /\ OpOK' /\ MountOK' /\ RacesOK'
  BY DEF UploadSucceeds, TypeOK, TreeOK, NodesOK, BuffersOK, OpOK, MountOK, RacesOK,
     treeVars, nodeVars, mountVars, fateVars
<1> QED
  BY <1>1, <1>2, <1>3 DEF TypeOK

LEMMA UploadLateType == ASSUME TypeOK, NEW f \in Files, UploadLate(f) PROVE TypeOK'
<1>1. BuffersOK'
  BY KeepForRetryType DEF UploadLate
<1>2. TreeOK' /\ ReleaseOK' /\ OpOK'
  BY ReturnType DEF UploadLate
<1>3. RacesOK'
  BY RacedType DEF UploadLate, Races, LosingRaces
<1>4. FolderOK' /\ HistoryOK'
  BY DEF UploadLate, TypeOK, Committed, FolderOK, HistoryOK, ReleaseOK, Releases, DriveLinks
<1>5. NodesOK' /\ MountOK'
  BY DEF UploadLate, TypeOK, NodesOK, MountOK, nodeVars, mountVars
<1> QED
  BY <1>1, <1>2, <1>3, <1>4, <1>5 DEF TypeOK

LEMMA UploadFailsType == ASSUME TypeOK, NEW f \in Files, UploadFails(f) PROVE TypeOK'
<1>1. BuffersOK'
  BY KeepForRetryType DEF UploadFails
<1>2. TreeOK' /\ ReleaseOK' /\ OpOK'
  BY ReturnType DEF UploadFails
<1>3. RacesOK'
  BY RacedType DEF UploadFails, Races, LosingRaces
<1>4. FolderOK' /\ NodesOK' /\ MountOK' /\ HistoryOK'
  BY DEF UploadFails, TypeOK, FolderOK, NodesOK, MountOK, HistoryOK, treeVars, nodeVars,
     mountVars, fateVars
<1> QED
  BY <1>1, <1>2, <1>3, <1>4 DEF TypeOK

LEMMA ClaimType == ASSUME TypeOK, NEW f \in Files, Claim(f) PROVE TypeOK'
<1>1. BuffersOK'
  BY DropType DEF Claim, TypeOK, BuffersOK
<1>2. TreeOK' /\ ReleaseOK' /\ OpOK'
  BY ReturnType, StepType DEF Claim, TypeOK, TreeOK, OpOK, RelSteps
<1>3. FolderOK'
  BY FetchedType DEF Claim, TypeOK, FolderOK
<1>4. NodesOK'
  BY DEF Claim, TypeOK, NodesOK, ReleaseOK, Releases, FileOrNone, LinkOrNone, nodeVars
<1>5. MountOK' /\ HistoryOK'
  BY DEF Claim, TypeOK, MountOK, HistoryOK, mountVars, fateVars
<1>6. RacesOK'
  BY DEF Claim, TypeOK, RacesOK
<1> QED
  BY <1>1, <1>2, <1>3, <1>4, <1>5, <1>6 DEF TypeOK

LEMMA TrashGoneType == ASSUME TypeOK, NEW f \in Files, TrashGone(f) PROVE TypeOK'
<1>1. BuffersOK'
  BY DropType DEF TrashGone
<1>2. TreeOK' /\ ReleaseOK' /\ OpOK'
  BY ReturnType DEF TrashGone
<1>3. RacesOK'
  BY RacedType DEF TrashGone, Races, LosingRaces
<1>4. FolderOK'
  <2>1. PICK ok \in {TRUE, ~MetaFails} :
          drive' = IF ok THEN [drive EXCEPT ![rel[f].up].st = "trashed"] ELSE drive
    BY DEF TrashGone
  <2>2. drive \in [Links -> DriveLinks] /\ listing' = listing /\ FolderOK
    BY DEF TrashGone, TypeOK, FolderOK
  <2>3. drive' \in [Links -> DriveLinks]
    BY <2>1, <2>2 DEF DriveLinks
  <2> QED
    BY <2>2, <2>3 DEF FolderOK
<1>5. NodesOK' /\ MountOK' /\ HistoryOK'
  BY DEF TrashGone, TypeOK, NodesOK, MountOK, HistoryOK, nodeVars, mountVars, fateVars
<1> QED
  BY <1>1, <1>2, <1>3, <1>4, <1>5 DEF TypeOK

LEMMA PatchType == ASSUME TypeOK, NEW f \in Files, Patch(f) PROVE TypeOK'
<1>1. BuffersOK'
  BY DropType DEF Patch, TypeOK, BuffersOK
<1>2. TreeOK' /\ ReleaseOK' /\ OpOK'
  <2>1. CASE rel[f].up # None
    <3> DEFINE pc == IF name[f] = rel[f].name THEN "publish" ELSE "moveTrash"
               r == [rel[f] EXCEPT !.pc = pc, !.to = name[f]]
    <3>2. rel' = [rel EXCEPT ![f] = r]
      BY <2>1 DEF Patch, TypeOK, ReleaseOK, Releases
    <3>3. pc \in RelSteps
      BY DEF RelSteps
    <3>1. r \in Releases
      <4> HIDE DEF pc
      <4> QED
        BY FileTypes, <3>3 DEF Releases
    <3> QED
      BY <2>1, <3>1, <3>2, ReleaseAtType DEF Patch, TypeOK, TreeOK, OpOK
  <2>2. CASE rel[f].up = None
    BY <2>2, ReturnType DEF Patch
  <2> QED
    BY <2>1, <2>2
<1>3. FolderOK'
  BY FetchedType DEF Patch, TypeOK, FolderOK
<1>4. RacesOK'
  BY RacedType DEF Patch, TypeOK, RacesOK, Races, LosingRaces
<1>5. NodesOK' /\ MountOK' /\ HistoryOK'
  BY DEF Patch, TypeOK, NodesOK, MountOK, HistoryOK, nodeVars, mountVars, fateVars
<1> QED
  BY <1>1, <1>2, <1>3, <1>4, <1>5 DEF TypeOK

LEMMA PublishType == ASSUME TypeOK, NEW f \in Files, Publish(f) PROVE TypeOK'
<1>1. BuffersOK'
  BY DropType DEF Publish
<1>2. TreeOK' /\ ReleaseOK' /\ OpOK'
  BY ReturnType DEF Publish
<1>3. RacesOK'
  BY RacedType DEF Publish, Races, LosingRaces
<1>4. FolderOK' /\ NodesOK'
  BY UpsertType DEF Publish, TypeOK, FolderOK, NodesOK, ReleaseOK, Releases
<1>5. MountOK' /\ HistoryOK'
  BY DEF Publish, TypeOK, MountOK, HistoryOK, mountVars, fateVars
<1> QED
  BY <1>1, <1>2, <1>3, <1>4, <1>5 DEF TypeOK

LEMMA ReleaseMoveTrashType == ASSUME TypeOK, NEW f \in Files, ReleaseMoveTrash(f) PROVE TypeOK'
<1>1. BuffersOK'
  BY DropType DEF ReleaseMoveTrash, TypeOK, BuffersOK
<1>2. TreeOK' /\ ReleaseOK' /\ OpOK'
  <2> DEFINE r == [rel[f] EXCEPT !.pc = "move",
                                 !.trashed = MoveTrashed(rel[f].up, rel[f].to)]
  <2>1. r \in Releases
    <3>1. MoveTrashed(rel[f].up, rel[f].to) \in LinkOrNone
      BY LinkTypes, MoveTrashType
    <3> QED
      BY <3>1, FileTypes DEF Releases, RelSteps
  <2>2. CASE Return(f, FALSE)
    BY <2>2, ReturnType
  <2>3. CASE rel' = [rel EXCEPT ![f].pc = "move",
                                ![f].trashed = MoveTrashed(rel[f].up, rel[f].to)]
             /\ UNCHANGED <<op, tree, want>>
    <3>1. rel' = [rel EXCEPT ![f] = r]
      BY <2>3 DEF TypeOK, ReleaseOK, Releases
    <3> QED
      BY <2>1, <2>3, <3>1, ReleaseAtType DEF TypeOK, TreeOK, OpOK
  <2> QED
    BY <2>2, <2>3 DEF ReleaseMoveTrash
<1>3. FolderOK'
  BY LinkTypes, MoveTrashType DEF ReleaseMoveTrash, TypeOK, FolderOK
<1>4. RacesOK'
  BY RacedType DEF ReleaseMoveTrash, TypeOK, RacesOK, Races, LosingRaces
<1>5. NodesOK' /\ MountOK' /\ HistoryOK'
  BY DEF ReleaseMoveTrash, TypeOK, NodesOK, MountOK, HistoryOK, nodeVars, mountVars,
     fateVars
<1> QED
  BY <1>1, <1>2, <1>3, <1>4, <1>5 DEF TypeOK

LEMMA ReleaseMoveType == ASSUME TypeOK, NEW f \in Files, ReleaseMove(f) PROVE TypeOK'
<1>1. BuffersOK'
  BY DropType DEF ReleaseMove
<1>2. TreeOK' /\ ReleaseOK' /\ OpOK'
  BY ReturnType DEF ReleaseMove
<1>3. RacesOK'
  BY RacedType DEF ReleaseMove, TypeOK, RacesOK, Races, LosingRaces
<1>4. FolderOK'
  BY LinkTypes, MoveDoneType DEF ReleaseMove, TypeOK, FolderOK
<1>5. NodesOK'
  BY DEF ReleaseMove, TypeOK, NodesOK, ReleaseOK, Releases, Unlinked, LinkOrNone
<1>6. MountOK' /\ HistoryOK'
  BY DEF ReleaseMove, TypeOK, MountOK, HistoryOK, mountVars, fateVars
<1> QED
  BY <1>1, <1>2, <1>3, <1>4, <1>5, <1>6 DEF TypeOK

(***************************************************************************)
(* The handlers and directory operations.                                   *)
(***************************************************************************)

LEMMA BufferAtType ==
  ASSUME TypeOK, NEW f \in Files, NEW b \in Buffers, handle' = [handle EXCEPT ![f] = b]
  PROVE  handle' \in [Files -> Buffers]
BY DEF TypeOK, BuffersOK

LEMMA NewSaveType == ASSUME TypeOK, NewSave PROVE saves' \in Saves /\ saves + 1 \in Saves
BY WriteBufferAssumption DEF NewSave, TypeOK, HistoryOK, Saves

LEMMA OperationTypes ==
  ASSUME TypeOK
  PROVE  /\ op.from \in Names /\ op.to \in Names /\ op.link \in LinkOrNone
         /\ op.trashed \in LinkOrNone /\ op.dropped \in Saves \cup {None}
         /\ op.pc # "idle" => op.file \in Files
BY DEF TypeOK, OpOK, Operations

LEMMA SettleType ==
  ASSUME TypeOK, NEW f \in Files, NEW by \in {"timer", "flush"}, Settle(f, by)
  PROVE  handle' \in [Files -> Buffers] /\ ReleaseOK'
<1> DEFINE b == [handle[f] EXCEPT !.phase = "releasing", !.dirty = TRUE, !.due = TRUE]
           r == [rel[f] EXCEPT !.pc = "start", !.by = by]
<1>1. b \in Buffers /\ handle' = [handle EXCEPT ![f] = b]
  BY DEF Settle, TypeOK, BuffersOK, Buffers, Phases
<1>2. r \in Releases /\ rel' = [rel EXCEPT ![f] = r]
  <2>1. r \in Releases
    BY FileTypes DEF Releases, RelSteps
  <2> QED
    BY <2>1, FileTypes DEF Settle, Releases
<1> QED
  BY <1>1, <1>2, BufferAtType, ReleaseAtType

LEMMA UnlinkReturnsType ==
  ASSUME TypeOK, NEW n \in Names, NEW given \in SUBSET (Saves \cup {None}), UnlinkReturns(n, given)
  PROVE  OpOK' /\ TreeOK' /\ forgone' \subseteq Saves
BY NoValuesType DEF UnlinkReturns, TypeOK, OpOK, NoOp, TreeOK, HistoryOK, FileOrNone

LEMMA UnlinkedType ==
  ASSUME TypeOK, NEW to, NEW trashed
  PROVE  Unlinked(to, trashed) \in [Files -> LinkOrNone]
BY DEF Unlinked, TypeOK, NodesOK, LinkOrNone

LEMMA ReplaceType ==
  ASSUME TypeOK, NEW to \in Names, NEW src \in Files, NEW link, Replace(to, src, link)
  PROVE  BuffersOK' /\ replaces' \in [Files -> FileOrNone] /\ forgone' \subseteq Saves
<1> DEFINE dst == tree[to]
<1>1. CASE dst \in {None, src} \/ (link # None /\ node[dst] = link)
  BY <1>1 DEF Replace, TypeOK, BuffersOK, NodesOK, HistoryOK
<1>2. CASE ~(dst \in {None, src} \/ (link # None /\ node[dst] = link))
  <2>1. dst \in Files
    BY <1>2 DEF TypeOK, TreeOK, FileOrNone
  <2>2. replaces' \in [Files -> FileOrNone]
    BY <1>2, <2>1 DEF Replace, TypeOK, NodesOK, FileOrNone
  <2>3. handle[dst].ver \in Saves
    BY <2>1 DEF TypeOK, BuffersOK, Buffers
  <2>4. forgone' \subseteq Saves
    BY <1>2, <2>3 DEF Replace, TypeOK, HistoryOK
  <2>5. [handle[dst] EXCEPT !.gone = TRUE] \in Buffers
    BY <2>1, FileTypes DEF Buffers
  <2>6. BuffersOK'
    <3>1. CASE HasBuf(dst) /\ Parked(dst)
      BY <1>2, <2>1, <3>1, DiscardType DEF Replace
    <3>2. CASE HasBuf(dst) /\ ~Parked(dst)
      <4>1. handle' = [handle EXCEPT ![dst].gone = TRUE] /\ kept' = kept
        BY <1>2, <3>2 DEF Replace
      <4>2. handle' = [handle EXCEPT ![dst] = [handle[dst] EXCEPT !.gone = TRUE]]
        BY <2>1, <4>1 DEF TypeOK, BuffersOK, Buffers
      <4> QED
        BY <2>1, <2>5, <4>1, <4>2, BufferAtType DEF TypeOK, BuffersOK
    <3>3. CASE ~HasBuf(dst)
      BY <1>2, <3>3 DEF Replace, TypeOK, BuffersOK
    <3> QED
      BY <3>1, <3>2, <3>3
  <2> QED
    BY <2>2, <2>4, <2>6
<1> QED
  BY <1>1, <1>2

LEMMA RenameReleasesType ==
  ASSUME TypeOK, NEW f \in Files, op.pc # "idle", RenameReleases(f)
  PROVE  handle' \in [Files -> Buffers] /\ ReleaseOK' /\ OpOK' /\ TreeOK'
<1>1. CASE Parked(f)
  <2> DEFINE r == [rel[f] EXCEPT !.pc = "start", !.by = "user"]
  <2>1. handle' \in [Files -> Buffers]
    BY <1>1, TakenBackType DEF RenameReleases, Phases
  <2>2. r \in Releases
    BY FileTypes DEF Releases, RelSteps
  <2>3. rel' = [rel EXCEPT ![f] = r]
    BY <1>1 DEF RenameReleases, TypeOK, ReleaseOK, Releases
  <2>4. OpOK'
    BY <1>1 DEF RenameReleases, TypeOK, OpOK, Operations, OpSteps
  <2>5. TreeOK'
    BY <1>1 DEF RenameReleases, TypeOK, TreeOK
  <2> QED
    BY <2>1, <2>2, <2>3, <2>4, <2>5, ReleaseAtType
<1>2. CASE ~Parked(f)
  <2>1. OpOK'
    BY <1>2, NoValuesType DEF RenameReleases, OpOK, NoOp
  <2>2. TreeOK'
    BY <1>2, OperationTypes DEF RenameReleases, TypeOK, TreeOK, Moved, FileOrNone
  <2> QED
    BY <1>2, <2>1, <2>2 DEF RenameReleases, TypeOK, BuffersOK, ReleaseOK
<1> QED
  BY <1>1, <1>2

LEMMA TimerFiresType == ASSUME TypeOK, NEW f \in Files, TimerFires(f) PROVE TypeOK'
<1>1. BuffersOK' /\ ReleaseOK'
  BY SettleType DEF TimerFires, TypeOK, BuffersOK, fateVars
<1>2. TreeOK' /\ FolderOK' /\ NodesOK' /\ OpOK' /\ MountOK' /\ HistoryOK' /\ RacesOK'
  BY DEF TimerFires, TypeOK, TreeOK, FolderOK, NodesOK, OpOK, MountOK, HistoryOK, RacesOK,
     treeVars, nodeVars, mountVars, fateVars
<1> QED
  BY <1>1, <1>2 DEF TypeOK

LEMMA CloseType == ASSUME TypeOK, NEW f \in Files, Close(f) PROVE TypeOK'
<1>1. BuffersOK'
  <2> DEFINE b == [handle[f] EXCEPT !.phase = "releasing"]
  <2>1. b \in Buffers /\ handle' = [handle EXCEPT ![f] = b]
    BY DEF Close, TypeOK, BuffersOK, Buffers, Phases
  <2> QED
    BY <2>1, BufferAtType DEF Close, TypeOK, BuffersOK
<1>2. ReleaseOK'
  <2> DEFINE r == [rel[f] EXCEPT !.pc = "start", !.by = "user"]
  <2>1. r \in Releases
    BY FileTypes DEF Releases, RelSteps
  <2>2. rel' = [rel EXCEPT ![f] = r]
    BY FileTypes DEF Close, Releases
  <2> QED
    BY <2>1, <2>2, ReleaseAtType
<1>3. TreeOK' /\ HistoryOK'
  BY DEF Close, TypeOK, TreeOK, HistoryOK, BuffersOK, Buffers, treeVars
<1>4. FolderOK' /\ NodesOK' /\ OpOK' /\ MountOK' /\ RacesOK'
  BY DEF Close, TypeOK, FolderOK, NodesOK, OpOK, MountOK, RacesOK, treeVars, nodeVars,
     mountVars, fateVars
<1> QED
  BY <1>1, <1>2, <1>3, <1>4 DEF TypeOK

LEMMA OpenType == ASSUME TypeOK, NEW n \in Names, Open(n) PROVE TypeOK'
<1>1. BuffersOK'
  <2> DEFINE f == tree[n]
             b == [NoHandle EXCEPT !.phase = "open"]
  <2>1. f \in Files
    BY DEF Open, TypeOK, TreeOK, FileOrNone
  <2>2. TakenBack(f, "open") \in [Files -> Buffers]
    BY <2>1, TakenBackType DEF Phases
  <2>3. b \in Buffers
    BY NoValuesType DEF Buffers, Phases
  <2>4. [handle EXCEPT ![f] = b] \in [Files -> Buffers]
    BY <2>1, <2>3 DEF TypeOK, BuffersOK
  <2> QED
    BY <2>2, <2>4 DEF Open, TypeOK, BuffersOK
<1>2. RacesOK'
  BY RacedType DEF Open, Races, LosingRaces
<1>3. TreeOK' /\ FolderOK' /\ NodesOK' /\ ReleaseOK' /\ OpOK' /\ MountOK' /\ HistoryOK'
  BY DEF Open, TypeOK, TreeOK, FolderOK, NodesOK, ReleaseOK, OpOK, MountOK, HistoryOK,
     treeVars, nodeVars, mountVars, fateVars
<1> QED
  BY <1>1, <1>2, <1>3 DEF TypeOK

LEMMA WriteType == ASSUME TypeOK, NEW f \in Files, Write(f) PROVE TypeOK'
<1>1. BuffersOK' /\ HistoryOK'
  <2> DEFINE b == [handle[f] EXCEPT !.ver = saves + 1, !.dirty = TRUE]
  <2>1. saves' \in Saves /\ saves + 1 \in Saves
    BY NewSaveType DEF Write
  <2>2. b \in Buffers /\ handle' = [handle EXCEPT ![f] = b]
    BY <2>1 DEF Write, TypeOK, BuffersOK, Buffers
  <2>3. handle[f].ver \in Saves
    BY DEF TypeOK, BuffersOK, Buffers
  <2> QED
    BY <2>1, <2>2, <2>3, BufferAtType DEF Write, TypeOK, BuffersOK, HistoryOK
<1>2. TreeOK' /\ FolderOK' /\ NodesOK' /\ ReleaseOK' /\ OpOK' /\ MountOK' /\ RacesOK'
  BY DEF Write, TypeOK, TreeOK, FolderOK, NodesOK, ReleaseOK, OpOK, MountOK, RacesOK,
     treeVars, nodeVars, mountVars, fateVars
<1> QED
  BY <1>1, <1>2 DEF TypeOK

LEMMA TruncateType == ASSUME TypeOK, NEW f \in Files, Truncate(f) PROVE TypeOK'
<1>1. BuffersOK' /\ HistoryOK'
  <2> DEFINE b == [handle[f] EXCEPT !.ver = saves + 1, !.dirty = TRUE]
  <2>1. saves' \in Saves /\ saves + 1 \in Saves
    BY NewSaveType DEF Truncate
  <2>2. b \in Buffers /\ handle' = [handle EXCEPT ![f] = b]
    BY <2>1 DEF Truncate, TypeOK, BuffersOK, Buffers
  <2>3. handle[f].ver \in Saves
    BY DEF TypeOK, BuffersOK, Buffers
  <2> QED
    BY <2>1, <2>2, <2>3, BufferAtType DEF Truncate, TypeOK, BuffersOK, HistoryOK
<1>2. TreeOK'
  BY NewSaveType DEF Truncate, TypeOK, TreeOK, treeVars
<1>3. RacesOK'
  BY RacedType DEF Truncate, Races, LosingRaces
<1>4. FolderOK' /\ NodesOK' /\ ReleaseOK' /\ OpOK' /\ MountOK'
  BY DEF Truncate, TypeOK, FolderOK, NodesOK, ReleaseOK, OpOK, MountOK, treeVars, nodeVars,
     mountVars
<1> QED
  BY <1>1, <1>2, <1>3, <1>4 DEF TypeOK

LEMMA RefreshType == ASSUME TypeOK, Refresh PROVE TypeOK'
<1>1. FolderOK'
  BY FetchedType DEF Refresh, TypeOK, FolderOK
<1>2. TreeOK' /\ NodesOK' /\ BuffersOK' /\ ReleaseOK' /\ OpOK' /\ MountOK' /\ HistoryOK' /\ RacesOK'
  BY DEF Refresh, TypeOK, TreeOK, NodesOK, BuffersOK, ReleaseOK, OpOK, MountOK, HistoryOK,
     RacesOK, treeVars, nodeVars, mountVars, fateVars
<1> QED
  BY <1>1, <1>2 DEF TypeOK

LEMMA LookupType == ASSUME TypeOK, NEW n \in Names, Lookup(n) PROVE TypeOK'
<1>1. TreeOK' /\ NodesOK'
  BY DEF Lookup, TypeOK, TreeOK, NodesOK, FolderOK, FileOrNone
<1>2. RacesOK'
  BY RacedType DEF Lookup, Races, LosingRaces
<1>3. FolderOK' /\ BuffersOK' /\ ReleaseOK' /\ OpOK' /\ MountOK' /\ HistoryOK'
  BY DEF Lookup, TypeOK, FolderOK, BuffersOK, ReleaseOK, OpOK, MountOK, HistoryOK, treeVars,
     mountVars, fateVars
<1> QED
  BY <1>1, <1>2, <1>3 DEF TypeOK

LEMMA CreateType == ASSUME TypeOK, NEW n \in Names, Create(n) PROVE TypeOK'
<1>1. BuffersOK' /\ HistoryOK'
  <2>1. saves' \in Saves /\ saves + 1 \in Saves
    BY NewSaveType DEF Create
  <2> DEFINE b == [NoHandle EXCEPT !.phase = "open", !.ver = saves + 1, !.dirty = TRUE]
  <2>2. b \in Buffers
    BY <2>1, NoValuesType DEF Buffers, Phases
  <2> QED
    BY <2>1, <2>2, BufferAtType DEF Create, TypeOK, BuffersOK, HistoryOK
<1>2. TreeOK' /\ NodesOK'
  BY DEF Create, TypeOK, TreeOK, NodesOK, FileOrNone, LinkOrNone
<1>3. RacesOK'
  BY DEF Create, TypeOK, RacesOK
<1>4. FolderOK' /\ ReleaseOK' /\ OpOK' /\ MountOK'
  BY DEF Create, TypeOK, FolderOK, ReleaseOK, OpOK, MountOK, treeVars, mountVars
<1> QED
  BY <1>1, <1>2, <1>3, <1>4 DEF TypeOK

LEMMA UnlinkType == ASSUME TypeOK, NEW n \in Names, Unlink(n) PROVE TypeOK'
<1> DEFINE f == tree[n]
           dropped == IF Parked(f) THEN handle[f].ver ELSE None
<1>1. f \in Files
  BY DEF Unlink, TypeOK, TreeOK, FileOrNone
<1>2. dropped \in Saves \cup {None}
  BY <1>1 DEF TypeOK, BuffersOK, Buffers
<1>3. BuffersOK'
  BY <1>1, DiscardType, DropType DEF Unlink, TypeOK, BuffersOK
<1>4. TreeOK' /\ OpOK' /\ HistoryOK'
  <2>1. CASE Parked(f) /\ Pending(f)
    BY <1>2, <2>1, UnlinkReturnsType DEF Unlink, TypeOK, HistoryOK
  <2>2. CASE ~(Parked(f) /\ Pending(f))
    <3>1. OpOK'
      BY <1>1, <1>2, <2>2, NoValuesType DEF Unlink, OpOK, Operations, OpSteps, FileOrNone
    <3> QED
      BY <2>2, <3>1 DEF Unlink, TypeOK, TreeOK, HistoryOK
  <2> QED
    BY <2>1, <2>2
<1>5. FolderOK' /\ NodesOK' /\ ReleaseOK' /\ MountOK' /\ RacesOK'
  BY DEF Unlink, TypeOK, FolderOK, NodesOK, ReleaseOK, MountOK, RacesOK, nodeVars, mountVars
<1> QED
  BY <1>3, <1>4, <1>5 DEF TypeOK

LEMMA UnlinkPendingType == ASSUME TypeOK, UnlinkPending PROVE TypeOK'
<1> DEFINE f == op.file
           b == [handle[f] EXCEPT !.gone = TRUE]
<1>1. f \in Files
  BY OperationTypes DEF UnlinkPending
<1>2. b \in Buffers /\ handle[f].ver \in Saves
  BY <1>1 DEF TypeOK, BuffersOK, Buffers
<1>3. CASE Pending(f) /\ HasBuf(f)
  <2>1. handle' = [handle EXCEPT ![f] = b]
    BY <1>1, <1>3 DEF UnlinkPending, TypeOK, BuffersOK, Buffers
  <2>2. BuffersOK'
    BY <1>1, <1>2, <2>1, BufferAtType DEF UnlinkPending, TypeOK, BuffersOK
  <2>3. TreeOK' /\ OpOK' /\ HistoryOK'
    BY <1>2, <1>3, OperationTypes, UnlinkReturnsType DEF UnlinkPending, TypeOK, HistoryOK
  <2>4. RacesOK'
    BY <1>3, RacedType DEF UnlinkPending, Races, LosingRaces
  <2> QED
    BY <2>2, <2>3, <2>4 DEF UnlinkPending, TypeOK, FolderOK, NodesOK, ReleaseOK, MountOK,
       nodeVars, mountVars
<1>4. CASE ~(Pending(f) /\ HasBuf(f))
  <2>1. OpOK'
    BY <1>4 DEF UnlinkPending, TypeOK, OpOK, Operations, OpSteps
  <2> QED
    BY <1>4, <2>1 DEF UnlinkPending, TypeOK, TreeOK, FolderOK, NodesOK, BuffersOK, ReleaseOK,
       MountOK, HistoryOK, RacesOK, nodeVars, mountVars
<1> QED
  BY <1>3, <1>4

LEMMA UnlinkTrashType == ASSUME TypeOK, UnlinkTrash PROVE TypeOK'
<1>1. FolderOK'
  <2>1. Removed(listing, op.from) \in [Names -> LinkOrNone]
    BY OperationTypes, RemovedType DEF TypeOK, FolderOK
  <2>2. [drive EXCEPT ![listing[op.from]].st = "trashed"] \in [Links -> DriveLinks]
    BY DEF TypeOK, FolderOK, DriveLinks
  <2> QED
    BY <2>1, <2>2 DEF UnlinkTrash, TypeOK, FolderOK
<1>2. TreeOK' /\ OpOK' /\ HistoryOK'
  <2>1. CASE UnlinkReturns(op.from, {op.dropped})
    BY <2>1, OperationTypes, UnlinkReturnsType DEF UnlinkTrash, TypeOK, HistoryOK
  <2>2. CASE op' = NoOp /\ UNCHANGED <<tree, want, forgone>>
    BY <2>2, NoValuesType DEF UnlinkTrash, TypeOK, TreeOK, HistoryOK, OpOK, NoOp
  <2> QED
    BY <2>1, <2>2 DEF UnlinkTrash
<1>3. RacesOK'
  BY RacedType DEF UnlinkTrash, Races, LosingRaces
<1>4. NodesOK' /\ BuffersOK' /\ ReleaseOK' /\ MountOK'
  BY DEF UnlinkTrash, TypeOK, NodesOK, BuffersOK, ReleaseOK, MountOK, nodeVars, mountVars
<1> QED
  BY <1>1, <1>2, <1>3, <1>4 DEF TypeOK

LEMMA RenameType == ASSUME TypeOK, NEW from \in Names, NEW to \in Names, Rename(from,to) PROVE TypeOK'
<1>1. OpOK'
  <2>1. listing[from] \in LinkOrNone /\ tree[from] \in Files
    BY DEF Rename, TypeOK, FolderOK, TreeOK, FileOrNone
  <2> QED
    BY <2>1, NoValuesType DEF Rename, OpOK, Operations, OpSteps, FileOrNone
<1>2. RacesOK'
  BY RacedType DEF Rename, Races, LosingRaces
<1>3. TreeOK' /\ FolderOK' /\ NodesOK' /\ BuffersOK' /\ ReleaseOK' /\ MountOK' /\ HistoryOK'
  BY DEF Rename, TypeOK, TreeOK, FolderOK, NodesOK, BuffersOK, ReleaseOK, MountOK,
     HistoryOK, treeVars, nodeVars, mountVars, fateVars
<1> QED
  BY <1>1, <1>2, <1>3 DEF TypeOK

LEMMA RenamePendingType == ASSUME TypeOK, RenamePending PROVE TypeOK'
<1>1. NodesOK' /\ BuffersOK' /\ HistoryOK'
  BY OperationTypes, ReplaceType DEF RenamePending, TypeOK, NodesOK, HistoryOK
<1>2. OpOK'
  BY DEF RenamePending, TypeOK, OpOK, Operations, OpSteps
<1>3. RacesOK'
  BY DEF RenamePending, ReplaceRaces, TypeOK, RacesOK
<1>4. TreeOK' /\ FolderOK' /\ ReleaseOK' /\ MountOK'
  BY DEF RenamePending, TypeOK, TreeOK, FolderOK, ReleaseOK, MountOK, treeVars, mountVars,
     fateVars
<1> QED
  BY <1>1, <1>2, <1>3, <1>4 DEF TypeOK

LEMMA RenameReplaceType == ASSUME TypeOK, RenameReplace PROVE TypeOK'
<1>1. NodesOK' /\ BuffersOK' /\ HistoryOK'
  BY OperationTypes, ReplaceType DEF RenameReplace, TypeOK, NodesOK, HistoryOK
<1>2. OpOK'
  BY DEF RenameReplace, TypeOK, OpOK, Operations, OpSteps
<1>3. RacesOK'
  BY DEF RenameReplace, ReplaceRaces, TypeOK, RacesOK
<1>4. TreeOK' /\ FolderOK' /\ ReleaseOK' /\ MountOK'
  BY DEF RenameReplace, TypeOK, TreeOK, FolderOK, ReleaseOK, MountOK, treeVars, mountVars,
     fateVars
<1> QED
  BY <1>1, <1>2, <1>3, <1>4 DEF TypeOK

LEMMA RetargetType == ASSUME TypeOK, Retarget PROVE TypeOK'
<1>1. TreeOK' /\ ReleaseOK' /\ OpOK' /\ BuffersOK'
  BY OperationTypes, RenameReleasesType DEF Retarget, TypeOK, BuffersOK
<1>2. NodesOK'
  BY OperationTypes DEF Retarget, TypeOK, NodesOK, FolderOK
<1>3. RacesOK'
  BY DEF Retarget, TypeOK, RacesOK
<1>4. FolderOK' /\ MountOK' /\ HistoryOK'
  BY DEF Retarget, TypeOK, FolderOK, MountOK, HistoryOK, treeVars, mountVars, fateVars
<1> QED
  BY <1>1, <1>2, <1>3, <1>4 DEF TypeOK

LEMMA RenameTrashType == ASSUME TypeOK, RenameTrash PROVE TypeOK'
<1>1. FolderOK'
  BY OperationTypes, MoveTrashType DEF RenameTrash, TypeOK, FolderOK
<1>2. OpOK'
  <2>1. MoveTrashed(op.link, op.to) \in LinkOrNone
    BY OperationTypes, MoveTrashType
  <2> QED
    BY <2>1, NoValuesType DEF RenameTrash, TypeOK, OpOK, Operations, OpSteps, NoOp
<1>3. TreeOK' /\ NodesOK' /\ BuffersOK' /\ ReleaseOK' /\ MountOK' /\ HistoryOK' /\ RacesOK'
  BY DEF RenameTrash, TypeOK, TreeOK, NodesOK, BuffersOK, ReleaseOK, MountOK, HistoryOK,
     RacesOK, treeVars, nodeVars, mountVars, fateVars
<1> QED
  BY <1>1, <1>2, <1>3 DEF TypeOK

LEMMA RenameMoveType == ASSUME TypeOK, RenameMove PROVE TypeOK'
<1>1. FolderOK'
  BY OperationTypes, MoveDoneType DEF RenameMove, TypeOK, FolderOK
<1>2. OpOK'
  BY NoValuesType DEF RenameMove, TypeOK, OpOK, Operations, OpSteps, NoOp
<1>3. NodesOK'
  BY UnlinkedType DEF RenameMove, TypeOK, NodesOK
<1>4. RacesOK'
  BY RacedType DEF RenameMove, Races, LosingRaces
<1>5. TreeOK' /\ BuffersOK' /\ ReleaseOK' /\ MountOK' /\ HistoryOK'
  BY DEF RenameMove, TypeOK, TreeOK, BuffersOK, ReleaseOK, MountOK, HistoryOK, treeVars,
     mountVars, fateVars
<1> QED
  BY <1>1, <1>2, <1>3, <1>4, <1>5 DEF TypeOK

LEMMA RenameApplyType == ASSUME TypeOK, RenameApply PROVE TypeOK'
<1>1. TreeOK' /\ ReleaseOK' /\ OpOK' /\ BuffersOK'
  BY OperationTypes, RenameReleasesType DEF RenameApply, TypeOK, BuffersOK
<1>2. NodesOK'
  BY OperationTypes DEF RenameApply, TypeOK, NodesOK
<1>3. RacesOK'
  BY DEF RenameApply, TypeOK, RacesOK
<1>4. FolderOK' /\ MountOK' /\ HistoryOK'
  BY DEF RenameApply, TypeOK, FolderOK, MountOK, HistoryOK, treeVars, mountVars, fateVars
<1> QED
  BY <1>1, <1>2, <1>3, <1>4 DEF TypeOK

(***************************************************************************)
(* The unmount.                                                             *)
(***************************************************************************)

LEMMA BeginFlushType == ASSUME TypeOK, BeginFlush PROVE TypeOK'
<1>1. MountOK'
  BY DEF BeginFlush, TypeOK, MountOK, MountPhases, Waiting
<1>2. TreeOK' /\ FolderOK' /\ NodesOK' /\ BuffersOK' /\ ReleaseOK' /\ OpOK' /\ HistoryOK' /\ RacesOK'
  BY DEF BeginFlush, TypeOK, TreeOK, FolderOK, NodesOK, BuffersOK, ReleaseOK, OpOK,
     HistoryOK, RacesOK, treeVars, nodeVars, fateVars
<1> QED
  BY <1>1, <1>2 DEF TypeOK

LEMMA FlushSettleType == ASSUME TypeOK, NEW f \in Files, FlushSettle(f) PROVE TypeOK'
<1>1. BuffersOK' /\ ReleaseOK'
  BY SettleType DEF FlushSettle, TypeOK, MountOK, BuffersOK, ReleaseOK, fateVars
<1>2. MountOK'
  BY DEF FlushSettle, TypeOK, MountOK
<1>3. TreeOK' /\ FolderOK' /\ NodesOK' /\ OpOK' /\ HistoryOK' /\ RacesOK'
  BY DEF FlushSettle, TypeOK, TreeOK, FolderOK, NodesOK, OpOK, HistoryOK, RacesOK, treeVars,
     nodeVars, fateVars
<1> QED
  BY <1>1, <1>2, <1>3 DEF TypeOK

LEMMA PassDoneType == ASSUME TypeOK, PassDone PROVE TypeOK'
<1>1. MountOK'
  BY DEF PassDone, TypeOK, MountOK, MountPhases, Waiting
<1>2. TreeOK' /\ FolderOK' /\ NodesOK' /\ BuffersOK' /\ ReleaseOK' /\ OpOK' /\ HistoryOK' /\ RacesOK'
  BY DEF PassDone, TypeOK, TreeOK, FolderOK, NodesOK, BuffersOK, ReleaseOK, OpOK, HistoryOK,
     RacesOK, treeVars, nodeVars, fateVars
<1> QED
  BY <1>1, <1>2 DEF TypeOK

LEMMA FlushDeadlineType == ASSUME TypeOK, FlushDeadline PROVE TypeOK'
<1>1. MountOK'
  BY DEF FlushDeadline, TypeOK, MountOK, MountPhases
<1>2. TreeOK' /\ FolderOK' /\ NodesOK' /\ BuffersOK' /\ ReleaseOK' /\ OpOK' /\ HistoryOK' /\ RacesOK'
  BY DEF FlushDeadline, TypeOK, TreeOK, FolderOK, NodesOK, BuffersOK, ReleaseOK, OpOK,
     HistoryOK, RacesOK, treeVars, nodeVars, fateVars
<1> QED
  BY <1>1, <1>2 DEF TypeOK

LEMMA AbandonKeptType == ASSUME TypeOK, AbandonKept PROVE TypeOK'
<1>1. MountOK'
  <2>1. PICK last \in [Names -> Files] :
          /\ \A n \in Names : ToLocal(n) # {} => last[n] \in ToLocal(n)
          /\ local' = [n \in Names |-> IF ToLocal(n) = {} THEN local[n]
                                      ELSE handle[last[n]].ver]
    BY DEF AbandonKept
  <2>2. \A n \in Names : handle[last[n]].ver \in Saves /\ local[n] \in Saves \cup {None}
    BY DEF TypeOK, BuffersOK, Buffers, MountOK
  <2>3. local' \in [Names -> Saves \cup {None}]
    BY <2>1, <2>2
  <2> QED
    BY <2>3 DEF AbandonKept, TypeOK, MountOK, MountPhases
<1>2. BuffersOK'
  BY NoValuesType DEF AbandonKept, TypeOK, BuffersOK, Buffers
<1>3. RacesOK'
  BY RacedType DEF AbandonKept, Races, LosingRaces
<1>4. TreeOK' /\ FolderOK' /\ NodesOK' /\ ReleaseOK' /\ OpOK' /\ HistoryOK'
  BY DEF AbandonKept, TypeOK, TreeOK, FolderOK, NodesOK, ReleaseOK, OpOK, HistoryOK,
     treeVars, nodeVars, fateVars
<1> QED
  BY <1>1, <1>2, <1>3, <1>4 DEF TypeOK

LEMMA ExitType == ASSUME TypeOK, NEW r \in Races, Exit(r) PROVE TypeOK'
<1>1. InitialName \in Names
  BY WriteBufferAssumption
<1>2. TreeOK' /\ FolderOK' /\ NodesOK'
  BY <1>1 DEF Exit, TypeOK, TreeOK, FolderOK, NodesOK, FileOrNone, LinkOrNone
<1>3. BuffersOK' /\ ReleaseOK' /\ OpOK'
  BY NoValuesType DEF Exit, TypeOK, BuffersOK, ReleaseOK, OpOK, NoOp
<1>4. MountOK' /\ HistoryOK' /\ RacesOK'
  BY RacedType DEF Exit, TypeOK, MountOK, MountPhases, HistoryOK
<1> QED
  BY <1>2, <1>3, <1>4 DEF TypeOK

(***************************************************************************)
(* Every step keeps the types.                                              *)
(***************************************************************************)

LEMMA ReleaseStepType == ASSUME TypeOK, NEW f \in Files, ReleaseStep(f) PROVE TypeOK'
BY ReadReleaseType, DecideType, AwaitReplacedType, LockUploadType, AcquireSlotType,
   QueueCancelledType, UploadSucceedsType, UploadLateType, UploadFailsType, ClaimType,
   TrashGoneType, PatchType, PublishType, ReleaseMoveTrashType, ReleaseMoveType
   DEF ReleaseStep

LEMMA DirStepType == ASSUME TypeOK, DirStep PROVE TypeOK'
BY UnlinkPendingType, UnlinkTrashType, RenamePendingType, RetargetType, RenameTrashType,
   RenameMoveType, RenameReplaceType, RenameApplyType DEF DirStep

LEMMA UserStepType == ASSUME TypeOK, UserStep PROVE TypeOK'
BY LookupType, CreateType, OpenType, UnlinkType, RenameType, WriteType, TruncateType, CloseType
   DEF UserStep

LEMMA UnmountStepType == ASSUME TypeOK, UnmountStep PROVE TypeOK'
<1>1. {"lateSave", "externalUnmount", "killed"} \subseteq Races
  BY DEF Races, LosingRaces
<1>2. ASSUME Detach \/ ExternalUnmount \/ Kill PROVE TypeOK'
  BY <1>1, <1>2, ExitType DEF Detach, ExternalUnmount, Kill
<1> QED
  BY <1>2, BeginFlushType, PassDoneType, FlushDeadlineType, AbandonKeptType, FlushSettleType
     DEF UnmountStep

LEMMA InitType == Init => TypeOK
<1>1. 1 \in Links /\ 0 \in Saves /\ InitialName \in Names
  BY WriteBufferAssumption DEF Links, Saves
<1> SUFFICES ASSUME Init PROVE TypeOK
  OBVIOUS
<1>2. TreeOK /\ FolderOK /\ NodesOK
  BY <1>1, NoValuesType DEF Init, TreeOK, FolderOK, NodesOK, FileOrNone, LinkOrNone, DriveLinks
<1>3. BuffersOK /\ ReleaseOK /\ OpOK
  BY <1>1, NoValuesType DEF Init, BuffersOK, ReleaseOK, OpOK, NoOp
<1>4. MountOK /\ HistoryOK /\ RacesOK
  BY <1>1 DEF Init, MountOK, MountPhases, HistoryOK, RacesOK
<1> QED
  BY <1>2, <1>3, <1>4 DEF TypeOK

LEMMA StutterType == ASSUME TypeOK, UNCHANGED vars PROVE TypeOK'
BY DEF vars, treeVars, nodeVars, mountVars, fateVars, TypeOK, TreeOK, FolderOK, NodesOK,
   BuffersOK, ReleaseOK, OpOK, MountOK, HistoryOK, RacesOK

LEMMA NextType == ASSUME TypeOK, [Next]_vars PROVE TypeOK'
<1>1. CASE MountedNext
  BY <1>1, ReleaseStepType, TimerFiresType, DirStepType, UserStepType, RefreshType
     DEF MountedNext
<1>2. CASE UnmountStep
  BY <1>2, UnmountStepType
<1>3. CASE Terminated \/ UNCHANGED vars
  BY <1>3, StutterType DEF Terminated
<1> QED
  BY <1>1, <1>2, <1>3 DEF Next

\* Every variable keeps its type in every reachable state: what a handler of the write
\* path stores, it stores as the code's types and the states of a buffer allow.
THEOREM TypeCorrect == Spec => []TypeOK
<1>1. Init => TypeOK
  BY InitType
<1>2. TypeOK /\ [Next]_vars => TypeOK'
  BY NextType
<1> QED
  BY <1>1, <1>2, PTL DEF Spec

(***************************************************************************)
(* A buffer has one owner.  What a step does to the owner of a buffer: it    *)
(* lets go of it with the return of its Release, or leaves it as it is.      *)
(***************************************************************************)

LetsGo(f) == /\ handle'[f].phase # "releasing"
             /\ \A g \in Files \ {f} : handle'[g].phase = handle[g].phase

GoesOn(f) == /\ rel'[f].pc # "idle" /\ rel[f].pc # "idle"
             /\ \A g \in Files \ {f} : rel'[g] = rel[g]
             /\ \A g \in Files : handle'[g].phase = handle[g].phase

LEMMA DropLetsGo == ASSUME TypeOK, NEW f \in Files, Drop(f) PROVE LetsGo(f)
BY DEF Drop, LetsGo, NoHandle, TypeOK, BuffersOK

LEMMA KeepUnsavedLetsGo == ASSUME TypeOK, NEW f \in Files, KeepUnsaved(f) PROVE LetsGo(f)
BY DEF KeepUnsaved, LetsGo, NoHandle, TypeOK, BuffersOK

LEMMA DiscardLetsGo == ASSUME TypeOK, NEW f \in Files, Discard(f) PROVE LetsGo(f)
BY DropLetsGo, KeepUnsavedLetsGo DEF Discard

LEMMA ParkPhase ==
  ASSUME TypeOK, NEW f \in Files, NEW phase, NEW failed, Park(f, phase, failed)
  PROVE  handle'[f].phase = phase /\ \A g \in Files \ {f} : handle'[g] = handle[g]
BY DEF Park, TypeOK, BuffersOK, Buffers

LEMMA KeepForRetryLetsGo ==
  ASSUME TypeOK, NEW f \in Files, NEW permanent \in BOOLEAN, KeepForRetry(f, permanent)
  PROVE  LetsGo(f)
<1>1. CASE handle[f].gone
  BY <1>1, DiscardLetsGo DEF KeepForRetry
<1>2. CASE ~handle[f].gone /\ Closing
  BY <1>2, KeepUnsavedLetsGo DEF KeepForRetry
<1>3. CASE ~handle[f].gone /\ ~Closing
  <2>1. PICK phase \in {"kept", "waiting"}, failed \in BOOLEAN : Park(f, phase, failed)
    BY <1>3 DEF KeepForRetry, TypeOK, BuffersOK, Buffers
  <2> QED
    BY <2>1, ParkPhase DEF LetsGo
<1> QED
  BY <1>1, <1>2, <1>3

LEMMA ReturnOwned ==
  ASSUME TypeOK, OwnedByRelease, NEW f \in Files, NEW ok, Return(f, ok), LetsGo(f)
  PROVE  OwnedByRelease'
BY DEF Return, LetsGo, NoRelease, TypeOK, ReleaseOK, OwnedByRelease

LEMMA GoesOnOwned ==
  ASSUME OwnedByRelease, NEW f \in Files, GoesOn(f)
  PROVE  OwnedByRelease'
BY DEF GoesOn, OwnedByRelease

LEMMA ReadReleaseOwned ==
  ASSUME TypeOK, OwnedByRelease, NEW f \in Files, ReadRelease(f)
  PROVE  OwnedByRelease'
<1>1. CASE handle[f].gone \/ ~handle[f].dirty
  BY <1>1, DropLetsGo, DiscardLetsGo, ReturnOwned DEF ReadRelease
<1>2. CASE ~(handle[f].gone \/ ~handle[f].dirty)
  <2>1. /\ rel' = [rel EXCEPT ![f].pc = "decide", ![f].name = name[f],
                             ![f].existing = node[f]]
        /\ rel[f].pc = "start" /\ handle' = handle
    BY <1>2 DEF ReadRelease
  <2>2. rel'[f].pc = "decide" /\ \A g \in Files \ {f} : rel'[g] = rel[g]
    BY <2>1 DEF TypeOK, ReleaseOK, Releases
  <2>3. GoesOn(f)
    BY <2>1, <2>2 DEF GoesOn
  <2> QED
    BY <2>3, GoesOnOwned
<1> QED
  BY <1>1, <1>2

LEMMA DecideOwned ==
  ASSUME TypeOK, OwnedByRelease, NEW f \in Files, Decide(f)
  PROVE  OwnedByRelease'
<1>1. Park(f, PhaseForName(f), handle[f].failed)
  BY DEF Decide
<1>2. /\ handle'[f].phase = PhaseForName(f)
      /\ \A g \in Files \ {f} : handle'[g] = handle[g]
  BY <1>1, ParkPhase
<1>3. CASE PhaseForName(f) # "releasing"
  <2>1. LetsGo(f) /\ Return(f, TRUE)
    BY <1>2, <1>3 DEF Decide, LetsGo
  <2> QED
    BY <2>1, ReturnOwned
<1>4. CASE PhaseForName(f) = "releasing"
  <2>1. rel'[f].pc = "await" /\ rel[f].pc = "decide"
        /\ \A g \in Files \ {f} : rel'[g] = rel[g]
    BY <1>4 DEF Decide, TypeOK, ReleaseOK, Releases
  <2>2. handle[f].phase = "releasing"
    BY <2>1 DEF OwnedByRelease
  <2>3. GoesOn(f)
    BY <1>2, <1>4, <2>1, <2>2 DEF GoesOn
  <2> QED
    BY <2>3, GoesOnOwned
<1> QED
  BY <1>3, <1>4

LEMMA AwaitReplacedOwned == ASSUME TypeOK, OwnedByRelease, NEW f \in Files, AwaitReplaced(f)
   PROVE OwnedByRelease'
BY GoesOnOwned DEF AwaitReplaced, GoesOn, TypeOK, BuffersOK, ReleaseOK, Releases

LEMMA LockUploadOwned == ASSUME TypeOK, OwnedByRelease, NEW f \in Files, LockUpload(f) PROVE
   OwnedByRelease'
BY DiscardLetsGo, ReturnOwned, GoesOnOwned DEF LockUpload, GoesOn, TypeOK, BuffersOK,
   ReleaseOK, Releases, Step

LEMMA AcquireSlotOwned == ASSUME TypeOK, OwnedByRelease, NEW f \in Files, AcquireSlot(f)
   PROVE OwnedByRelease'
BY GoesOnOwned DEF AcquireSlot, GoesOn, TypeOK, BuffersOK, ReleaseOK, Releases

LEMMA QueueCancelledOwned == ASSUME TypeOK, OwnedByRelease, NEW f \in Files,
   QueueCancelled(f) PROVE OwnedByRelease'
BY KeepForRetryLetsGo, ReturnOwned DEF QueueCancelled

LEMMA UploadLateOwned == ASSUME TypeOK, OwnedByRelease, NEW f \in Files, UploadLate(f) PROVE
   OwnedByRelease'
BY KeepForRetryLetsGo, ReturnOwned DEF UploadLate

LEMMA UploadFailsOwned == ASSUME TypeOK, OwnedByRelease, NEW f \in Files, UploadFails(f)
   PROVE OwnedByRelease'
BY KeepForRetryLetsGo, ReturnOwned DEF UploadFails

LEMMA UploadSucceedsOwned == ASSUME TypeOK, OwnedByRelease, NEW f \in Files,
   UploadSucceeds(f) PROVE OwnedByRelease'
BY GoesOnOwned DEF UploadSucceeds, GoesOn, TypeOK, BuffersOK, ReleaseOK, Releases

LEMMA ClaimOwned == ASSUME TypeOK, OwnedByRelease, NEW f \in Files, Claim(f) PROVE
   OwnedByRelease'
<1> DEFINE creates == rel[f].existing = None /\ rel[f].up # None
<1>1. CASE handle[f].gone /\ ~creates
  BY <1>1, DropLetsGo, ReturnOwned DEF Claim
<1>2. CASE ~(handle[f].gone /\ ~creates)
  <2>1. PICK pc \in {"trash", "patch"} : Step(f, pc)
    BY <1>2 DEF Claim
  <2>2. handle' = handle /\ rel[f].pc = "claim"
    BY <1>2 DEF Claim
  <2>3. GoesOn(f)
    BY <2>1, <2>2 DEF Step, GoesOn, TypeOK, ReleaseOK, Releases
  <2> QED
    BY <2>3, GoesOnOwned
<1> QED
  BY <1>1, <1>2

LEMMA TrashGoneOwned == ASSUME TypeOK, OwnedByRelease, NEW f \in Files, TrashGone(f) PROVE
   OwnedByRelease'
BY DropLetsGo, ReturnOwned DEF TrashGone

LEMMA PatchOwned == ASSUME TypeOK, OwnedByRelease, NEW f \in Files, Patch(f) PROVE
   OwnedByRelease'
<1> USE FileTypes DEF Releases
<1>1. CASE rel[f].up = None
  BY <1>1, DropLetsGo, ReturnOwned DEF Patch
<1>2. CASE rel[f].up # None
  BY <1>2, GoesOnOwned DEF Patch, GoesOn, TypeOK, ReleaseOK
<1> QED
  BY <1>1, <1>2

LEMMA PublishOwned == ASSUME TypeOK, OwnedByRelease, NEW f \in Files, Publish(f) PROVE
   OwnedByRelease'
BY DropLetsGo, ReturnOwned DEF Publish

LEMMA ReleaseMoveTrashOwned == ASSUME TypeOK, OwnedByRelease, NEW f \in Files,
   ReleaseMoveTrash(f) PROVE OwnedByRelease'
BY DropLetsGo, ReturnOwned, GoesOnOwned DEF ReleaseMoveTrash, GoesOn, TypeOK, BuffersOK,
   ReleaseOK, Releases

LEMMA ReleaseMoveOwned == ASSUME TypeOK, OwnedByRelease, NEW f \in Files, ReleaseMove(f)
   PROVE OwnedByRelease'
BY DropLetsGo, ReturnOwned DEF ReleaseMove

LEMMA ReleaseStepOwned ==
  ASSUME TypeOK, OwnedByRelease, NEW f \in Files, ReleaseStep(f)
  PROVE  OwnedByRelease'
BY ReadReleaseOwned, DecideOwned, AwaitReplacedOwned, LockUploadOwned, AcquireSlotOwned,
   QueueCancelledOwned, UploadSucceedsOwned, UploadLateOwned, UploadFailsOwned, ClaimOwned,
   TrashGoneOwned, PatchOwned, PublishOwned, ReleaseMoveTrashOwned, ReleaseMoveOwned
   DEF ReleaseStep

(***************************************************************************)
(* What starts a Release takes the buffer, and takes one nobody has.         *)
(***************************************************************************)

LEMMA SettleOwned ==
  ASSUME TypeOK, OwnedByRelease, NEW f \in Files, NEW by, Settle(f, by)
  PROVE  OwnedByRelease'
BY DEF Settle, TypeOK, BuffersOK, Buffers, ReleaseOK, Releases, OwnedByRelease

LEMMA CloseOwned == ASSUME TypeOK, OwnedByRelease, NEW f \in Files, Close(f) PROVE OwnedByRelease'
BY DEF Close, TypeOK, BuffersOK, Buffers, ReleaseOK, Releases, OwnedByRelease

LEMMA OpenOwned == ASSUME TypeOK, OwnedByRelease, NEW n \in Names, Open(n) PROVE OwnedByRelease'
<1>1. tree[n] \in Files
  BY DEF Open, TypeOK, TreeOK, FileOrNone
<1>2. rel' = rel /\ rel[tree[n]].pc = "idle"
  BY <1>1 DEF Open, Parked, HasBuf, OwnedByRelease
<1>3. handle'[tree[n]].phase = "open" /\ \A g \in Files \ {tree[n]} : handle'[g] = handle[g]
  BY <1>1 DEF Open, TakenBack, NoHandle, TypeOK, BuffersOK, Buffers
<1> QED
  BY <1>1, <1>2, <1>3 DEF OwnedByRelease

LEMMA SamePhaseOwned ==
  ASSUME OwnedByRelease, rel' = rel, \A g \in Files : handle'[g].phase = handle[g].phase
  PROVE  OwnedByRelease'
BY DEF OwnedByRelease

LEMMA WriteOwned == ASSUME TypeOK, OwnedByRelease, NEW f \in Files, Write(f) PROVE OwnedByRelease'
BY SamePhaseOwned DEF Write, TypeOK, BuffersOK, Buffers

LEMMA TruncateOwned ==
  ASSUME TypeOK, OwnedByRelease, NEW f \in Files, Truncate(f)
  PROVE  OwnedByRelease'
BY SamePhaseOwned DEF Truncate, TypeOK, BuffersOK, Buffers

LEMMA CreateOwned ==
  ASSUME TypeOK, OwnedByRelease, NEW n \in Names, Create(n)
  PROVE  OwnedByRelease'
<1>1. PICK f \in Files : /\ Fresh(f)
                         /\ handle' = [handle EXCEPT ![f] =
                              [NoHandle EXCEPT !.phase = "open", !.ver = saves + 1, !.dirty = TRUE]]
  BY DEF Create
<1> QED
  BY <1>1 DEF Create, Fresh, NoHandle, TypeOK, BuffersOK, OwnedByRelease

\* A parked buffer that is dropped was nobody's.
LEMMA ParkedGoes ==
  ASSUME TypeOK, OwnedByRelease, NEW f \in Files, Parked(f), LetsGo(f), rel' = rel
  PROVE  OwnedByRelease'
BY DEF Parked, LetsGo, OwnedByRelease

LEMMA UnlinkOwned ==
  ASSUME TypeOK, OwnedByRelease, NEW n \in Names, Unlink(n)
  PROVE  OwnedByRelease'
<1> DEFINE f == tree[n]
<1>1. f \in Files
  BY DEF Unlink, TypeOK, TreeOK, FileOrNone
<1>2. CASE Parked(f)
  BY <1>1, <1>2, DropLetsGo, DiscardLetsGo, ParkedGoes DEF Unlink
<1>3. CASE ~Parked(f)
  BY <1>3, SamePhaseOwned DEF Unlink
<1> QED
  BY <1>2, <1>3

LEMMA UnlinkPendingOwned == ASSUME TypeOK, OwnedByRelease, UnlinkPending PROVE OwnedByRelease'
<1>1. \A g \in Files : handle'[g].phase = handle[g].phase
  BY DEF UnlinkPending, TypeOK, BuffersOK, Buffers
<1> QED
  BY <1>1, SamePhaseOwned DEF UnlinkPending

LEMMA ReplaceOwned ==
  ASSUME TypeOK, OwnedByRelease, NEW to \in Names, NEW src, NEW link, Replace(to, src, link),
         rel' = rel
  PROVE  OwnedByRelease'
<1> DEFINE dst == tree[to]
           left == dst \in {None, src} \/ (link # None /\ node[dst] = link) \/ ~HasBuf(dst)
<1>1. CASE left
  BY <1>1, SamePhaseOwned DEF Replace
<1>2. CASE ~left
  <2>1. dst \in Files
    BY <1>2 DEF TypeOK, TreeOK, FileOrNone
  <2>2. CASE Parked(dst)
    BY <1>2, <2>1, <2>2, DiscardLetsGo, ParkedGoes DEF Replace
  <2>3. CASE ~Parked(dst)
    <3>1. handle' = [handle EXCEPT ![dst].gone = TRUE]
      BY <1>2, <2>3 DEF Replace
    <3> QED
      BY <3>1, SamePhaseOwned DEF TypeOK, BuffersOK, Buffers
  <2> QED
    BY <2>2, <2>3
<1> QED
  BY <1>1, <1>2

LEMMA RenameReleasesOwned ==
  ASSUME TypeOK, OwnedByRelease, NEW f \in Files, RenameReleases(f)
  PROVE  OwnedByRelease'
<1>1. CASE Parked(f)
  <2>1. handle'[f].phase = "releasing" /\ \A g \in Files \ {f} : handle'[g] = handle[g]
    BY <1>1 DEF RenameReleases, TakenBack, TypeOK, BuffersOK, Buffers
  <2>2. rel'[f].pc = "start" /\ \A g \in Files \ {f} : rel'[g] = rel[g]
    BY <1>1 DEF RenameReleases, TypeOK, ReleaseOK, Releases
  <2> QED
    BY <2>1, <2>2 DEF OwnedByRelease
<1>2. CASE ~Parked(f)
  BY <1>2, SamePhaseOwned DEF RenameReleases
<1> QED
  BY <1>1, <1>2

LEMMA DirStepOwned == ASSUME TypeOK, OwnedByRelease, DirStep PROVE OwnedByRelease'
<1>1. CASE UnlinkPending
  BY <1>1, UnlinkPendingOwned
<1>2. CASE RenamePending \/ RenameReplace
  BY <1>2, OperationTypes, ReplaceOwned DEF RenamePending, RenameReplace
<1>3. CASE Retarget \/ RenameApply
  BY <1>3, OperationTypes, RenameReleasesOwned DEF Retarget, RenameApply
<1>4. CASE UnlinkTrash \/ RenameTrash \/ RenameMove
  BY <1>4, SamePhaseOwned DEF UnlinkTrash, RenameTrash, RenameMove
<1> QED
  BY <1>1, <1>2, <1>3, <1>4 DEF DirStep

LEMMA UserStepOwned == ASSUME TypeOK, OwnedByRelease, UserStep PROVE OwnedByRelease'
<1>1. ASSUME NEW n \in Names, Lookup(n) PROVE OwnedByRelease'
  BY <1>1, SamePhaseOwned DEF Lookup
<1>2. ASSUME NEW from \in Names, NEW to \in Names, Rename(from, to) PROVE OwnedByRelease'
  BY <1>2, SamePhaseOwned DEF Rename
<1> QED
  BY <1>1, <1>2, CreateOwned, OpenOwned, UnlinkOwned, WriteOwned, TruncateOwned, CloseOwned
     DEF UserStep

LEMMA ExitOwned == ASSUME TypeOK, NEW r, Exit(r) PROVE OwnedByRelease'
BY DEF Exit, NoHandle, NoRelease, OwnedByRelease

LEMMA UnmountStepOwned == ASSUME TypeOK, OwnedByRelease, UnmountStep PROVE OwnedByRelease'
<1>1. CASE BeginFlush \/ PassDone \/ FlushDeadline
  BY <1>1, SamePhaseOwned DEF BeginFlush, PassDone, FlushDeadline
<1>2. CASE AbandonKept
  BY <1>2 DEF AbandonKept, Parked, NoHandle, OwnedByRelease
<1>3. CASE Detach \/ ExternalUnmount \/ Kill
  BY <1>3, ExitOwned DEF Detach, ExternalUnmount, Kill
<1>4. ASSUME NEW f \in Files, FlushSettle(f) PROVE OwnedByRelease'
  <2>1. CASE handle[f].phase = "waiting"
    BY <1>4, <2>1, SettleOwned DEF FlushSettle
  <2>2. CASE handle[f].phase # "waiting"
    BY <1>4, <2>2, SamePhaseOwned DEF FlushSettle
  <2> QED
    BY <2>1, <2>2
<1> QED
  BY <1>1, <1>2, <1>3, <1>4 DEF UnmountStep

LEMMA NextOwned == ASSUME TypeOK, OwnedByRelease, [Next]_vars PROVE OwnedByRelease'
<1>1. CASE MountedNext
  <2>1. ASSUME NEW f \in Files, TimerFires(f) PROVE OwnedByRelease'
    BY <2>1, SettleOwned DEF TimerFires
  <2>2. CASE Refresh
    BY <2>2, SamePhaseOwned DEF Refresh
  <2> QED
    BY <1>1, <2>1, <2>2, ReleaseStepOwned, DirStepOwned, UserStepOwned DEF MountedNext
<1>2. CASE UnmountStep
  BY <1>2, UnmountStepOwned
<1>3. CASE Terminated \/ UNCHANGED vars
  BY <1>3, SamePhaseOwned DEF Terminated, vars
<1> QED
  BY <1>1, <1>2, <1>3 DEF Next

\* A file's write buffer is being released exactly while a Release runs for it, whichever
\* of close, timer, flush, reopen, delete and rename came first: none takes a buffer that
\* another has, and none leaves one behind.
THEOREM OneOwner == Spec => []OwnedByRelease
<1>1. Init => OwnedByRelease
  BY DEF Init, OwnedByRelease, NoHandle, NoRelease
<1>2. TypeOK /\ OwnedByRelease /\ [Next]_vars => OwnedByRelease'
  BY NextOwned
<1> QED
  BY <1>1, <1>2, TypeCorrect, PTL DEF Spec

(***************************************************************************)
(* Who starts a Release: no step of one does, and whoever does takes a       *)
(* buffer that is open or parked.                                            *)
(***************************************************************************)

TakesRightly(f) ==
  handle[f].phase \in IF rel'[f].by = "user" THEN {"open", "waiting", "kept"} ELSE {"waiting"}

NoneStarts == \A f \in Files : ~Starts(f)

LEMMA ReturnStartsNone == ASSUME TypeOK, NEW f \in Files, NEW ok, Return(f, ok) PROVE NoneStarts
BY DEF Return, NoRelease, NoneStarts, Starts, TypeOK, ReleaseOK

LEMMA GoesStartsNone ==
  ASSUME NEW f \in Files, rel'[f].pc # "start", \A g \in Files \ {f} : rel'[g] = rel[g]
  PROVE  NoneStarts
BY DEF NoneStarts, Starts

LEMMA ReleaseStepStartsNone == ASSUME TypeOK, NEW f \in Files, ReleaseStep(f) PROVE NoneStarts
<1>0. rel \in [Files -> Releases]
  BY DEF TypeOK, ReleaseOK
<1> USE <1>0 DEF Releases
<1>1. CASE ReadRelease(f)
  <2>1. CASE handle[f].gone \/ ~handle[f].dirty
    BY <1>1, <2>1, ReturnStartsNone DEF ReadRelease
  <2>2. CASE ~(handle[f].gone \/ ~handle[f].dirty)
    <3>1. rel' = [rel EXCEPT ![f].pc = "decide", ![f].name = name[f], ![f].existing = node[f]]
      BY <1>1, <2>2 DEF ReadRelease
    <3>2. rel'[f].pc = "decide" /\ \A g \in Files \ {f} : rel'[g] = rel[g]
      BY <3>1
    <3> QED
      BY <3>2, GoesStartsNone
  <2> QED
    BY <2>1, <2>2
<1>2. CASE Decide(f)
  BY <1>2, ReturnStartsNone, GoesStartsNone DEF Decide
<1>3. CASE AwaitReplaced(f)
  BY <1>3, ReturnStartsNone, GoesStartsNone DEF AwaitReplaced
<1>4. CASE LockUpload(f)
  BY <1>4, ReturnStartsNone, GoesStartsNone DEF LockUpload, Step
<1>5. CASE AcquireSlot(f)
  BY <1>5, ReturnStartsNone, GoesStartsNone DEF AcquireSlot
<1>6. CASE QueueCancelled(f)
  BY <1>6, ReturnStartsNone, GoesStartsNone DEF QueueCancelled
<1>7. CASE UploadLate(f)
  BY <1>7, ReturnStartsNone, GoesStartsNone DEF UploadLate
<1>8. CASE UploadFails(f)
  BY <1>8, ReturnStartsNone, GoesStartsNone DEF UploadFails
<1>9. CASE UploadSucceeds(f)
  <2>1. PICK up, upName :
          rel' = [rel EXCEPT ![f].pc = "claim", ![f].up = up, ![f].upName = upName]
    BY <1>9 DEF UploadSucceeds
  <2> QED
    BY <2>1, GoesStartsNone
<1>10. CASE Claim(f)
  <2>1. Return(f, TRUE) \/ Step(f, "trash") \/ Step(f, "patch")
    BY <1>10 DEF Claim
  <2> QED
    BY <2>1, ReturnStartsNone, GoesStartsNone DEF Step
<1>11. CASE TrashGone(f)
  BY <1>11, ReturnStartsNone, GoesStartsNone DEF TrashGone
<1>12. CASE Patch(f)
  <2>1. CASE rel[f].up = None
    BY <1>12, <2>1, ReturnStartsNone DEF Patch
  <2>2. CASE rel[f].up # None
    <3>1. PICK pc \in {"publish", "moveTrash"}, to \in Names :
            rel' = [rel EXCEPT ![f].pc = pc, ![f].to = to]
      BY <1>12, <2>2, FileTypes DEF Patch
    <3>2. rel'[f].pc = pc /\ \A g \in Files \ {f} : rel'[g] = rel[g]
      BY <3>1
    <3> QED
      BY <3>1, <3>2, GoesStartsNone
  <2> QED
    BY <2>1, <2>2
<1>13. CASE Publish(f)
  BY <1>13, ReturnStartsNone, GoesStartsNone DEF Publish
<1>14. CASE ReleaseMoveTrash(f)
  BY <1>14, ReturnStartsNone, GoesStartsNone DEF ReleaseMoveTrash
<1>15. CASE ReleaseMove(f)
  BY <1>15, ReturnStartsNone, GoesStartsNone DEF ReleaseMove
<1> QED
  BY <1>1, <1>2, <1>3, <1>4, <1>5, <1>6, <1>7, <1>8,
     <1>9, <1>10, <1>11, <1>12, <1>13, <1>14, <1>15 DEF ReleaseStep

LEMMA SettleTakes ==
  ASSUME TypeOK, NEW f \in Files, NEW by \in {"timer", "flush"}, Settle(f, by),
         handle[f].phase = "waiting"
  PROVE  \A g \in Files : Starts(g) => TakesRightly(g)
<1>1. \A g \in Files \ {f} : rel'[g] = rel[g]
  BY DEF Settle, TypeOK, ReleaseOK
<1> QED
  BY <1>1 DEF Starts, TakesRightly

LEMMA UserTakes ==
  ASSUME TypeOK, NEW f \in Files, handle[f].phase \in {"open", "waiting", "kept"},
         rel' = [rel EXCEPT ![f].pc = "start", ![f].by = "user"]
  PROVE  \A g \in Files : Starts(g) => TakesRightly(g)
<1>1. rel'[f].by = "user" /\ \A g \in Files \ {f} : rel'[g] = rel[g]
  BY DEF TypeOK, ReleaseOK, Releases
<1> QED
  BY <1>1 DEF Starts, TakesRightly

LEMMA RenameReleasesTakes ==
  ASSUME TypeOK, NEW f \in Files, RenameReleases(f)
  PROVE  \A g \in Files : Starts(g) => TakesRightly(g)
BY UserTakes DEF RenameReleases, Parked, Starts

LEMMA SameReleaseTakes ==
  ASSUME rel' = rel PROVE \A g \in Files : Starts(g) => TakesRightly(g)
BY DEF Starts

LEMMA NextTakes ==
  ASSUME TypeOK, Next
  PROVE  \A g \in Files : Starts(g) => TakesRightly(g)
<1>1. ASSUME NEW f \in Files, ReleaseStep(f)
      PROVE  \A g \in Files : Starts(g) => TakesRightly(g)
  BY <1>1, ReleaseStepStartsNone DEF NoneStarts
<1>2. ASSUME NEW f \in Files, TimerFires(f)
      PROVE  \A g \in Files : Starts(g) => TakesRightly(g)
  BY <1>2, SettleTakes DEF TimerFires
<1>3. ASSUME NEW f \in Files, FlushSettle(f)
      PROVE  \A g \in Files : Starts(g) => TakesRightly(g)
  BY <1>3, SettleTakes, SameReleaseTakes DEF FlushSettle
<1>4. CASE DirStep
  <2>1. CASE Retarget \/ RenameApply
    BY <2>1, OperationTypes, RenameReleasesTakes DEF Retarget, RenameApply
  <2>2. CASE ~(Retarget \/ RenameApply)
    BY <1>4, <2>2, SameReleaseTakes DEF DirStep, UnlinkPending, UnlinkTrash, RenamePending,
       RenameTrash, RenameMove, RenameReplace
  <2> QED
    BY <2>1, <2>2
<1>5. CASE UserStep
  <2>1. ASSUME NEW f \in Files, Close(f)
        PROVE  \A g \in Files : Starts(g) => TakesRightly(g)
    BY <2>1, UserTakes DEF Close
  <2>2. ASSUME ~(\E f \in Files : Close(f))
        PROVE  \A g \in Files : Starts(g) => TakesRightly(g)
    BY <1>5, <2>2, SameReleaseTakes DEF UserStep, Lookup, Create, Open, Unlink, Rename, Write,
       Truncate
  <2> QED
    BY <2>1, <2>2
<1>6. CASE Refresh \/ Terminated
  BY <1>6, SameReleaseTakes DEF Refresh, Terminated, vars
<1>7. CASE Detach \/ ExternalUnmount \/ Kill
  <2>1. \A g \in Files : rel'[g].pc = "idle"
    BY <1>7 DEF Detach, ExternalUnmount, Kill, Exit, NoRelease
  <2> QED
    BY <2>1 DEF Starts
<1>8. CASE BeginFlush \/ PassDone \/ FlushDeadline \/ AbandonKept
  BY <1>8, SameReleaseTakes DEF BeginFlush, PassDone, FlushDeadline, AbandonKept
<1> QED
  BY <1>1, <1>2, <1>3, <1>4, <1>5, <1>6, <1>7, <1>8 DEF Next, MountedNext, UnmountStep

\* A timer's or the unmount's Release starts only on a buffer that still waits, and a
\* close's or a rename's on one that is open or parked: unpark hands each to one of them.
THEOREM ParkedTakenOnce == Spec => TakenByOne
<1>1. TypeOK /\ [Next]_vars => [\A f \in Files : Starts(f) => TakesRightly(f)]_vars
  BY NextTakes
<1>2. Spec => [][\A f \in Files : Starts(f) => TakesRightly(f)]_vars
  BY <1>1, TypeCorrect, PTL DEF Spec
<1> QED
  BY <1>2 DEF TakenByOne, TakesRightly

=============================================================================
