---------------------------- MODULE WriteBuffer ----------------------------
(***************************************************************************)
(* The write path of internal/fusefs: what happens to a save between the   *)
(* moment an application closes its file and the moment the content is on  *)
(* the drive.  One folder is modelled.  A file (fileNode) has at most one  *)
(* write buffer (fileHandle), which is open, being released, or parked     *)
(* until a timer, a rename, a reopen or a delete moves it on.              *)
(*                                                                         *)
(* Three kinds of process interleave: the Release of each file (run for a  *)
(* close, by a timer, or by the unmount), one directory operation at a     *)
(* time (the kernel holds the folder's lock through Create, Unlink and     *)
(* Rename), and the unmount.  Every network call, and every window between *)
(* two lock sections that the code leaves open, is a step boundary.        *)
(*                                                                         *)
(* The content of a save is its number.  The last variables are history:   *)
(* which saves were acknowledged, which the user gave up, where they went. *)
(*                                                                         *)
(* A definition whose name begins with Wrong is a slip this code could     *)
(* have; it stands before the definition it is a slip of, nothing uses it, *)
(* and README.md says which property notices it.                           *)
(***************************************************************************)
EXTENDS Integers, FiniteSets

CONSTANTS
  Files,       \* fileNode identities
  Names,       \* names in the folder
  Excluded,    \* names matching -exclude, never uploaded
  Delayed,     \* names with a positive upload delay
  MaxUploads,  \* -max-uploads, the slots of the upload semaphore
  MaxLinks,    \* bound: links the drive can hold, trashed ones included
  MaxSaves,    \* bound: saves made
  Outcomes,    \* how an upload can end: subset of UploadOutcomes
  MetaFails,   \* whether a Trash or Move request can fail
  None,
  InitialName  \* the name of the file on the drive at the start

Links == 1 .. MaxLinks
Saves == 0 .. MaxSaves

\* "late": the revision is committed but the answer is lost.  "noReadback":
\* committed, but reading the link back fails.
UploadOutcomes == {"ok", "noReadback", "transient", "refused", "late"}

\* The known races, which README.md lists one by one: the interleavings of the
\* code that do not end as its documents say.  The first ones can lose a save.
LosingRaces == {"staleName", "parkedGone", "truncate", "failedDelete", "externalUnmount",
                "lateSave", "killed", "excludedMidUpload", "sharedLocalName"}
Races == LosingRaces \cup
  {"failedRename", "unreadRename", "renamedAfterClaim", "renamedWhileMoving", "renamedTwice",
   "publishedStale", "replacedUnlisted", "replacedWhileMoving", "chainOverwritten",
   "openedWhileReplaced", "recreatedMidUpload", "createdOverUpload", "deletedWhileOpen",
   "refreshedMidUpload", "lookedUpMidMove", "unlistedByMove"}

ASSUME WriteBufferAssumption ==
  /\ Files # {} /\ None \notin Files /\ None \notin Names /\ None \notin Nat
  /\ Excluded \subseteq Names /\ Delayed \subseteq Names
  /\ MaxUploads \in Nat \ {0} /\ MaxLinks \in Nat \ {0} /\ MaxSaves \in Nat
  /\ Outcomes \subseteq UploadOutcomes
  /\ MetaFails \in BOOLEAN
  /\ InitialName \in Names \ Excluded

VARIABLES
  tree,     \* go-fuse's tree: the file mounted under each name
  listing,  \* the folder's cached listing (dirNode.children)
  drive,    \* the links of the folder on Proton Drive
  node,     \* fileNode.node: the link of each file, None while pending
  name,     \* fileNode.name
  replaces, \* fileNode.replaces
  handle,   \* fileNode.handle and the fields of the fileHandle it points at
  rel,      \* the locals of the Release running for each file
  op,       \* the directory operation in progress and its locals
  mount,    \* phase of the mount, see flushDelayed
  todo,     \* the buffers a flush pass has still to settle
  local,    \* the local store: the save of each excluded name an unmount moved there
  saves,    \* history: how many saves were made
  acked,    \* history: saves whose close or truncate returned success
  forgone,  \* history: saves the user replaced, deleted or overwrote
  uploaded, \* history: saves committed to some link of the drive
  kept,     \* history: saves moved to state.UnsavedDir
  want,     \* history: the save an application expects under each name
  races     \* history: the known races the run went through

mountVars == <<mount, todo, local>>
treeVars  == <<tree, listing>>
nodeVars  == <<node, name, replaces>>
fateVars  == <<saves, acked, forgone, uploaded, kept, want, races>>
vars == <<treeVars, drive, nodeVars, handle, rel, op, mountVars, fateVars>>

-----------------------------------------------------------------------------
(* States of the parts.                                                     *)

\* "waiting" is parked with a timer, "kept" is parked without one.
Phases   == {"none", "open", "releasing", "waiting", "kept"}
NoHandle == [phase |-> "none", ver |-> 0, dirty |-> FALSE, due |-> FALSE,
             failed |-> FALSE, gone |-> FALSE]

RelSteps == {"idle", "start", "decide", "await", "queued", "upload", "claim", "trash",
             "patch", "publish", "moveTrash", "move"}
NoRelease == [pc |-> "idle", by |-> "user", name |-> InitialName, existing |-> None,
              ver |-> 0, chain |-> None, up |-> None, upName |-> InitialName,
              to |-> InitialName, trashed |-> None]

OpSteps == {"idle", "unlinkPending", "unlinkTrash", "renamePending",
            "retarget", "renameTrash", "renameMove", "renameReplace", "renameApply",
            "renameWait"}
NoOp == [pc |-> "idle", from |-> InitialName, to |-> InitialName, link |-> None,
         trashed |-> None, file |-> None, dropped |-> None]

MountPhases == {"up", "pass1", "pass2", "grace", "detaching", "exited"}
NoLink == [st |-> "free", name |-> InitialName, ver |-> 0]

Parked(f)  == handle[f].phase \in {"waiting", "kept"}
HasBuf(f)  == handle[f].phase # "none"
Pending(f) == node[f] = None
Closing    == mount \in {"grace", "detaching", "exited"}

\* fileNode.uploadMu and the upload semaphore are held for these steps.
HoldsMu(f)   == rel[f].pc \in RelSteps \ {"idle", "start", "decide", "await"}
HoldsSlot(f) == HoldsMu(f) /\ rel[f].pc # "queued"

Active(d, n) == {l \in Links : d[l].st = "active" /\ d[l].name = n}
Fetched(d)   == [n \in Names |-> IF Active(d, n) = {} THEN None
                                 ELSE CHOOSE l \in Active(d, n) : TRUE]
FreeLinks    == {l \in Links : drive[l].st = "free"}

\* A file nothing refers to any more; the kernel forgets its inode.
Fresh(f) ==
  /\ \A n \in Names : tree[n] # f
  /\ handle[f] = NoHandle /\ rel[f].pc = "idle"
  /\ \A g \in Files : replaces[g] # f /\ rel[g].chain # f
  /\ op.file # f /\ f \notin todo

\* upsertNode: the entry with the same link or the same name is replaced.
Upsert(ls, l, n) == [m \in Names |-> IF m = n THEN l ELSE IF ls[m] = l THEN None ELSE ls[m]]
Removed(ls, n) == [ls EXCEPT ![n] = None]

\* A step that is one of the known races is recorded.
Raced(happened, r) == races' = IF happened THEN races \cup {r} ELSE races

\* What the conditions of the races ask of the Release of another file.
Started(f) == rel[f].pc \notin {"idle", "start"}
\* It has read the file's name for the last time.
Landing(f) == rel[f].pc \in {"publish", "moveTrash", "move"}
\* It moves what it uploaded to the name f has by now.
Relocating(f) == \/ rel[f].pc \in {"moveTrash", "move"}
                 \/ rel[f].pc = "patch" /\ name[f] # rel[f].name
\* One of them creates a link under n, which its file is no longer called.
Leaving(n) == \E f \in Files :
  /\ Started(f) /\ rel[f].existing = None /\ rel[f].name = n
  /\ \/ handle[f].gone /\ HoldsMu(f)
     \/ name[f] # n

-----------------------------------------------------------------------------
(* How a Release ends: what becomes of its buffer, and its return.           *)

\* drop and detach: the node lets go of the buffer and its temp file goes.
Drop(f) == /\ handle' = [handle EXCEPT ![f] = NoHandle]
           /\ UNCHANGED kept

\* keepUnsaved: the buffer moves out of $TMPDIR for recovery.
KeepUnsaved(f) == /\ handle' = [handle EXCEPT ![f] = NoHandle]
                  /\ kept' = kept \cup {handle[f].ver}

\* discard: a buffer marked gone is dropped, unless its upload failed for good.
Discard(f) == IF handle[f].failed THEN KeepUnsaved(f) ELSE Drop(f)

Park(f, phase, failed) ==
  /\ handle' = [handle EXCEPT ![f].phase = phase, ![f].failed = failed, ![f].due = FALSE]
  /\ UNCHANGED kept

\* A refused upload is dropped, or parked without its mark.
WrongKeepDropsRefused(f, permanent) ==
  IF permanent THEN Drop(f) ELSE Park(f, "waiting", handle[f].failed)
WrongKeepForgetsRefused(f, permanent) ==
  IF handle[f].gone THEN Discard(f)
  ELSE Park(f, IF permanent THEN "kept" ELSE "waiting", FALSE)

\* keepForRetry: what becomes of a buffer whose upload failed.
KeepForRetry(f, permanent) ==
  CASE handle[f].gone -> Discard(f)
    [] ~handle[f].gone /\ Closing -> KeepUnsaved(f)
    [] ~handle[f].gone /\ ~Closing /\ permanent -> Park(f, "kept", TRUE)
    [] OTHER -> Park(f, "waiting", handle[f].failed)

Step(f, pc) == rel' = [rel EXCEPT ![f].pc = pc]

\* The tree, or what an application expects, after a rename of from to to.
Moved(where, from, to) == [where EXCEPT ![to] = where[from], ![from] = None]

RunByRename(f) == op.pc = "renameWait" /\ op.file = f

\* The Release of f returns.  A Rename that ran it returns the same errno, and
\* go-fuse moves the inode in its tree only when that is 0.
Return(f, ok) ==
  /\ rel' = [rel EXCEPT ![f] = NoRelease]
  /\ op' = IF RunByRename(f) THEN NoOp ELSE op
  /\ IF RunByRename(f) /\ ok
     THEN tree' = Moved(tree, op.from, op.to) /\ want' = Moved(want, op.from, op.to)
     ELSE UNCHANGED <<tree, want>>

-----------------------------------------------------------------------------
(* The steps of fileHandle.Release.                                          *)

\* Read the buffer's flags and the file's name and link, then the gone check.
ReadRelease(f) ==
  /\ rel[f].pc = "start"
  /\ IF handle[f].gone \/ ~handle[f].dirty
     THEN /\ IF handle[f].gone THEN Discard(f) ELSE Drop(f)
          /\ Return(f, TRUE)
     ELSE /\ rel' = [rel EXCEPT ![f].pc = "decide", ![f].name = name[f],
                                ![f].existing = node[f]]
          /\ UNCHANGED <<handle, kept, op, tree, want>>
  /\ UNCHANGED <<listing, drive, nodeVars, mountVars, saves, acked, forgone, uploaded, races>>

\* The delay, without the exclude list.
WrongPhaseForName(f) ==
  IF rel[f].name \in Delayed /\ ~handle[f].due THEN "waiting" ELSE "releasing"

\* What the name read before asks for: no upload, a delay, or an upload now.
PhaseForName(f) ==
  CASE rel[f].name \in Excluded -> "kept"
    [] rel[f].name \in Delayed \ Excluded /\ ~handle[f].due -> "waiting"
    [] OTHER -> "releasing"

\* Park under that name, or go on to upload under it.
Decide(f) ==
  LET phase == PhaseForName(f) IN
  /\ rel[f].pc = "decide"
  /\ Park(f, phase, handle[f].failed)
  /\ IF phase = "releasing"
     THEN /\ rel' = [rel EXCEPT ![f].pc = "await", ![f].chain = replaces[f]]
          /\ UNCHANGED <<op, tree, want>>
     ELSE Return(f, TRUE)
  /\ races' = races \cup {r \in Races : /\ phase = "kept"
                                        /\ \/ r = "staleName" /\ name[f] \notin Excluded
                                           \/ r = "parkedGone" /\ handle[f].gone}
  /\ UNCHANGED <<listing, drive, nodeVars, mountVars, saves, acked, forgone, uploaded>>

\* Only the first file of the chain is waited for.
WrongAwaitReplaced(f) ==
  /\ rel[f].pc = "await" /\ rel[f].chain # None
  /\ ~HoldsMu(rel[f].chain)
  /\ rel' = [rel EXCEPT ![f].chain = None]
  /\ UNCHANGED <<treeVars, drive, nodeVars, handle, op, mountVars, fateVars>>

\* awaitReplaced: one link of the chain, whose upload is not running now.
AwaitReplaced(f) ==
  /\ rel[f].pc = "await" /\ rel[f].chain # None
  /\ ~HoldsMu(rel[f].chain)
  /\ rel' = [rel EXCEPT ![f].chain = replaces[rel[f].chain]]
  /\ UNCHANGED <<treeVars, drive, nodeVars, handle, op, mountVars, fateVars>>

\* Take uploadMu, and check gone again under it.
LockUpload(f) ==
  /\ rel[f].pc = "await" /\ rel[f].chain = None
  /\ IF handle[f].gone
     THEN Discard(f) /\ Return(f, TRUE)
     ELSE Step(f, "queued") /\ UNCHANGED <<handle, kept, op, tree, want>>
  /\ UNCHANGED <<listing, drive, nodeVars, mountVars, saves, acked, forgone, uploaded, races>>

\* One slot too few is handed out.
WrongAcquireSlot(f) ==
  /\ rel[f].pc = "queued"
  /\ Cardinality({g \in Files : HoldsSlot(g)}) + 1 < MaxUploads
  /\ rel' = [rel EXCEPT ![f].pc = "upload", ![f].ver = handle[f].ver]
  /\ UNCHANGED <<treeVars, drive, nodeVars, handle, op, mountVars, fateVars>>

AcquireSlot(f) ==
  /\ rel[f].pc = "queued"
  /\ Cardinality({g \in Files : HoldsSlot(g)}) < MaxUploads
  /\ rel' = [rel EXCEPT ![f].pc = "upload", ![f].ver = handle[f].ver]
  /\ UNCHANGED <<treeVars, drive, nodeVars, handle, op, mountVars, fateVars>>

\* The context ends first: unmount's deadline, or the rename call was interrupted.
QueueCancelled(f) ==
  /\ rel[f].pc = "queued"
  /\ \/ rel[f].by = "flush" /\ Closing
     \/ RunByRename(f)
  /\ KeepForRetry(f, FALSE)
  /\ Return(f, FALSE)
  /\ Raced(RunByRename(f), "failedRename")
  /\ UNCHANGED <<listing, drive, nodeVars, mountVars, saves, acked, forgone, uploaded>>

\* Proton refuses a create under a name an active link has.
NameTaken(f) == rel[f].existing = None /\ Active(drive, rel[f].name) # {}

\* The revision is committed with the content of the buffer at its start, or,
\* when a truncate changed it meanwhile, at the end.
Committed(f, l, v) ==
  /\ ~NameTaken(f)
  /\ IF rel[f].existing = None
     THEN l \in FreeLinks /\ \A k \in FreeLinks : l <= k
     ELSE l = rel[f].existing
  /\ v \in {rel[f].ver, handle[f].ver}
  /\ drive' = [drive EXCEPT ![l] = IF rel[f].existing = None
                   THEN [st |-> "active", name |-> rel[f].name, ver |-> v]
                   ELSE [@ EXCEPT !.ver = v]]
  /\ uploaded' = uploaded \cup {v}

UploadSucceeds(f) ==
  /\ rel[f].pc = "upload"
  /\ \E l \in Links, v \in Saves, readback \in BOOLEAN :
       /\ (IF readback THEN "ok" ELSE "noReadback") \in Outcomes
       /\ Committed(f, l, v)
       /\ rel' = [rel EXCEPT ![f].pc = "claim", ![f].up = IF readback THEN l ELSE None,
                               ![f].upName = drive'[l].name]
  /\ UNCHANGED <<treeVars, nodeVars, handle, op, mountVars, saves, acked, forgone, kept, want,
                 races>>

\* The commit reaches Proton and its answer does not come back.  (When the cleanup that
\* follows undoes it, nothing is left of it: UploadFails.)
UploadLate(f) ==
  /\ rel[f].pc = "upload" /\ "late" \in Outcomes
  /\ \E l \in Links, v \in Saves : Committed(f, l, v)
  /\ KeepForRetry(f, FALSE)
  /\ Return(f, FALSE)
  /\ Raced(RunByRename(f), "failedRename")
  /\ UNCHANGED <<listing, nodeVars, mountVars, saves, acked, forgone>>

UploadFails(f) ==
  /\ rel[f].pc = "upload"
  /\ \E permanent \in BOOLEAN :
       /\ \/ permanent /\ "refused" \in Outcomes
          \/ permanent /\ NameTaken(f)
          \/ ~permanent /\ "transient" \in Outcomes
       /\ KeepForRetry(f, permanent)
  /\ Return(f, FALSE)
  /\ Raced(RunByRename(f), "failedRename")
  /\ UNCHANGED <<listing, drive, nodeVars, mountVars, saves, acked, forgone, uploaded>>

\* The node takes the link without a look at gone.
WrongClaim(f) ==
  /\ rel[f].pc = "claim"
  /\ node' = [node EXCEPT ![f] = IF rel[f].up = None THEN @ ELSE rel[f].up]
  /\ replaces' = [replaces EXCEPT ![f] = None]
  /\ Step(f, "patch")
  /\ UNCHANGED <<treeVars, drive, name, handle, op, mountVars, fateVars>>

\* claim: the node takes the link, unless the buffer was marked gone meanwhile.
Claim(f) ==
  /\ rel[f].pc = "claim"
  /\ IF handle[f].gone
     THEN /\ IF rel[f].existing = None /\ rel[f].up # None
             THEN Step(f, "trash") /\ UNCHANGED <<handle, kept, listing, op, tree, want>>
             ELSE /\ Drop(f) /\ Return(f, TRUE)
                  /\ listing' = IF rel[f].existing = None THEN Fetched(drive) ELSE listing
          /\ UNCHANGED <<nodeVars, races>>
     ELSE /\ node' = [node EXCEPT ![f] = IF rel[f].up = None THEN @ ELSE rel[f].up]
          /\ replaces' = [replaces EXCEPT ![f] = None]
          /\ Step(f, "patch")
          /\ races' = races \cup
               {r \in Races : \/ /\ r = "unreadRename" /\ rel[f].up = None
                                 /\ node[f] # rel[f].existing /\ replaces[f] # None
                              \/ /\ r = "publishedStale" /\ rel[f].up # None
                                 /\ drive[rel[f].up].st = "trashed"}
          /\ UNCHANGED <<name, handle, kept, listing, op, tree, want>>
  /\ UNCHANGED <<drive, mountVars, saves, acked, forgone, uploaded>>

\* What the upload created stays on the drive.
WrongTrashGone(f) ==
  /\ rel[f].pc = "trash"
  /\ Drop(f)
  /\ Return(f, TRUE)
  /\ UNCHANGED <<listing, drive, nodeVars, mountVars, saves, acked, forgone, uploaded, races>>

\* Trash what an upload created for a file replaced or deleted meanwhile.
TrashGone(f) ==
  /\ rel[f].pc = "trash"
  /\ \E ok \in {TRUE, ~MetaFails} :
       drive' = IF ok THEN [drive EXCEPT ![rel[f].up].st = "trashed"] ELSE drive
  /\ Drop(f)
  /\ Return(f, TRUE)
  /\ Raced(\/ \E n \in Names : listing[n] = rel[f].up
           \/ \E g \in Files : node[g] = rel[f].up, "refreshedMidUpload")
  /\ UNCHANGED <<listing, nodeVars, mountVars, saves, acked, forgone, uploaded>>

\* Read the name again: a rename may have moved the file during the upload.
Patch(f) ==
  /\ rel[f].pc = "patch"
  /\ IF rel[f].up = None
     THEN /\ listing' = Fetched(drive)
          /\ Drop(f) /\ Return(f, TRUE)
          /\ Raced(name[f] # rel[f].name, "unreadRename")
     ELSE /\ rel' = [rel EXCEPT ![f].pc = IF name[f] = rel[f].name THEN "publish" ELSE "moveTrash",
                                ![f].to = name[f]]
          /\ UNCHANGED <<listing, handle, kept, op, tree, want, races>>
  /\ UNCHANGED <<drive, nodeVars, mountVars, saves, acked, forgone, uploaded>>

\* setNode and upsertChild of the link as it was read back.
Publish(f) ==
  /\ rel[f].pc = "publish"
  /\ node' = [node EXCEPT ![f] = rel[f].up]
  /\ name' = [name EXCEPT ![f] = rel[f].upName]
  /\ listing' = Upsert(listing, rel[f].up, rel[f].upName)
  /\ Drop(f)
  /\ Return(f, TRUE)
  /\ Raced(drive[rel[f].up].st = "trashed" \/ drive[rel[f].up].name # rel[f].upName,
           "publishedStale")
  /\ UNCHANGED <<drive, replaces, mountVars, saves, acked, forgone, uploaded>>

-----------------------------------------------------------------------------
(* dirNode.moveLink, which Rename and Release both run.                      *)

\* Trash the entry listed under to, if it is not l itself.
MoveTrash(l, to) ==
  LET dest == listing[to] IN
  IF dest \in {None, l} THEN UNCHANGED <<drive, listing>>
  ELSE /\ drive' = [drive EXCEPT ![dest].st = "trashed"]
       /\ listing' = Removed(listing, to)

\* The name of what was trashed, where its link belongs.
WrongMoveTrashed(l, to) == IF listing[to] \in {None, l} THEN None ELSE to

MoveTrashed(l, to) == IF listing[to] = l THEN None ELSE listing[to]

\* The drive refuses a name another active link has, and a trashed link.
CanMove(l, to) == drive[l].st = "active" /\ Active(drive, to) \subseteq {l}

MoveDone(l, from, to) ==
  /\ CanMove(l, to)
  /\ drive' = [drive EXCEPT ![l].name = to]
  /\ listing' = Upsert(Removed(listing, from), l, to)

\* unlinkTrashed: an edit waiting on the trashed destination uploads as a new file.
Unlinked(to, trashed) ==
  [g \in Files |-> IF /\ trashed # None /\ tree[to] = g
                      /\ HasBuf(g) /\ node[g] = trashed
                   THEN None ELSE node[g]]

ReleaseMoveTrash(f) ==
  /\ rel[f].pc = "moveTrash"
  /\ \/ /\ MoveTrash(rel[f].up, rel[f].to)
        /\ rel' = [rel EXCEPT ![f].pc = "move",
                              ![f].trashed = MoveTrashed(rel[f].up, rel[f].to)]
        /\ Raced(/\ op.pc \in {"renameReplace", "renameApply"}
                 /\ op.link # rel[f].up /\ listing[rel[f].to] = op.link, "replacedWhileMoving")
        /\ UNCHANGED <<handle, kept, op, tree, want>>
     \/ /\ MetaFails /\ MoveTrashed(rel[f].up, rel[f].to) # None
        /\ Drop(f) /\ Return(f, FALSE)
        /\ Raced(TRUE, "failedRename")
        /\ UNCHANGED <<drive, listing>>
  /\ UNCHANGED <<nodeVars, mountVars, saves, acked, forgone, uploaded>>

ReleaseMove(f) ==
  LET l == rel[f].up IN
  /\ rel[f].pc = "move"
  /\ Drop(f)
  /\ \/ /\ MoveDone(l, rel[f].name, rel[f].to)
        /\ node' = [node EXCEPT ![f] = l]
        /\ name' = [name EXCEPT ![f] = rel[f].to]
        /\ Return(f, TRUE)
        /\ races' = races \cup
             {r \in Races : \/ /\ r = "renamedWhileMoving"
                               /\ op.file = f \/ \E g \in Files \ {f} : node[g] = l
                            \/ r = "unlistedByMove" /\ listing[rel[f].name] \notin {None, l}}
     \/ /\ MetaFails \/ ~CanMove(l, rel[f].to)
        /\ node' = Unlinked(rel[f].to, rel[f].trashed)
        /\ Return(f, FALSE)
        /\ Raced(TRUE, "failedRename")
        /\ UNCHANGED <<drive, listing, name>>
  /\ UNCHANGED <<replaces, mountVars, saves, acked, forgone, uploaded>>

-----------------------------------------------------------------------------
(* What starts a Release: a close, a timer, or the unmount.                  *)

\* The Release would wait out the delay once more.
WrongSettle(f, by) ==
  /\ handle' = [handle EXCEPT ![f].phase = "releasing", ![f].dirty = TRUE]
  /\ rel' = [rel EXCEPT ![f].pc = "start", ![f].by = by]

\* settle: a parked buffer whose delay ran out is released for its upload.
Settle(f, by) ==
  /\ handle' = [handle EXCEPT ![f].phase = "releasing", ![f].dirty = TRUE, ![f].due = TRUE]
  /\ rel' = [rel EXCEPT ![f].pc = "start", ![f].by = by]

TimerFires(f) ==
  /\ handle[f].phase = "waiting" /\ mount # "exited"
  /\ Settle(f, "timer")
  /\ UNCHANGED <<treeVars, drive, nodeVars, op, mountVars, fateVars>>

\* close: it returns at once, and the kernel sends Release after it.  A save of
\* a file replaced or deleted meanwhile goes the way of the file.
Close(f) ==
  LET ver == handle[f].ver IN
  /\ handle[f].phase = "open" /\ mount # "exited"
  /\ handle' = [handle EXCEPT ![f].phase = "releasing"]
  /\ rel' = [rel EXCEPT ![f].pc = "start", ![f].by = "user"]
  /\ IF handle[f].dirty
     THEN /\ acked' = acked \cup {ver}
          /\ forgone' = IF handle[f].gone THEN forgone \cup {ver} ELSE forgone
          /\ want' = [n \in Names |-> IF tree[n] = f THEN ver ELSE want[n]]
     ELSE UNCHANGED <<acked, forgone, want>>
  /\ UNCHANGED <<treeVars, drive, nodeVars, op, mountVars, saves, uploaded, kept, races>>

-----------------------------------------------------------------------------
(* The handlers that do not hold the folder's lock.                          *)

\* unpark(true) and the reset of what the failed uploads left.
TakenBack(f, phase) ==
  [handle EXCEPT ![f].phase = phase, ![f].dirty = TRUE, ![f].failed = FALSE]

\* A buffer that is being released is taken back like a parked one.
WrongOpen(n) ==
  LET f == tree[n] IN
  /\ f # None /\ mount # "exited" /\ HasBuf(f)
  /\ handle' = TakenBack(f, "open")
  /\ UNCHANGED <<treeVars, drive, nodeVars, rel, op, mountVars, fateVars>>

\* fileNode.Open for writing.
Open(n) ==
  LET f == tree[n] IN
  /\ f # None /\ mount # "exited"
  /\ \/ /\ Parked(f)
        /\ handle' = TakenBack(f, "open")
     \/ /\ ~Pending(f) /\ ~HasBuf(f)
        /\ handle' = [handle EXCEPT ![f] = [NoHandle EXCEPT !.phase = "open"]]
  /\ Raced(n = op.to /\ op.pc \in {"retarget", "renameApply", "renameWait"},
           "openedWhileReplaced")
  /\ UNCHANGED <<treeVars, drive, nodeVars, rel, op, mountVars, saves, acked, forgone,
                 uploaded, kept, want>>

NewSave == saves < MaxSaves /\ saves' = saves + 1

\* fileHandle.Write: the first one after an open starts a new save.
Write(f) ==
  /\ handle[f].phase = "open" /\ mount # "exited"
  /\ handle[f].ver \in acked
  /\ NewSave
  /\ handle' = [handle EXCEPT ![f].ver = saves + 1, ![f].dirty = TRUE]
  /\ forgone' = forgone \cup {handle[f].ver}
  /\ UNCHANGED <<treeVars, drive, nodeVars, rel, op, mountVars, acked, uploaded, kept, want, races>>

\* fileNode.Setattr with a size: truncate(2) of a file that has a buffer.
Truncate(f) ==
  /\ Parked(f) \/ handle[f].phase = "releasing"
  /\ mount # "exited"
  /\ NewSave
  /\ handle' = [handle EXCEPT ![f].ver = saves + 1, ![f].dirty = TRUE]
  /\ acked' = acked \cup {saves + 1}
  /\ forgone' = forgone \cup (IF handle[f].gone THEN {handle[f].ver, saves + 1}
                                               ELSE {handle[f].ver})
  /\ want' = [n \in Names |-> IF tree[n] = f THEN saves + 1 ELSE want[n]]
  /\ Raced(HoldsSlot(f), "truncate")
  /\ UNCHANGED <<treeVars, drive, nodeVars, rel, op, mountVars, uploaded, kept>>

\* A load of the listing, by an expiry or an event; see DirListing.
Refresh ==
  /\ mount # "exited" /\ listing # Fetched(drive)
  /\ listing' = Fetched(drive)
  /\ UNCHANGED <<tree, drive, nodeVars, handle, rel, op, mountVars, fateVars>>

-----------------------------------------------------------------------------
(* The directory operations; the kernel runs one at a time per folder.       *)

DirIdle == op.pc = "idle" /\ mount # "exited"

\* dirNode.Lookup of an entry of the listing.
Lookup(n) ==
  /\ DirIdle /\ n \notin Excluded /\ listing[n] # None
  /\ \E f \in Files :
       /\ IF tree[n] = None THEN Fresh(f)
          ELSE f = tree[n] /\ (node[f] # listing[n] \/ name[f] # n)
       /\ tree' = [tree EXCEPT ![n] = f]
       /\ node' = [node EXCEPT ![f] = listing[n]]
       /\ name' = [name EXCEPT ![f] = n]
       /\ replaces' = IF tree[n] = None THEN [replaces EXCEPT ![f] = None] ELSE replaces
       /\ Raced(\E g \in Files \ {f} : rel[g].up = listing[n], "lookedUpMidMove")
  /\ UNCHANGED <<listing, drive, handle, rel, op, mountVars, saves, acked, forgone, uploaded,
                 kept, want>>

\* dirNode.Create, after a Lookup that found nothing under n.
Create(n) ==
  /\ DirIdle /\ NewSave
  /\ n \in Excluded \/ listing[n] = None
  /\ tree[n] # None => ~Pending(tree[n])
  /\ \E f \in Files :
       /\ Fresh(f)
       /\ tree' = [tree EXCEPT ![n] = f]
       /\ node' = [node EXCEPT ![f] = None]
       /\ name' = [name EXCEPT ![f] = n]
       /\ replaces' = [replaces EXCEPT ![f] = None]
       /\ handle' = [handle EXCEPT ![f] =
            [NoHandle EXCEPT !.phase = "open", !.ver = saves + 1, !.dirty = TRUE]]
  /\ races' = races \cup {r \in Races : \/ r = "createdOverUpload" /\ tree[n] # None
                                        \/ r = "recreatedMidUpload" /\ Leaving(n)}
  /\ UNCHANGED <<listing, drive, rel, op, mountVars, acked, forgone, uploaded, kept, want>>

\* The operation on n returns 0, and go-fuse removes the inode from its tree; given are
\* the saves the user gave up with it.
UnlinkReturns(n, given) ==
  /\ op' = NoOp
  /\ forgone' = forgone \cup (given \ {None})
  /\ tree' = [tree EXCEPT ![n] = None]
  /\ want' = [want EXCEPT ![n] = None]

\* dirNode.Unlink: unpark(false) and the Release that drops a parked buffer.
Unlink(n) ==
  LET f == tree[n]
      dropped == IF Parked(f) THEN handle[f].ver ELSE None
  IN
  /\ DirIdle /\ f # None
  /\ IF ~Parked(f) THEN UNCHANGED <<handle, kept>>
     ELSE IF handle[f].gone THEN Discard(f) ELSE Drop(f)
  /\ IF Parked(f) /\ Pending(f)
     THEN UnlinkReturns(n, {dropped})
     ELSE /\ op' = [NoOp EXCEPT !.pc = "unlinkPending", !.from = n, !.file = f,
                               !.dropped = dropped]
          /\ UNCHANGED <<forgone, tree, want>>
  /\ UNCHANGED <<listing, drive, nodeVars, rel, mountVars, saves, acked, uploaded, races>>

\* unlinkPending: a buffer still open or uploading, of a file not on the drive.
UnlinkPending ==
  LET f == op.file IN
  /\ op.pc = "unlinkPending"
  /\ IF Pending(f) /\ HasBuf(f)
     THEN /\ handle' = [handle EXCEPT ![f].gone = TRUE]
          /\ UnlinkReturns(op.from, {handle[f].ver, op.dropped})
          /\ Raced(handle[f].phase = "kept", "parkedGone")
     ELSE /\ op' = [op EXCEPT !.pc = "unlinkTrash"]
          /\ UNCHANGED <<handle, forgone, tree, want, races>>
  /\ UNCHANGED <<listing, drive, nodeVars, rel, mountVars, saves, acked, uploaded, kept>>

\* remove: the entry goes to the trash, or the call fails and the file stays.  An
\* excluded name is one of the local store, never of the drive.
UnlinkTrash ==
  LET l == IF op.from \in Excluded THEN None ELSE listing[op.from] IN
  /\ op.pc = "unlinkTrash"
  /\ \/ /\ l # None
        /\ drive' = [drive EXCEPT ![l].st = "trashed"]
        /\ listing' = Removed(listing, op.from)
        /\ UnlinkReturns(op.from, {op.dropped})
        /\ Raced(HasBuf(op.file), "deletedWhileOpen")
     \/ /\ l = None \/ MetaFails
        /\ op' = NoOp
        /\ Raced(op.dropped # None, "failedDelete")
        /\ UNCHANGED <<drive, listing, tree, want, forgone>>
  /\ UNCHANGED <<nodeVars, handle, rel, mountVars, saves, acked, uploaded, kept>>

\* The moved file does not remember the file it replaces.
WrongReplace(to, src, link) ==
  LET dst == tree[to] IN
  /\ IF dst \in {None, src} \/ ~HasBuf(dst) \/ (link # None /\ node[dst] = link)
     THEN UNCHANGED <<handle, kept, forgone>>
     ELSE /\ IF Parked(dst) THEN Discard(dst)
             ELSE handle' = [handle EXCEPT ![dst].gone = TRUE] /\ UNCHANGED kept
          /\ forgone' = forgone \cup {handle[dst].ver}
  /\ UNCHANGED replaces

\* dirNode.replace: the file under to makes way for src.  link is src's link when
\* it is on the drive; a file that has it is the moved file itself.
Replace(to, src, link) ==
  LET dst == tree[to] IN
  IF dst \in {None, src} \/ (link # None /\ node[dst] = link)
  THEN UNCHANGED <<replaces, handle, kept, forgone>>
  ELSE /\ replaces' = [replaces EXCEPT ![src] = dst]
       /\ IF HasBuf(dst)
          THEN /\ IF Parked(dst) THEN Discard(dst)
                  ELSE handle' = [handle EXCEPT ![dst].gone = TRUE] /\ UNCHANGED kept
               /\ forgone' = forgone \cup {handle[dst].ver}
          ELSE UNCHANGED <<handle, kept, forgone>>

\* What can go wrong there: src forgets the file it waited for before, or the file
\* replaced is past its last look at gone and still moves its upload to this name.
ReplaceRaces(to, src) ==
  races' = races \cup
    {r \in Races : \/ /\ r = "chainOverwritten"
                      /\ replaces[src] \notin {None, replaces'[src]}
                   \/ /\ r = "replacedWhileMoving"
                      /\ \E g \in Files : g = tree[to] /\ Relocating(g)}

\* A buffer parked for its excluded name is not released under the new one.
WrongRenameReleases(f) ==
  IF handle[f].phase = "waiting"
  THEN /\ handle' = TakenBack(f, "releasing")
       /\ rel' = [rel EXCEPT ![f].pc = "start", ![f].by = "user"]
       /\ op' = [op EXCEPT !.pc = "renameWait"]
       /\ UNCHANGED <<tree, want>>
  ELSE /\ op' = NoOp
       /\ tree' = Moved(tree, op.from, op.to)
       /\ want' = Moved(want, op.from, op.to)
       /\ UNCHANGED <<handle, rel>>

\* The end of both renames: a parked buffer is released again under its new name,
\* and the call returns with that Release; otherwise it returns now.
RenameReleases(f) ==
  IF Parked(f)
  THEN /\ handle' = TakenBack(f, "releasing")
       /\ rel' = [rel EXCEPT ![f].pc = "start", ![f].by = "user"]
       /\ op' = [op EXCEPT !.pc = "renameWait"]
       /\ UNCHANGED <<tree, want>>
  ELSE /\ op' = NoOp
       /\ tree' = Moved(tree, op.from, op.to)
       /\ want' = Moved(want, op.from, op.to)
       /\ UNCHANGED <<handle, rel>>

\* dirNode.Rename: the source is looked up in the listing.  A drive item is not
\* renamed to an excluded name (EXDEV); a name not listed is a pending file's.  An
\* excluded name of a file not pending is one of the local store.
Rename(from, to) ==
  LET l == listing[from] IN
  /\ DirIdle /\ tree[from] # None /\ from # to
  /\ l = None \/ to \notin Excluded
  /\ from \in Excluded => Pending(tree[from])
  /\ op' = [NoOp EXCEPT !.pc = IF l = None THEN "renamePending" ELSE "renameTrash",
                       !.from = from, !.to = to, !.link = l, !.file = tree[from]]
  /\ Raced(l # None /\ \E f \in Files : f = tree[from] /\ rel[f].existing # l /\ Started(f),
           "renamedTwice")
  /\ UNCHANGED <<treeVars, drive, nodeVars, handle, rel, mountVars, saves, acked, forgone,
                 uploaded, kept, want>>

\* renamePending: first replace, then the retargeting of the node.
RenamePending ==
  /\ op.pc = "renamePending"
  /\ Replace(op.to, op.file, None)
  /\ op' = [op EXCEPT !.pc = "retarget"]
  /\ ReplaceRaces(op.to, op.file)
  /\ UNCHANGED <<treeVars, drive, node, name, rel, mountVars, saves, acked, uploaded, want>>

Retarget ==
  LET f == op.file
      existing == listing[op.to]
  IN
  /\ op.pc = "retarget"
  /\ name' = [name EXCEPT ![f] = op.to]
  /\ node' = [node EXCEPT ![f] = IF existing = None THEN @ ELSE existing]
  /\ RenameReleases(f)
  /\ races' = races \cup
       {r \in Races : \/ r = "renamedWhileMoving" /\ Landing(f)
                      \/ /\ r = "renamedAfterClaim"
                         /\ \/ /\ node[f] # None
                               /\ \/ rel[f].pc # "patch" \/ rel[f].existing # None
                                  \/ existing # None
                            \/ /\ ~HasBuf(f) \/ rel[f].pc = "patch"
                               /\ tree[op.to] \notin {None, f, replaces[f]}
                      \/ /\ r = "excludedMidUpload"
                         /\ op.to \in Excluded /\ Started(f)
                      \/ /\ r = "replacedUnlisted"
                         /\ existing = None /\ tree[op.to] \notin {None, f}
                         /\ node[tree[op.to]] # None
                      \/ r = "recreatedMidUpload" /\ tree[op.to] = None /\ Leaving(op.to)}
  /\ UNCHANGED <<listing, drive, replaces, mountVars, saves, acked, forgone, uploaded, kept>>

\* moveLink of a drive item: trash the destination, then move.
RenameTrash ==
  /\ op.pc = "renameTrash"
  /\ \/ /\ MoveTrash(op.link, op.to)
        /\ op' = [op EXCEPT !.pc = "renameMove", !.trashed = MoveTrashed(op.link, op.to)]
     \/ /\ MetaFails /\ MoveTrashed(op.link, op.to) # None
        /\ op' = NoOp
        /\ UNCHANGED <<drive, listing>>
  /\ UNCHANGED <<tree, nodeVars, handle, rel, mountVars, fateVars>>

RenameMove ==
  /\ op.pc = "renameMove"
  /\ \/ /\ MoveDone(op.link, op.from, op.to)
        /\ op' = [op EXCEPT !.pc = "renameReplace"]
        /\ Raced(\E f \in Files : Landing(f) /\ rel[f].up = op.link, "renamedWhileMoving")
        /\ UNCHANGED node
     \/ /\ MetaFails \/ ~CanMove(op.link, op.to)
        /\ node' = Unlinked(op.to, op.trashed)
        /\ op' = NoOp
        /\ Raced(TRUE, "failedRename")
        /\ UNCHANGED <<drive, listing>>
  /\ UNCHANGED <<tree, name, replaces, handle, rel, mountVars, saves, acked, forgone,
                 uploaded, kept, want>>

RenameReplace ==
  /\ op.pc = "renameReplace"
  /\ Replace(op.to, op.file, op.link)
  /\ op' = [op EXCEPT !.pc = "renameApply"]
  /\ ReplaceRaces(op.to, op.file)
  /\ UNCHANGED <<treeVars, drive, node, name, rel, mountVars, saves, acked, uploaded, want>>

RenameApply ==
  LET f == op.file IN
  /\ op.pc = "renameApply"
  /\ node' = [node EXCEPT ![f] = op.link]
  /\ name' = [name EXCEPT ![f] = op.to]
  /\ RenameReleases(f)
  /\ races' = races \cup
       {r \in Races : \/ r = "renamedWhileMoving" /\ Landing(f)
                      \/ /\ r = "renamedTwice"
                         /\ \/ node[f] \notin {None, op.link}
                            \/ Started(f) /\ rel[f].existing # op.link}
  /\ UNCHANGED <<listing, drive, replaces, mountVars, saves, acked, forgone, uploaded, kept>>

-----------------------------------------------------------------------------
(* The unmount: mountState.flushDelayed, and the other ways a mount ends.    *)

Waiting == {f \in Files : handle[f].phase = "waiting"}
Settling == {f \in Files : rel[f].pc # "idle" /\ rel[f].by # "user"}

BeginFlush ==
  /\ mount = "up"
  /\ mount' = "pass1" /\ todo' = Waiting
  /\ UNCHANGED <<local, treeVars, drive, nodeVars, handle, rel, op, fateVars>>

\* The snapshot is settled whatever became of its buffers.
WrongFlushSettle(f) ==
  /\ f \in todo
  /\ todo' = todo \ {f}
  /\ Settle(f, "flush")
  /\ UNCHANGED <<treeVars, drive, nodeVars, op, mount, local, fateVars>>

\* settleDelayed: each buffer of the pass's snapshot that nothing took back.
FlushSettle(f) ==
  /\ f \in todo
  /\ todo' = todo \ {f}
  /\ IF handle[f].phase = "waiting" THEN Settle(f, "flush") ELSE UNCHANGED <<handle, rel>>
  /\ UNCHANGED <<treeVars, drive, nodeVars, op, mount, local, fateVars>>

\* waitSettling returned: the second pass, then closing.
PassDone ==
  /\ todo = {} /\ Settling = {}
  /\ \/ mount = "pass1" /\ mount' = "pass2" /\ todo' = Waiting
     \/ mount = "pass2" /\ mount' = "grace" /\ UNCHANGED todo
  /\ UNCHANGED <<local, treeVars, drive, nodeVars, handle, rel, op, fateVars>>

\* unmountFlushTimeout ran out first.
FlushDeadline ==
  /\ mount \in {"pass1", "pass2"}
  /\ mount' = "grace"
  /\ UNCHANGED <<todo, local, treeVars, drive, nodeVars, handle, rel, op, fateVars>>

\* Only what Proton refused is kept.
WrongAbandoned(f) == Parked(f) /\ handle[f].failed

\* abandon: what has a timer, or was refused, is kept for recovery.
Abandoned(f) == Parked(f) /\ (handle[f].phase = "waiting" \/ handle[f].failed)

\* Of the rest, an excluded name's buffer goes to the local store, any other is dropped.
ToLocal(n) == {f \in Files : /\ handle[f].phase = "kept" /\ ~handle[f].failed
                            /\ name[f] = n /\ n \in Excluded}

\* The uploads still running returned or unmountCancelGrace ran out; abandonKept, in the
\* order of a Go map: of the buffers of one excluded name the last one stays.
AbandonKept ==
  /\ mount = "grace"
  /\ mount' = "detaching" /\ todo' = {}
  /\ handle' = [f \in Files |-> IF Parked(f) THEN NoHandle ELSE handle[f]]
  /\ kept' = kept \cup {handle[f].ver : f \in {g \in Files : Abandoned(g)}}
  /\ \E last \in [Names -> Files] :
       /\ \A n \in Names : ToLocal(n) # {} => last[n] \in ToLocal(n)
       /\ local' = [n \in Names |-> IF ToLocal(n) = {} THEN local[n] ELSE handle[last[n]].ver]
  /\ Raced(\E n \in Names : \E f, g \in ToLocal(n) : f # g, "sharedLocalName")
  /\ UNCHANGED <<treeVars, drive, nodeVars, rel, op, saves, acked, forgone, uploaded, want>>

\* A save in a buffer, or in one that an Unlink in progress dropped.
Buffered == {handle[f].ver : f \in {g \in Files : HasBuf(g)}} \cup ({op.dropped} \ {None})
Safe == forgone \cup uploaded \cup kept \cup ({local[n] : n \in Names} \ {None})

\* The process ends; what is still buffered stays in $TMPDIR.
Exit(r) ==
  /\ mount' = "exited" /\ todo' = {}
  /\ tree' = [n \in Names |-> None] /\ listing' = [n \in Names |-> None]
  /\ node' = [f \in Files |-> None] /\ replaces' = [f \in Files |-> None]
  /\ name' = [f \in Files |-> InitialName]
  /\ handle' = [f \in Files |-> NoHandle] /\ rel' = [f \in Files |-> NoRelease]
  /\ op' = NoOp
  /\ Raced((Buffered \cap acked) \ Safe # {}, r)
  /\ UNCHANGED <<local, drive, saves, acked, forgone, uploaded, kept, want>>

Detach == mount = "detaching" /\ Exit("lateSave")

\* fusermount -u or "proton-drive-fs unmount": server.Wait returns, and Mount with it.
ExternalUnmount == mount = "up" /\ Exit("externalUnmount")

\* SIGKILL: the next daemon's stopPreviousDaemon, or systemd past its stop timeout.
Kill == mount \in {"pass1", "pass2", "grace"} /\ Exit("killed")

Terminated == mount = "exited" /\ UNCHANGED vars

-----------------------------------------------------------------------------
Init ==
  /\ listing = [n \in Names |-> IF n = InitialName THEN 1 ELSE None]
  /\ drive = [l \in Links |-> IF l = 1 THEN [st |-> "active", name |-> InitialName, ver |-> 0]
                                      ELSE NoLink]
  /\ tree = [n \in Names |-> None]
  /\ node = [f \in Files |-> None] /\ replaces = [f \in Files |-> None]
  /\ name = [f \in Files |-> InitialName]
  /\ handle = [f \in Files |-> NoHandle] /\ rel = [f \in Files |-> NoRelease]
  /\ op = NoOp /\ mount = "up" /\ todo = {} /\ local = [n \in Names |-> None]
  /\ saves = 0 /\ acked = {0} /\ uploaded = {0} /\ forgone = {} /\ kept = {}
  /\ want = [n \in Names |-> IF n = InitialName THEN 0 ELSE None]
  /\ races = {}

ReleaseStep(f) ==
  \/ ReadRelease(f) \/ Decide(f) \/ AwaitReplaced(f) \/ LockUpload(f) \/ AcquireSlot(f)
  \/ QueueCancelled(f) \/ UploadSucceeds(f) \/ UploadLate(f) \/ UploadFails(f) \/ Claim(f)
  \/ TrashGone(f) \/ Patch(f) \/ Publish(f) \/ ReleaseMoveTrash(f) \/ ReleaseMove(f)

DirStep ==
  \/ UnlinkPending \/ UnlinkTrash \/ RenamePending \/ Retarget
  \/ RenameTrash \/ RenameMove \/ RenameReplace \/ RenameApply

UserStep ==
  \/ \E n \in Names : Lookup(n) \/ Create(n) \/ Open(n) \/ Unlink(n)
  \/ \E from, to \in Names : Rename(from, to)
  \/ \E f \in Files : Write(f) \/ Truncate(f) \/ Close(f)

UnmountStep ==
  \/ BeginFlush \/ PassDone \/ FlushDeadline \/ AbandonKept
  \/ Detach \/ ExternalUnmount \/ Kill
  \/ \E f \in Files : FlushSettle(f)

MountedNext ==
  \/ \E f \in Files : ReleaseStep(f) \/ TimerFires(f)
  \/ DirStep \/ UserStep \/ Refresh

Next == MountedNext \/ UnmountStep \/ Terminated

Spec == Init /\ [][Next]_vars

\* While the mount is up: each Release runs in a goroutine of its own and each
\* directory operation in its request's, and a timer fires.  A slot of the semaphore
\* goes to whoever waits longest, and an upload tried again and again succeeds.
Fairness ==
  /\ \A f \in Files : /\ WF_vars(ReleaseStep(f))
                      /\ WF_vars(TimerFires(f))
                      /\ SF_vars(AcquireSlot(f))
                      /\ SF_vars(UploadSucceeds(f))
  /\ WF_vars(DirStep)

\* The system may rest only when no operation, Release or timer is left to run.
Idle == /\ op.pc = "idle"
        /\ \A f \in Files : rel[f].pc = "idle" /\ handle[f].phase \in {"none", "kept"}
        /\ UNCHANGED vars

MountedSpec == Init /\ [][MountedNext \/ Idle]_vars /\ Fairness

-----------------------------------------------------------------------------
(* Properties.                                                               *)

LinkOrNone == Links \cup {None}
FileOrNone == Files \cup {None}

DriveLinks == [st : {"free", "active", "trashed"}, name : Names, ver : Saves]

Buffers == [phase : Phases, ver : Saves, dirty : BOOLEAN, due : BOOLEAN,
            failed : BOOLEAN, gone : BOOLEAN]

Releases == [pc : RelSteps, by : {"user", "timer", "flush"}, name : Names,
             existing : LinkOrNone, ver : Saves, chain : FileOrNone,
             up : LinkOrNone, upName : Names, to : Names, trashed : LinkOrNone]

Operations == [pc : OpSteps, from : Names, to : Names, link : LinkOrNone,
               trashed : LinkOrNone, file : FileOrNone, dropped : Saves \cup {None}]

TreeOK    == tree \in [Names -> FileOrNone] /\ want \in [Names -> Saves \cup {None}]
FolderOK  == listing \in [Names -> LinkOrNone] /\ drive \in [Links -> DriveLinks]
NodesOK   == /\ node \in [Files -> LinkOrNone] /\ name \in [Files -> Names]
             /\ replaces \in [Files -> FileOrNone]
BuffersOK == handle \in [Files -> Buffers] /\ kept \subseteq Saves
ReleaseOK == rel \in [Files -> Releases]
OpOK      == op \in Operations /\ (op.pc # "idle" => op.file \in Files)
MountOK   == /\ mount \in MountPhases /\ todo \subseteq Files
             /\ local \in [Names -> Saves \cup {None}]
HistoryOK == /\ saves \in Saves /\ acked \subseteq Saves /\ forgone \subseteq Saves
             /\ uploaded \subseteq Saves
RacesOK   == races \subseteq Races

\* Every variable keeps its type, and an operation in progress has its file.
TypeOK == TreeOK /\ FolderOK /\ NodesOK /\ BuffersOK /\ ReleaseOK /\ OpOK /\ MountOK
          /\ HistoryOK /\ RacesOK

\* No acknowledged save is lost, whatever is closed, renamed over, deleted, reopened,
\* refused or unmounted meanwhile: it is in a buffer, on the drive, kept for recovery,
\* or the user replaced, deleted or overwrote it.  About Release, keepForRetry, discard
\* and abandonKept, which pick the one copy of the content to throw away.
LostSaves == acked \ (Safe \cup Buffered)
NoSaveLost == races \cap LosingRaces = {} => LostSaves = {}

\* Once nothing is in flight, where every request was answered and only uploads failed, the
\* drive shows under each uploadable name exactly the save an application expects there,
\* or the unmount set that save aside, however its uploads, renames and deletes were
\* interleaved.  About claim, replace, unlinkPending and moveLink, which share out the
\* work between a Release that uploads and the operation that overtakes it.
Answered  == ~MetaFails /\ Outcomes \cap {"noReadback", "late"} = {}
SetAside  == kept \cup {local[n] : n \in Names}
Quiescent == /\ op.pc = "idle" /\ mount # "exited"
             /\ \A f \in Files : handle[f].phase = "none" /\ rel[f].pc = "idle"
DriveAgrees == \A n \in Names \ Excluded :
                 IF want[n] = None THEN Active(drive, n) = {}
                 ELSE want[n] \in SetAside \/ \E l \in Active(drive, n) : drive[l].ver = want[n]
SettledDriveAgrees == Answered /\ races = {} /\ Quiescent => DriveAgrees

\* Two uploads never run at once for one link, or to create one name, where the last
\* to commit would win whichever was saved last.  About uploadMu, awaitReplaced and the
\* gone checks on either side of it.
SameTarget(f, g) ==
  /\ rel[f].existing = rel[g].existing
  /\ rel[f].existing = None => rel[f].name = rel[g].name
Uploading == {f \in Files : rel[f].pc = "upload"}
OneUploadPerTarget ==
  races = {} => \A f, g \in Uploading : SameTarget(f, g) => f = g

\* A buffer parked with no timer has a way out: it is neither deleted nor replaced, and
\* its name is still excluded or its upload was refused for good.  About the two outcomes
\* Release parks without a timer, and the renames that release such a buffer again.
NothingStranded ==
  races \cap {"staleName", "parkedGone", "excludedMidUpload"} = {} => \A f \in Files :
    handle[f].phase = "kept" => ~handle[f].gone /\ (name[f] \in Excluded \/ handle[f].failed)

\* An excluded name never reaches the drive, neither by an upload nor by a rename that
\* overtakes one.  About the exclude checks of Release and Rename.
ExcludedStaysLocal ==
  "excludedMidUpload" \notin races => \A n \in Excluded : Active(drive, n) = {}

\* A file's buffer is being released exactly while a Release runs for it: no other
\* handler takes it away meanwhile, and none leaves it behind.  About the timer, the
\* flush, a reopen, a delete and a rename, which all take a buffer back.
OwnedByRelease == \A f \in Files : rel[f].pc # "idle" <=> handle[f].phase = "releasing"

\* A Release starts only on a buffer nobody has: the timer's and the flush's on one that
\* still waits, a close's or a rename's on one that is open or parked; never on one that
\* is being released.  About unpark, which decides who of them takes it.
Starts(f) == rel[f].pc # "start" /\ rel'[f].pc = "start"
TakenByOne == [][\A f \in Files : Starts(f) =>
                   handle[f].phase \in IF rel'[f].by = "user" THEN {"open", "waiting", "kept"}
                                                             ELSE {"waiting"}]_vars

\* Every Release returns, however the wait chains of renames are linked.  About
\* awaitReplaced, which waits for another file's upload, and the slots of the semaphore.
ReleasesReturn == \A f \in Files : rel[f].pc # "idle" ~> rel[f].pc = "idle"

\* Once the applications rest, a buffer that waits is uploaded or found refused.  About
\* park, settle and keepForRetry, which hand a buffer from one timer to the next.
Resting == <>[][~UserStep]_vars
SavesSettle ==
  Resting => \A f \in Files :
    handle[f].phase = "waiting" ~> handle[f].phase \in {"none", "open", "kept"}

-----------------------------------------------------------------------------
(* What a document says without the exceptions above.                        *)

\* docs/how-it-works.md, "Unmount": what still waits is uploaded before the mount goes.
UnmountLosesNothing == mount = "exited" => LostSaves = {}
=============================================================================
