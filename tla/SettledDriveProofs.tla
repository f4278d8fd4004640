------------------------- MODULE SettledDriveProofs -------------------------
(***************************************************************************)
(* Proofs about WriteBuffer for any number of files, names, links, saves    *)
(* and upload slots: where every request was answered, the drive shows,     *)
(* once nothing is in flight, what applications expect there.               *)
(***************************************************************************)
EXTENDS UploadTurnsProofs

(***************************************************************************)
(* What the invariant speaks of.                                            *)
(***************************************************************************)

\* What is shown and expected under a name, seen as after the rename in progress from the
\* moment the drive has moved the link, or the node was retargeted.
Ahead == op.pc \in {"renameReplace", "renameApply", "renameWait"}
Shown(n)    == IF ~Ahead THEN tree[n]
               ELSE IF n = op.to THEN op.file ELSE IF n = op.from THEN None ELSE tree[n]
Expected(n) == IF ~Ahead THEN want[n]
               ELSE IF n = op.to THEN want[op.from] ELSE IF n = op.from THEN None ELSE want[n]

\* A save that has still to be uploaded.
Dirty(f) == HasBuf(f) /\ handle[f].dirty

\* The upload of a file marked gone, which its Release will trash.
Doomed(g) == handle[g].gone /\ rel[g].pc \in {"claim", "trash"}

\* A Release is about to take the link it created away from the name.
Removes(g, l, n) == rel[g].up = l /\ rel[g].existing = None /\ (name[g] # n \/ Doomed(g))
Passing(l, n) == \E g \in Files : Removes(g, l, n)
Bare(n)       == \A l \in Links : Named(l, n) => Passing(l, n)

\* The drive has what is expected under the name, and no Release is about to change it.
OnDrive(n) == \E l \in Links : /\ Named(l, n) /\ drive[l].ver = Expected(n)
                               /\ \A g \in Files : ~Has(g, l)

\* The rename in progress is of a file that meanwhile got another link: a known race, once
\* the rename is done.
Twice == /\ Moving
         /\ \/ node[op.file] \notin {None, op.link}
            \/ rel[op.file].up \notin {None, op.link}

\* Names that an operation in progress is about to settle.
Unsettled(n) ==
  \/ n = op.to /\ op.pc \in {"renameMove", "retarget"}
  \/ /\ n = op.from /\ op.pc \in {"unlinkPending", "unlinkTrash"}
     /\ op.dropped # None /\ node[op.file] # None
  \/ n \in {op.from, op.to} /\ Twice

(***************************************************************************)
(* The inductive invariant, part by part.                                   *)
(***************************************************************************)

\* A buffer against its Release and the link that was uploaded to.
Carrying(f) ==
  /\ Parked(f) \/ Started(f) \/ RunByRename(f) => handle[f].dirty
  /\ RunByRename(f) => rel[f].pc # "idle"
  /\ HasBuf(f) /\ node[f] = None => handle[f].dirty
  /\ rel[f].pc = "upload" => rel[f].ver = handle[f].ver
  /\ rel[f].pc \in Uploaded => rel[f].up # None
  /\ rel[f].up # None /\ ~handle[f].gone => drive[rel[f].up].ver = handle[f].ver
AllCarrying == \A f \in Files : Carrying(f)

\* A save that was closed is the one expected where its file is shown.
SavesExpected == \A n \in Names : \A f \in Files :
  Shown(n) = f /\ Dirty(f) /\ handle[f].phase # "open" => Expected(n) = handle[f].ver

\* A link that the listing lacks is one that a Release has created and not yet published.
Hides(g, l) == /\ rel[g].up = l /\ rel[g].existing = None
               /\ handle[g].gone => Doomed(g) \/ (op.pc = "retarget" /\ tree[op.to] = g)
Unpublished(l) == \E g \in Files : Hides(g, l)
Complete == \A l \in Links : \A n \in Names : Named(l, n) /\ listing[n] # l => Unpublished(l)

\* A name against the drive: where no file is shown, where the file has no save to upload,
\* and where the file has no link, or is being renamed as one that had none.
EmptyAgrees(n) == Shown(n) = None => IF Expected(n) = None THEN Bare(n) ELSE OnDrive(n)
CleanAgrees(n) == Shown(n) # None /\ ~Dirty(Shown(n)) =>
                    /\ Expected(n) # None
                    /\ Expected(n) \in SetAside \/ (node[Shown(n)] # None /\ OnDrive(n))
Creates(f)     == Started(f) /\ rel[f].existing = None
BareAt(n)      == \/ Shown(n) # None /\ node[Shown(n)] = None
                  \/ /\ n = op.from /\ op.pc \in {"renamePending", "retarget"}
                     /\ Creates(op.file)
PendingBare(n) == BareAt(n) =>
                    \A l \in Links : Named(l, n) => Passing(l, n) \/ rel[Shown(n)].up = l
Agrees(n) == Unsettled(n) \/ (EmptyAgrees(n) /\ CleanAgrees(n) /\ PendingBare(n))
AllAgree  == \A n \in Names : Agrees(n)

SavesInPlace == AllCarrying /\ SavesExpected
DriveInPlace == mount # "exited" => Complete /\ AllAgree
InPlace      == SavesInPlace /\ DriveInPlace

\* What holds besides.
Aside  == AllKept /\ NamesRight /\ InHand /\ LocalEmpty
Ground == Sound /\ Sound' /\ Aside /\ Answered /\ races' = {}

(***************************************************************************)
(* The views.                                                               *)
(***************************************************************************)

LEMMA OpPlace ==
  ASSUME Sound
  PROVE  /\ op.from \in Names /\ op.to \in Names
         /\ op.pc \notin {"idle", "unlinkPending", "unlinkTrash"} =>
              op.from # op.to /\ op.file \in Files /\ tree[op.from] = op.file
         /\ op.pc # "idle" => op.file \in Files /\ tree[op.from] = op.file
BY OpFiles DEF Sound, TreeInv, OpFile, Inv, RenameInv, RenameShape, TypeOK, OpOK, Operations

LEMMA ViewTypes ==
  ASSUME Sound, NEW n \in Names
  PROVE  Shown(n) \in FileOrNone /\ Expected(n) \in Saves \cup {None}
<1>1. /\ \A m \in Names : tree[m] \in FileOrNone /\ want[m] \in Saves \cup {None}
      /\ op.from \in Names
  BY OpFiles DEF Sound, TypeOK, TreeOK
<1> QED
  BY <1>1, OpPlace DEF Shown, Expected, Ahead, FileOrNone

LEMMA SameViews ==
  ASSUME UNCHANGED <<tree, op>>
  PROVE  \A n : Shown(n)' = Shown(n) /\ (want' = want => Expected(n)' = Expected(n))
BY DEF Shown, Expected, Ahead

\* A Release that returns leaves the views as they are.
LEMMA ReturnViews ==
  ASSUME Sound, NEW f \in Files, NEW ok, Return(f, ok), ok \/ ~RunByRename(f)
  PROVE  /\ \A n \in Names : Shown(n)' = Shown(n) /\ Expected(n)' = Expected(n)
         /\ op.pc # "renameWait" => UNCHANGED <<op, tree, want>>
         /\ op' = op \/ (op.pc = "renameWait" /\ op' = NoOp)
<1>1. CASE RunByRename(f)
  <2>1. /\ op.pc = "renameWait" /\ op' = NoOp /\ op.from # op.to /\ tree[op.from] = op.file
        /\ tree' = Moved(tree, op.from, op.to) /\ want' = Moved(want, op.from, op.to)
    BY <1>1, OpPlace DEF Return, RunByRename
  <2>2. tree \in [Names -> FileOrNone] /\ want \in [Names -> Saves \cup {None}]
    BY DEF Sound, TypeOK, TreeOK
  <2> QED
    BY <2>1, <2>2, OpPlace DEF Moved, Shown, Expected, Ahead, NoOp
<1>2. CASE ~RunByRename(f)
  <2>1. UNCHANGED <<op, tree, want>>
    BY <1>2 DEF Return
  <2> QED
    BY <2>1, SameViews
<1> QED
  BY <1>1, <1>2

\* A file with a save to upload is shown where its link is, or has just left from there.
LEMMA TakesOn ==
  ASSUME Sound, NEW f \in Files, HasBuf(f), ~handle[f].gone, ~Relocating(f), node[f] # None,
         NEW n \in Names, Named(node[f], n)
  PROVE  Shown(n) = f \/ (Shown(n) = None /\ Expected(n) = None)
<1> USE DEF Sound
<1>1. Seated(f) /\ Place(f, n)
  BY NamedPlace DEF Inv, FileInv, BufferShown
<1>2. CASE op.pc \in {"renameApply", "renameWait"} /\ tree[op.to] = f
  <2>1. FALSE
    BY <1>2 DEF Inv, FileInv, DestGone, Replaced
  <2> QED
    BY <2>1
<1>3. CASE op.pc = "renameReplace" /\ n = op.to /\ f # op.file
  <2>1. node[f] = op.link
    <3>1. Named(op.link, n) /\ op.link \in Links /\ node[f] \in Links
      BY <1>3, OpFiles, FileTypes DEF Inv, RenameInv, MovedRight, RenameShape, Moving, Linked, LinkOrNone
    <3> QED
      BY <3>1 DEF Inv, DriveInv, OneActive
  <2>2. FALSE
    BY <2>1, <1>1, <1>3 DEF Inv, RenameInv, MovedOwn, Linked, Out
  <2> QED
    BY <2>2
<1>4. CASE Ahead /\ ~(op.pc \in {"renameApply", "renameWait"} /\ tree[op.to] = f)
                 /\ ~(op.pc = "renameReplace" /\ n = op.to /\ f # op.file)
  <2>1. /\ op.from \in Names /\ op.to \in Names /\ op.from # op.to /\ op.file \in Files
        /\ tree[op.from] = op.file
    BY <1>4, OpPlace DEF Ahead
  <2>2. \A m \in Names : tree[m] = f /\ f = op.file => m = op.from
    BY <2>1, WriteBufferAssumption DEF TreeInv, OneName
  <2> QED
    BY <1>1, <1>4, <2>1, <2>2, WriteBufferAssumption DEF Ahead, Moving, Place, Shown, Expected
<1>5. CASE ~Ahead
  BY <1>1, <1>5 DEF Ahead, Moving, Place, Shown
<1> QED
  BY <1>2, <1>3, <1>4, <1>5 DEF Ahead

(***************************************************************************)
(* Steps that leave the drive, the listing and the nodes alone: a Release   *)
(* that has uploaded nothing, or whoever writes into a buffer.              *)
(***************************************************************************)

Quiet(f) ==
  /\ UNCHANGED <<listing, drive, node, name, local>> /\ kept \subseteq kept'
  /\ mount' # "exited" => mount # "exited"
  /\ \A g \in Files : g # f => rel'[g] = rel[g] /\ handle'[g] = handle[g]
  /\ rel[f].up = None /\ rel'[f].up = None
  /\ \A n \in Names : /\ Shown(n)' = Shown(n)
                      /\ Expected(n)' = Expected(n) \/ (Shown(n) = f /\ Dirty(f)')
  /\ UNCHANGED <<op, tree>> \/ (op.pc = "renameWait" /\ op' = NoOp)
  /\ \A l : Has(f, l)' => \/ Has(f, l)
                          \/ l = node[f] /\ Dirty(f) /\ ~handle[f].gone
  /\ Dirty(f) => \/ Dirty(f)'
                 \/ \A n \in Names : Shown(n) = f => Unsettled(n) \/ Expected(n) \in kept'
  /\ Creates(f)' => Creates(f) \/ node[f] = None
  \* What the Release and the buffer are left with.
  /\ Carrying(f)'
  /\ \A n \in Names : Shown(n) = f /\ Dirty(f)' /\ handle'[f].phase # "open" =>
       Expected(n)' = handle'[f].ver

LEMMA NoneIsNone ==
  /\ None \notin Links /\ None \notin Files /\ None \notin Saves /\ None \notin Names
  /\ \A l \in LinkOrNone : l # None => l \in Links
  /\ \A f \in FileOrNone : f # None => f \in Files
BY WriteBufferAssumption DEF Links, Saves, LinkOrNone, FileOrNone

LEMMA BareShown ==
  ASSUME Sound, NEW n \in Names, BareAt(n)
  PROVE  /\ Shown(n) \in Files
         /\ ~(Shown(n) # None /\ node[Shown(n)] = None) => n = op.from /\ Shown(n) = op.file
BY OpPlace, ViewTypes, NoneIsNone DEF BareAt, Shown, Ahead

LEMMA QuietKeeps ==
  ASSUME Ground, InPlace, NEW f \in Files, Quiet(f)
  PROVE  InPlace'
<1> USE DEF Ground
<1>o. \A g \in Files : g # f => rel'[g] = rel[g] /\ handle'[g] = handle[g]
  BY DEF Quiet
<1>d. UNCHANGED <<listing, drive, node, name, local>> /\ kept \subseteq kept'
  BY DEF Quiet
<1>v. \A n \in Names : /\ Shown(n)' = Shown(n)
                       /\ Expected(n)' = Expected(n) \/ (Shown(n) = f /\ Dirty(f)')
  BY DEF Quiet
<1>p. UNCHANGED <<op, tree>> \/ (op.pc = "renameWait" /\ op' = NoOp)
  BY DEF Quiet
<1>u. rel[f].up = None /\ rel'[f].up = None
  BY DEF Quiet
<1>r. \A g \in Files : RunByRename(g)' => RunByRename(g)
  BY <1>p DEF RunByRename, NoOp
<1>b. \A g \in Files : g # f => /\ Dirty(g)' <=> Dirty(g)
                                /\ Doomed(g)' <=> Doomed(g)
                                /\ \A l : Has(g, l)' <=> Has(g, l)
  BY <1>o, SameAims DEF Dirty, HasBuf, Doomed
<1>n. \A l : \A n : Named(l, n)' <=> Named(l, n)
  BY <1>d, SameDrive
<1>a. \A l \in Links : \A n : Passing(l, n) => Passing(l, n)'
  BY <1>o, <1>b, <1>d, <1>u, NoneIsNone DEF Passing, Removes
<1>s. \A n \in Names : Unsettled(n) => Unsettled(n)'
  <2>1. CASE UNCHANGED <<op, tree>>
    <3>1. op.pc # "idle" => op.file \in Files
      BY OpPlace
    <3>2. Twice => Twice'
      BY <2>1, <3>1, <1>o, <1>u, <1>d DEF Twice, Moving
    <3> QED
      BY <2>1, <3>2, <1>d DEF Unsettled
  <2>2. CASE op.pc = "renameWait" /\ op' = NoOp
    BY <2>2 DEF Unsettled, Twice, Moving
  <2> QED
    BY <1>p, <2>1, <2>2
<1>l. \A n \in Names : Expected(n)' = Expected(n) /\ Expected(n) # None /\ OnDrive(n)
                       /\ ~(Shown(n) = f /\ Dirty(f)) => OnDrive(n)'
  <2> SUFFICES ASSUME NEW n \in Names, Expected(n)' = Expected(n), Expected(n) # None, OnDrive(n),
                      ~(Shown(n) = f /\ Dirty(f))
               PROVE  OnDrive(n)'
    OBVIOUS
  <2>1. PICK l \in Links : Named(l, n) /\ drive[l].ver = Expected(n) /\ \A g \in Files : ~Has(g, l)
    BY DEF OnDrive
  <2>2. ~Has(f, l)'
    <3> SUFFICES ASSUME l = node[f], Dirty(f), ~handle[f].gone PROVE FALSE
      BY <2>1 DEF Quiet
    <3>1. ~Relocating(f)
      BY <1>u, NothingUploaded DEF InPlace, SavesInPlace, AllCarrying, Carrying
    <3> QED
      BY <3>1, <2>1, TakesOn, NoneIsNone DEF Dirty
  <2> QED
    BY <2>1, <2>2, <1>b, <1>d, <1>n DEF OnDrive
<1>1. AllCarrying'
  <2>1. ASSUME NEW g \in Files, g # f PROVE Carrying(g)'
    BY <2>1, <1>o, <1>d, <1>r DEF InPlace, SavesInPlace, AllCarrying, Carrying, Parked, Started, HasBuf
  <2> QED
    BY <2>1 DEF AllCarrying, Quiet
<1>2. SavesExpected'
  <2>1. ASSUME NEW n \in Names, NEW g \in Files, g # f, Shown(n) = g, Dirty(g)',
               handle'[g].phase # "open"
        PROVE  Expected(n)' = handle'[g].ver
    BY <2>1, <1>o, <1>b, <1>v DEF InPlace, SavesInPlace, SavesExpected
  <2> QED
    BY <2>1, <1>v DEF SavesExpected, Quiet
<1>3. Complete => Complete'
  <2>1. \A l \in Links : Unpublished(l) => Unpublished(l)'
    BY <1>o, <1>b, <1>u, <1>p, NoneIsNone DEF Unpublished, Hides
  <2> QED
    BY <2>1, <1>n, <1>d DEF Complete
<1>4. ASSUME NEW n \in Names, Agrees(n) PROVE Agrees(n)'
  <2>1. SUFFICES ASSUME ~Unsettled(n), EmptyAgrees(n), CleanAgrees(n), PendingBare(n)
                 PROVE  Agrees(n)'
    BY <1>4, <1>s DEF Agrees
  <2>2. EmptyAgrees(n)'
    BY <2>1, <1>v, <1>l, <1>a, <1>n, NoneIsNone DEF EmptyAgrees, Bare
  <2>3. CleanAgrees(n)'
    <3> SUFFICES ASSUME Shown(n) # None, ~Dirty(Shown(n))'
                 PROVE  /\ Expected(n)' # None
                        /\ Expected(n)' \in SetAside' \/ (node[Shown(n)] # None /\ OnDrive(n)')
      BY <1>v, <1>d DEF CleanAgrees, Dirty, HasBuf
    <3>1. Shown(n) \in Files /\ Expected(n) \in Saves \cup {None}
      BY ViewTypes, NoneIsNone
    <3>2. Expected(n)' = Expected(n) /\ SetAside \subseteq SetAside' /\ kept' \subseteq SetAside'
      BY <1>v, <1>d DEF SetAside, Dirty, HasBuf
    <3>3. CASE ~Dirty(Shown(n))
      BY <3>2, <3>3, <2>1, <1>l DEF CleanAgrees
    <3>4. CASE Dirty(Shown(n))
      <4>1. Shown(n) = f
        BY <3>1, <3>4, <1>b, <1>v DEF Dirty, HasBuf
      <4>2. Expected(n) \in kept'
        BY <4>1, <3>4, <2>1 DEF Quiet
      <4> QED
        BY <4>2, <3>2, NoneIsNone DEF Sound, TypeOK, BuffersOK
    <3> QED
      BY <3>3, <3>4
  <2>4. PendingBare(n)'
    <3>2. \A g \in Files : \A l \in Links : rel[g].up = l => rel'[g].up = l
      BY <1>o, <1>u, NoneIsNone
    <3>3. BareAt(n)' => BareAt(n)
      <4>1. CASE UNCHANGED <<op, tree>>
        <5>1. op.pc # "idle" => op.file \in Files /\ tree[op.from] = op.file
          BY OpPlace
        <5>2. op.pc \in {"renamePending", "retarget"} => Shown(op.from) = op.file
          BY <5>1 DEF Shown, Ahead
        <5>3. op.file = f /\ Creates(f)' => Creates(f) \/ node[f] = None
          BY DEF Quiet
        <5>4. op.file \in Files /\ op.file # f => (Creates(op.file)' <=> Creates(op.file))
          BY <4>1, <1>o DEF Creates, Started
        <5> QED
          BY <4>1, <5>1, <5>2, <5>3, <5>4, <1>v, <1>d, NoneIsNone DEF BareAt
      <4>2. CASE op.pc = "renameWait" /\ op' = NoOp
        BY <4>2, <1>v, <1>d DEF BareAt, NoOp
      <4> QED
        BY <4>1, <4>2, <1>p
    <3> QED
      BY <2>1, <3>2, <3>3, <1>v, <1>a, <1>n, BareShown DEF PendingBare
  <2> QED
    BY <2>2, <2>3, <2>4 DEF Agrees
<1> QED
  BY <1>1, <1>2, <1>3, <1>4 DEF InPlace, SavesInPlace, DriveInPlace, AllAgree, Quiet

(***************************************************************************)
(* A Release that has uploaded nothing.                                     *)
(***************************************************************************)

\* Where a file marked gone is still shown, the rename in progress is about to settle.
LEMMA GoneUnsettled ==
  ASSUME Sound, NEW f \in Files, handle[f].gone, NEW n \in Names, Shown(n) = f
  PROVE  Unsettled(n)
<1> USE DEF Sound
<1>1. Seated(f) => Replaced(f)
  BY DEF Inv, FileInv, GoneRight
<1>2. \A k, m \in Names : tree[k] = f /\ tree[m] = f => k = m
  BY NoneIsNone DEF TreeInv, OneName
<1>3. CASE ~Ahead
  BY <1>1, <1>2, <1>3, OpPlace DEF Shown, Seated, Replaced, Ahead, Unsettled
<1>4. CASE Ahead
  <2>1. op.from \in Names /\ op.to \in Names /\ op.from # op.to /\ tree[op.from] = op.file
    BY <1>4, OpPlace DEF Ahead
  <2> QED
    BY <1>1, <1>2, <1>4, <2>1, NoneIsNone DEF Shown, Seated, Replaced, Ahead
<1> QED
  BY <1>3, <1>4

\* What it leaves behind when it returns: a buffer as it was, or one that may go.
LEMMA QuietReturn ==
  ASSUME Ground, InPlace, NEW f \in Files, NEW ok, Return(f, ok), ok \/ ~RunByRename(f),
         rel[f].pc # "idle", rel[f].pc \notin Uploaded,
         UNCHANGED <<listing, drive, node, name, local, mount>>, kept \subseteq kept',
         \A g \in Files : g # f => handle'[g] = handle[g],
         \/ /\ handle'[f] = NoHandle
            /\ handle[f].gone \/ ~handle[f].dirty \/ handle[f].ver \in kept'
         \/ /\ handle[f].dirty /\ handle'[f].dirty /\ handle'[f].ver = handle[f].ver
            /\ HasBuf(f)'
  PROVE  Quiet(f)
<1> USE DEF Ground
<1>1. /\ \A g \in Files : g # f => rel'[g] = rel[g]
      /\ rel'[f] = NoRelease
  BY DEF Return, Sound, TypeOK, ReleaseOK
<1>2. /\ \A n \in Names : Shown(n)' = Shown(n) /\ Expected(n)' = Expected(n)
      /\ UNCHANGED <<op, tree>> \/ (op.pc = "renameWait" /\ op' = NoOp)
  BY ReturnViews DEF Return, RunByRename
<1>3. rel[f].up = None /\ HasBuf(f) /\ handle[f].phase = "releasing"
  BY NothingUploaded, BufferOfRelease
<1>4. ~RunByRename(f)'
  BY DEF Return, RunByRename, NoOp
<1>5. /\ rel'[f].up = None /\ rel'[f].pc = "idle" /\ ~Started(f)'
      /\ NoHandle.phase = "none"
  BY <1>1 DEF NoRelease, Started, NoHandle
<1>6. \A n \in Names : Shown(n) = f /\ handle[f].dirty => Expected(n) = handle[f].ver
  BY <1>3 DEF InPlace, SavesInPlace, SavesExpected, Dirty
<1>7. Dirty(f) => \/ Dirty(f)'
                  \/ \A n \in Names : Shown(n) = f => Unsettled(n) \/ Expected(n) \in kept'
  <2>1. CASE handle[f].gone
    BY <2>1, GoneUnsettled
  <2>2. CASE ~handle[f].gone
    <3>1. CASE ~handle[f].dirty \/ handle[f].ver \in kept'
      BY <3>1, <1>6 DEF Dirty
    <3>2. CASE HasBuf(f)' /\ handle'[f].dirty
      BY <3>2 DEF Dirty
    <3> QED
      BY <2>2, <3>1, <3>2
  <2> QED
    BY <2>1, <2>2
<1>8. Carrying(f)'
  BY <1>4, <1>5 DEF Carrying, HasBuf, Parked, Uploaded
<1>9. \A l : ~Has(f, l)'
  BY <1>5 DEF Has, Live
<1> QED
  BY <1>1, <1>2, <1>3, <1>5, <1>6, <1>7, <1>8, <1>9 DEF Quiet, Dirty, HasBuf, Creates

\* What a failed upload leaves of the buffer.
LEMMA RetryLeft ==
  ASSUME Sound, NEW f \in Files, NEW permanent \in BOOLEAN, KeepForRetry(f, permanent)
  PROVE  /\ \A g \in Files : g # f => handle'[g] = handle[g]
         /\ kept \subseteq kept'
         /\ \/ handle'[f] = NoHandle /\ (handle[f].gone \/ handle[f].ver \in kept')
            \/ /\ handle'[f].dirty = handle[f].dirty /\ handle'[f].ver = handle[f].ver
               /\ HasBuf(f)'
<1> USE DEF Sound
<1>1. handle \in [Files -> Buffers]
  BY DEF TypeOK, BuffersOK
<1>2. CASE handle[f].gone \/ Closing
  BY <1>1, <1>2 DEF KeepForRetry, Discard, KeepUnsaved, Drop
<1>3. CASE ~handle[f].gone /\ ~Closing
  <2>1. PICK phase \in {"kept", "waiting"}, failed \in BOOLEAN : Park(f, phase, failed)
    BY <1>1, <1>3 DEF KeepForRetry, Buffers
  <2>2. handle'[f].phase = phase
    BY <2>1, ParkedBuffer
  <2> QED
    BY <2>1, <2>2, ParkedBuffer DEF HasBuf, Park
<1> QED
  BY <1>2, <1>3

\* A Release under way carries a save.
LEMMA StartedDirty ==
  ASSUME InPlace, NEW f \in Files, Started(f)
  PROVE  handle[f].dirty
BY DEF InPlace, SavesInPlace, AllCarrying, Carrying

LEMMA EarlyReturnInPlace ==
  ASSUME Ground, InPlace, NEW f \in Files,
         \/ ReadRelease(f) /\ (handle[f].gone \/ ~handle[f].dirty)
         \/ Decide(f) /\ PhaseForName(f) # "releasing"
         \/ LockUpload(f) /\ handle[f].gone
         \/ QueueCancelled(f) \/ UploadFails(f)
  PROVE  InPlace'
<1> USE DEF Ground
<1>t. handle \in [Files -> Buffers]
  BY DEF Sound, TypeOK, BuffersOK
<1>1. CASE ReadRelease(f) /\ (handle[f].gone \/ ~handle[f].dirty)
  <2>1. /\ rel[f].pc = "start" /\ Return(f, TRUE) /\ kept \subseteq kept'
        /\ handle' = [handle EXCEPT ![f] = NoHandle]
        /\ UNCHANGED <<listing, drive, node, name, local, mount>>
    BY <1>1 DEF ReadRelease, Discard, KeepUnsaved, Drop, nodeVars, mountVars
  <2>2. rel[f].pc # "idle" /\ rel[f].pc \notin Uploaded
    BY <2>1 DEF Uploaded
  <2>3. handle'[f] = NoHandle /\ \A g \in Files : g # f => handle'[g] = handle[g]
    BY <2>1, <1>t
  <2>4. Quiet(f)
    BY <1>1, <2>1, <2>2, <2>3, QuietReturn
  <2> QED
    BY <2>4, QuietKeeps
<1>2. CASE Decide(f) /\ PhaseForName(f) # "releasing"
  <2>1. /\ rel[f].pc = "decide" /\ Return(f, TRUE) /\ kept \subseteq kept'
        /\ Park(f, PhaseForName(f), handle[f].failed)
        /\ UNCHANGED <<listing, drive, node, name, local, mount>>
    BY <1>2 DEF Decide, Park, nodeVars, mountVars
  <2>2. rel[f].pc # "idle" /\ rel[f].pc \notin Uploaded /\ handle[f].dirty
    BY <2>1, StartedDirty DEF Uploaded, Started
  <2>3. /\ handle'[f].dirty = handle[f].dirty /\ handle'[f].ver = handle[f].ver
        /\ handle'[f].phase = PhaseForName(f)
        /\ \A g \in Files : g # f => handle'[g] = handle[g]
    BY <2>1, ParkedBuffer DEF Sound
  <2>4. Quiet(f)
    BY <2>1, <2>2, <2>3, QuietReturn DEF HasBuf, PhaseForName
  <2> QED
    BY <2>4, QuietKeeps
<1>3. CASE LockUpload(f) /\ handle[f].gone
  <2>1. /\ rel[f].pc = "await" /\ Return(f, TRUE) /\ kept \subseteq kept'
        /\ handle' = [handle EXCEPT ![f] = NoHandle]
        /\ UNCHANGED <<listing, drive, node, name, local, mount>>
    BY <1>3 DEF LockUpload, Discard, KeepUnsaved, Drop, nodeVars, mountVars
  <2>2. rel[f].pc # "idle" /\ rel[f].pc \notin Uploaded
    BY <2>1 DEF Uploaded
  <2>3. handle'[f] = NoHandle /\ \A g \in Files : g # f => handle'[g] = handle[g]
    BY <2>1, <1>t
  <2>4. Quiet(f)
    BY <1>3, <2>1, <2>2, <2>3, QuietReturn
  <2> QED
    BY <2>4, QuietKeeps
<1>4. CASE QueueCancelled(f) \/ UploadFails(f)
  <2>1. PICK permanent \in BOOLEAN : KeepForRetry(f, permanent)
    BY <1>4 DEF QueueCancelled, UploadFails
  <2>2. /\ rel[f].pc \in {"queued", "upload"} /\ Return(f, FALSE) /\ ~RunByRename(f)
        /\ UNCHANGED <<listing, drive, node, name, local, mount>>
    BY <1>4 DEF QueueCancelled, UploadFails, Raced, nodeVars, mountVars
  <2>3. rel[f].pc # "idle" /\ rel[f].pc \notin Uploaded /\ handle[f].dirty
    BY <2>2, StartedDirty DEF Uploaded, Started
  <2>4. Quiet(f)
    BY <2>1, <2>2, <2>3, RetryLeft, QuietReturn
  <2> QED
    BY <2>4, QuietKeeps
<1> QED
  BY <1>1, <1>2, <1>3, <1>4

\* What it does on the way to its upload.
LEMMA QuietGoesOn ==
  ASSUME Ground, InPlace, NEW f \in Files, Proceeds(f), Still,
         rel[f].pc \notin Uploaded, rel'[f].pc \notin Uploaded,
         rel'[f].pc = "upload" => rel'[f].ver = handle[f].ver,
         UNCHANGED <<want, local, kept, mount>>,
         \A g \in Files : g # f => handle'[g] = handle[g],
         handle'[f].dirty = handle[f].dirty, handle'[f].ver = handle[f].ver
  PROVE  Quiet(f)
<1> USE DEF Ground
<1>1. /\ \A g \in Files : g # f => rel'[g] = rel[g]
      /\ rel'[f].existing = rel[f].existing /\ rel'[f].up = rel[f].up
      /\ Started(f) /\ Started(f)' /\ (Live(f)' <=> Live(f)) /\ (HasBuf(f)' <=> HasBuf(f))
  BY DEF Proceeds
<1>2. UNCHANGED <<tree, listing, drive, node, name, replaces, op>>
  BY DEF Still
<1>3. rel[f].up = None /\ handle[f].dirty /\ HasBuf(f) /\ handle[f].phase = "releasing"
  BY <1>1, NothingUploaded, StartedDirty, BufferOfRelease DEF Started
<1>4. \A n : Shown(n)' = Shown(n) /\ Expected(n)' = Expected(n)
  BY <1>2, SameViews
<1>5. \A l : Has(f, l)' => Has(f, l)
  BY <1>1 DEF Has
<1>6. Carrying(f)'
  BY <1>1, <1>3 DEF Carrying, Started
<1>7. \A n \in Names : Shown(n) = f => Expected(n) = handle[f].ver
  BY <1>3 DEF InPlace, SavesInPlace, SavesExpected, Dirty
<1> QED
  BY <1>1, <1>2, <1>3, <1>4, <1>5, <1>6, <1>7 DEF Quiet, Dirty, Creates

LEMMA EarlyStepInPlace ==
  ASSUME Ground, InPlace, NEW f \in Files,
         \/ Decide(f) /\ PhaseForName(f) = "releasing"
         \/ LockUpload(f) /\ ~handle[f].gone
         \/ AwaitReplaced(f) \/ AcquireSlot(f)
  PROVE  InPlace'
<1> USE DEF Ground
<1>1. Proceeds(f) /\ Still
  BY DecideProceeds, LockUploadProceeds, AwaitReplacedProceeds, AcquireSlotProceeds
<1>2. rel[f] \in Releases /\ rel \in [Files -> Releases]
  BY FileTypes DEF Sound, TypeOK, ReleaseOK
<1>3. /\ rel[f].pc \in {"decide", "await", "queued"}
      /\ rel'[f].pc \in {"await", "queued", "upload"}
      /\ rel'[f].pc = "upload" => rel'[f].ver = handle[f].ver
  <2>1. CASE Decide(f) /\ PhaseForName(f) = "releasing"
    BY <1>2, <2>1 DEF Decide, Releases
  <2>2. CASE LockUpload(f) /\ ~handle[f].gone
    BY <1>2, <2>2 DEF LockUpload, Step, Releases
  <2>3. CASE AwaitReplaced(f)
    BY <1>2, <2>3 DEF AwaitReplaced, Releases
  <2>4. CASE AcquireSlot(f)
    BY <1>2, <2>4 DEF AcquireSlot, Releases
  <2> QED
    BY <2>1, <2>2, <2>3, <2>4
<1>4. UNCHANGED <<want, local, kept, mount>>
  BY DEF Decide, LockUpload, AwaitReplaced, AcquireSlot, Park, mountVars, fateVars
<1>5. /\ \A g \in Files : g # f => handle'[g] = handle[g]
      /\ handle'[f].dirty = handle[f].dirty /\ handle'[f].ver = handle[f].ver
  BY ParkedBuffer DEF Decide, LockUpload, AwaitReplaced, AcquireSlot, Sound
<1>6. Quiet(f)
  BY <1>1, <1>3, <1>4, <1>5, QuietGoesOn DEF Uploaded
<1> QED
  BY <1>6, QuietKeeps

\* It reads the link of its file, which has a save to upload there.
LEMMA ReadReleaseInPlace ==
  ASSUME Ground, InPlace, NEW f \in Files, ReadRelease(f), ~handle[f].gone, handle[f].dirty
  PROVE  InPlace'
<1> USE DEF Ground
<1>1. /\ rel[f].pc = "start" /\ handle' = handle
      /\ rel' = [rel EXCEPT ![f].pc = "decide", ![f].name = name[f], ![f].existing = node[f]]
      /\ UNCHANGED <<listing, drive, node, name, local, kept, mount, op, tree, want>>
  BY DEF ReadRelease, nodeVars, mountVars
<1>2. /\ \A g \in Files : g # f => rel'[g] = rel[g]
      /\ rel'[f].pc = "decide" /\ rel'[f].existing = node[f] /\ rel'[f].up = rel[f].up
  BY <1>1 DEF Sound, TypeOK, ReleaseOK, Releases
<1>3. rel[f].up = None /\ HasBuf(f) /\ handle[f].phase = "releasing"
  BY <1>1, NothingUploaded, BufferOfRelease DEF Uploaded
<1>4. \A n : Shown(n)' = Shown(n) /\ Expected(n)' = Expected(n)
  BY <1>1, SameViews
<1>5. \A l : Has(f, l)' => l = node[f]
  BY <1>2, <1>3 DEF Has
<1>6. Carrying(f)'
  BY <1>1, <1>2, <1>3 DEF Carrying, Uploaded
<1>7. \A n \in Names : Shown(n) = f => Expected(n) = handle[f].ver
  BY <1>3 DEF InPlace, SavesInPlace, SavesExpected, Dirty
<1>8. Quiet(f)
  BY <1>1, <1>2, <1>3, <1>4, <1>5, <1>6, <1>7 DEF Quiet, Dirty, HasBuf, Creates, Started
<1> QED
  BY <1>8, QuietKeeps

(***************************************************************************)
(* Who starts a Release, or writes into a buffer.                           *)
(***************************************************************************)

\* What is expected changes wherever the file is shown.
LEMMA WantViews ==
  ASSUME Sound, NEW f \in Files, NEW v, UNCHANGED <<op, tree>>,
         want' = [n \in Names |-> IF tree[n] = f THEN v ELSE want[n]]
  PROVE  \A n \in Names : /\ Shown(n)' = Shown(n)
                          /\ Expected(n)' = IF Shown(n) = f THEN v ELSE Expected(n)
<1>1. CASE Ahead
  <2>1. op.from \in Names /\ op.to \in Names /\ tree[op.from] = op.file
    BY <1>1, OpPlace DEF Ahead
  <2> QED
    BY <1>1, <2>1, NoneIsNone DEF Ahead, Shown, Expected
<1>2. CASE ~Ahead
  BY <1>2 DEF Ahead, Shown, Expected
<1> QED
  BY <1>1, <1>2

\* A buffer that no Release has.
LEMMA RestingBuffer ==
  ASSUME Sound, NEW f \in Files, handle[f].phase # "releasing"
  PROVE  /\ rel[f].pc = "idle" /\ rel[f].up = None /\ rel[f].existing = None
         /\ \A l : ~Has(f, l)
<1>1. rel[f].pc = "idle"
  BY DEF Sound, OwnedByRelease
<1> QED
  BY <1>1, LocalsShape DEF ShapeOf, Started, Has, Live

LEMMA SettleInPlace ==
  ASSUME Ground, InPlace, NEW f \in Files, NEW by, Settle(f, by), handle[f].phase = "waiting",
         UNCHANGED <<tree, listing, drive, node, name, local, kept, want, op, mount>>
  PROVE  InPlace'
<1> USE DEF Ground
<1>1. /\ \A g \in Files : g # f => rel'[g] = rel[g] /\ handle'[g] = handle[g]
      /\ handle'[f].phase = "releasing" /\ handle'[f].dirty /\ handle'[f].ver = handle[f].ver
      /\ rel'[f].pc = "start" /\ rel'[f].up = rel[f].up
  BY DEF Settle, Sound, TypeOK, ReleaseOK, Releases, BuffersOK, Buffers
<1>2. rel[f].up = None /\ handle[f].dirty /\ HasBuf(f)
  BY RestingBuffer DEF InPlace, SavesInPlace, AllCarrying, Carrying, Parked, HasBuf
<1>3. \A n : Shown(n)' = Shown(n) /\ Expected(n)' = Expected(n)
  BY SameViews
<1>4. \A l : ~Has(f, l)'
  BY <1>1 DEF Has, Live, Started
<1>5. Carrying(f)'
  BY <1>1, <1>2 DEF Carrying, Uploaded
<1>6. \A n \in Names : Shown(n) = f => Expected(n) = handle[f].ver
  BY <1>2 DEF InPlace, SavesInPlace, SavesExpected, Dirty
<1>7. Quiet(f)
  BY <1>1, <1>2, <1>3, <1>4, <1>5, <1>6 DEF Quiet, Dirty, HasBuf, Creates, Started
<1> QED
  BY <1>7, QuietKeeps

LEMMA WriteInPlace == ASSUME Ground, InPlace, NEW f \in Files, Write(f) PROVE InPlace'
<1> USE DEF Ground
<1>1. /\ handle[f].phase = "open"
      /\ handle' = [handle EXCEPT ![f].ver = saves + 1, ![f].dirty = TRUE]
      /\ UNCHANGED <<tree, listing, drive, node, name, rel, local, kept, want, op, mount>>
  BY DEF Write, treeVars, nodeVars, mountVars
<1>2. /\ \A g \in Files : g # f => handle'[g] = handle[g]
      /\ handle'[f].phase = "open" /\ handle'[f].dirty /\ handle'[f].gone = handle[f].gone
  BY <1>1 DEF Sound, TypeOK, BuffersOK, Buffers
<1>3. rel[f].up = None /\ rel[f].pc = "idle"
  BY <1>1, RestingBuffer
<1>4. \A n : Shown(n)' = Shown(n) /\ Expected(n)' = Expected(n)
  BY <1>1, SameViews
<1>5. \A l : Has(f, l)' <=> Has(f, l)
  BY <1>1, <1>2, SameAims
<1>6. Carrying(f)'
  <2>1. ~RunByRename(f)
    BY <1>3 DEF InPlace, SavesInPlace, AllCarrying, Carrying
  <2> QED
    BY <2>1, <1>1, <1>2, <1>3 DEF Carrying, Uploaded, RunByRename
<1>7. Quiet(f)
  BY <1>1, <1>2, <1>3, <1>4, <1>5, <1>6 DEF Quiet, Dirty, HasBuf, Creates, Started
<1> QED
  BY <1>7, QuietKeeps

LEMMA TruncateInPlace == ASSUME Ground, InPlace, NEW f \in Files, Truncate(f) PROVE InPlace'
<1> USE DEF Ground
<1>1. /\ HasBuf(f) /\ ~HoldsSlot(f)
      /\ handle' = [handle EXCEPT ![f].ver = saves + 1, ![f].dirty = TRUE]
      /\ want' = [n \in Names |-> IF tree[n] = f THEN saves + 1 ELSE want[n]]
      /\ UNCHANGED <<tree, listing, drive, node, name, rel, local, kept, op, mount>>
  BY DEF Truncate, Raced, Parked, HasBuf, treeVars, nodeVars, mountVars
<1>2. /\ \A g \in Files : g # f => handle'[g] = handle[g]
      /\ handle'[f].phase = handle[f].phase /\ handle'[f].dirty
      /\ handle'[f].gone = handle[f].gone /\ handle'[f].ver = saves + 1
  BY <1>1 DEF Sound, TypeOK, BuffersOK, Buffers
<1>3. rel[f].up = None /\ rel[f].pc \notin Uploaded \cup {"upload"}
  BY <1>1, NothingUploaded DEF HoldsSlot, HoldsMu, RelSteps, Uploaded
<1>4. \A n \in Names : /\ Shown(n)' = Shown(n)
                       /\ Expected(n)' = IF Shown(n) = f THEN saves + 1 ELSE Expected(n)
  BY <1>1, WantViews
<1>5. \A l : Has(f, l)' <=> Has(f, l)
  BY <1>1, <1>2, SameAims
<1>6. Carrying(f)'
  BY <1>1, <1>2, <1>3 DEF Carrying, RunByRename, InPlace, SavesInPlace, AllCarrying
<1>7. Quiet(f)
  BY <1>1, <1>2, <1>3, <1>4, <1>5, <1>6 DEF Quiet, Dirty, HasBuf, Creates, Started
<1> QED
  BY <1>7, QuietKeeps

LEMMA CloseInPlace == ASSUME Ground, InPlace, NEW f \in Files, Close(f) PROVE InPlace'
<1> USE DEF Ground
<1>1. /\ handle[f].phase = "open"
      /\ handle' = [handle EXCEPT ![f].phase = "releasing"]
      /\ rel' = [rel EXCEPT ![f].pc = "start", ![f].by = "user"]
      /\ IF handle[f].dirty
         THEN want' = [n \in Names |-> IF tree[n] = f THEN handle[f].ver ELSE want[n]]
         ELSE want' = want
      /\ UNCHANGED <<tree, listing, drive, node, name, local, kept, op, mount>>
  BY DEF Close, treeVars, nodeVars, mountVars
<1>2. /\ \A g \in Files : g # f => rel'[g] = rel[g] /\ handle'[g] = handle[g]
      /\ handle'[f].phase = "releasing" /\ handle'[f].dirty = handle[f].dirty
      /\ handle'[f].ver = handle[f].ver
      /\ rel'[f].pc = "start" /\ rel'[f].up = rel[f].up
  BY <1>1 DEF Sound, TypeOK, BuffersOK, Buffers, ReleaseOK, Releases
<1>3. rel[f].up = None
  BY <1>1, RestingBuffer
<1>4. \A n \in Names : /\ Shown(n)' = Shown(n)
                       /\ Expected(n)' = IF handle[f].dirty /\ Shown(n) = f THEN handle[f].ver
                                         ELSE Expected(n)
  <2>1. CASE handle[f].dirty
    BY <1>1, <2>1, WantViews
  <2>2. CASE ~handle[f].dirty
    BY <1>1, <2>2, SameViews
  <2> QED
    BY <2>1, <2>2
<1>5. \A l : ~Has(f, l)'
  BY <1>2 DEF Has, Live, Started
<1>6. Carrying(f)'
  <2>1. Carrying(f)
    BY DEF InPlace, SavesInPlace, AllCarrying
  <2> QED
    BY <2>1, <1>1, <1>2, <1>3 DEF Carrying, RunByRename, Uploaded, Parked, Started, HasBuf
<1>7. Quiet(f)
  BY <1>1, <1>2, <1>3, <1>4, <1>5, <1>6 DEF Quiet, Dirty, HasBuf, Creates, Started
<1> QED
  BY <1>7, QuietKeeps

LEMMA OpenInPlace == ASSUME Ground, InPlace, NEW n \in Names, Open(n) PROVE InPlace'
<1> USE DEF Ground
<1>0. PICK f \in Files : f = tree[n]
  BY NoneIsNone DEF Open, Sound, TypeOK, TreeOK, FileOrNone
<1>1. /\ \/ Parked(f) /\ handle' = TakenBack(f, "open")
         \/ /\ node[f] # None /\ ~HasBuf(f)
            /\ handle' = [handle EXCEPT ![f] = [NoHandle EXCEPT !.phase = "open"]]
      /\ UNCHANGED <<tree, listing, drive, node, name, rel, local, kept, want, op, mount>>
  BY <1>0 DEF Open, Pending, treeVars, nodeVars, mountVars
<1>2. /\ handle[f].phase # "releasing"
      /\ \A g \in Files : g # f => handle'[g] = handle[g]
      /\ handle'[f].phase = "open"
      /\ Parked(f) => handle'[f].dirty
      /\ ~Parked(f) => ~HasBuf(f) /\ node[f] # None
  BY <1>1 DEF TakenBack, Parked, HasBuf, NoHandle, Sound, TypeOK, BuffersOK, Buffers
<1>3. rel[f].up = None /\ rel[f].pc = "idle" /\ ~RunByRename(f) /\ \A l : ~Has(f, l)'
  <2>1. rel[f].up = None /\ rel[f].pc = "idle"
    BY <1>2, RestingBuffer
  <2> QED
    BY <2>1, <1>1 DEF Has, Live, Started, InPlace, SavesInPlace, AllCarrying, Carrying
<1>4. \A m : Shown(m)' = Shown(m) /\ Expected(m)' = Expected(m)
  BY <1>1, SameViews
<1>5. Carrying(f)'
  BY <1>1, <1>2, <1>3 DEF Carrying, RunByRename, Uploaded, Parked, Started, HasBuf
<1>6. Quiet(f)
  BY <1>1, <1>2, <1>3, <1>4, <1>5 DEF Quiet, Dirty, HasBuf, Creates, Started
<1> QED
  BY <1>6, QuietKeeps

(***************************************************************************)
(* Steps that touch neither a Release nor what is expected.                 *)
(***************************************************************************)

LEMMA RestsInPlace ==
  ASSUME Ground, InPlace, UNCHANGED <<tree, drive, node, name, handle, rel, op, local, kept, want>>,
         listing' = listing \/ listing' = Fetched(drive), mount' # "exited" => mount # "exited"
  PROVE  InPlace'
<1> USE DEF Ground
<1>v. \A n : Shown(n)' = Shown(n) /\ Expected(n)' = Expected(n)
  BY SameViews
<1>d. \A l, n : Named(l, n)' <=> Named(l, n)
  BY SameDrive
<1>h. /\ \A g \in Files : \A l : Has(g, l)' <=> Has(g, l)
      /\ \A g : (Dirty(g)' <=> Dirty(g)) /\ (Doomed(g)' <=> Doomed(g))
  BY SameAims DEF Dirty, HasBuf, Doomed
<1>p. /\ \A l, n : Passing(l, n)' <=> Passing(l, n)
      /\ \A n : Unsettled(n)' <=> Unsettled(n)
      /\ \A l : Unpublished(l)' <=> Unpublished(l)
  BY <1>h DEF Passing, Removes, Unsettled, Twice, Moving, Unpublished, Hides, Doomed
<1>1. AllCarrying'
  BY DEF InPlace, SavesInPlace, AllCarrying, Carrying, Parked, Started, RunByRename, HasBuf
<1>2. SavesExpected'
  BY <1>v, <1>h DEF InPlace, SavesInPlace, SavesExpected
<1>3. Complete => Complete'
  <2>1. \A n \in Names : \A l \in Links : listing' = Fetched(drive) /\ Named(l, n) => listing'[n] = l
    <3> SUFFICES ASSUME NEW n \in Names, NEW l \in Links, Named(l, n) PROVE Fetched(drive)[n] = l
      OBVIOUS
    <3>1. l \in Active(drive, n)
      BY DEF Active, Named
    <3>2. Fetched(drive)[n] \in Active(drive, n)
      BY <3>1 DEF Fetched
    <3>3. Fetched(drive)[n] \in Links /\ Named(Fetched(drive)[n], n)
      BY <3>2 DEF Active, Named
    <3> QED
      BY <3>3 DEF Sound, Inv, DriveInv, OneActive
  <2> QED
    BY <2>1, <1>d, <1>p DEF Complete
<1>4. AllAgree => AllAgree'
  <2>1. \A n : OnDrive(n)' <=> OnDrive(n)
    BY <1>v, <1>d, <1>h DEF OnDrive
  <2>2. \A n : Bare(n)' <=> Bare(n)
    BY <1>d, <1>p DEF Bare
  <2>3. \A n : (EmptyAgrees(n)' <=> EmptyAgrees(n)) /\ (CleanAgrees(n)' <=> CleanAgrees(n))
    BY <1>v, <1>h, <2>1, <2>2 DEF EmptyAgrees, CleanAgrees, SetAside
  <2>4. \A n : PendingBare(n)' <=> PendingBare(n)
    BY <1>v, <1>d, <1>p DEF PendingBare, BareAt, Creates, Started
  <2> QED
    BY <1>p, <2>3, <2>4 DEF AllAgree, Agrees
<1> QED
  BY <1>1, <1>2, <1>3, <1>4 DEF InPlace, SavesInPlace, DriveInPlace

\* The unmount takes the parked buffers: their saves are kept, or go to the local store.
LEMMA AbandonInPlace == ASSUME Ground, InPlace, AbandonKept PROVE InPlace'
<1> USE DEF Ground
<1>0. /\ handle' = [f \in Files |-> IF Parked(f) THEN NoHandle ELSE handle[f]]
      /\ kept' = kept \cup {handle[f].ver : f \in {g \in Files : Abandoned(g)}}
      /\ mount = "grace"
      /\ UNCHANGED <<tree, listing, drive, node, name, rel, op, want>>
  BY DEF AbandonKept, treeVars, nodeVars
<1>1. PICK last \in [Names -> Files] :
        /\ \A n \in Names : ToLocal(n) # {} => last[n] \in ToLocal(n)
        /\ local' = [n \in Names |-> IF ToLocal(n) = {} THEN local[n] ELSE handle[last[n]].ver]
  BY DEF AbandonKept
<1>2. \A n \in Names : \A f, g \in ToLocal(n) : f = g
  BY DEF AbandonKept, Raced
<1>3. \A f \in Files : Parked(f) =>
        /\ rel[f].pc = "idle" /\ rel[f].up = None /\ ~RunByRename(f) /\ handle'[f].phase = "none"
        /\ HasBuf(f) /\ handle[f].phase # "open" /\ ~HasBuf(f)' /\ \A l : ~Has(f, l) /\ ~Has(f, l)'
  <2> SUFFICES ASSUME NEW f \in Files, Parked(f)
               PROVE  /\ rel[f].pc = "idle" /\ rel[f].up = None /\ ~RunByRename(f)
                      /\ handle'[f].phase = "none"
                      /\ HasBuf(f) /\ handle[f].phase # "open" /\ ~HasBuf(f)'
                      /\ \A l : ~Has(f, l) /\ ~Has(f, l)'
    OBVIOUS
  <2>1. handle[f].phase \notin {"releasing", "none", "open"}
    BY DEF Parked
  <2>2. rel[f].pc = "idle" /\ rel[f].up = None /\ ~RunByRename(f)
    BY <2>1, RestingBuffer DEF InPlace, SavesInPlace, AllCarrying, Carrying
  <2>3. handle'[f].phase = "none"
    BY <1>0 DEF NoHandle
  <2> QED
    BY <2>1, <2>2, <2>3, <1>0 DEF HasBuf, Has, Live, Started
<1>4. \A f \in Files : ~Parked(f) => handle'[f] = handle[f]
  BY <1>0
<1>5. \A f \in Files : Parked(f) => handle[f].ver \in SetAside'
  <2> SUFFICES ASSUME NEW f \in Files, Parked(f) PROVE handle[f].ver \in SetAside'
    OBVIOUS
  <2>1. CASE Abandoned(f)
    BY <2>1, <1>0 DEF SetAside
  <2>2. CASE ~Abandoned(f)
    <3>1. handle[f].phase = "kept" /\ ~handle[f].failed
      BY <2>2 DEF Abandoned, Parked
    <3>2. name[f] \in Excluded /\ name[f] \in Names
      BY <3>1, FileTypes DEF Aside, AllKept, KeptRight, Sound
    <3>3. f \in ToLocal(name[f])
      BY <3>1, <3>2 DEF ToLocal
    <3>4. local'[name[f]] = handle[f].ver
      BY <1>1, <1>2, <3>2, <3>3
    <3> QED
      BY <3>2, <3>4 DEF SetAside
  <2> QED
    BY <2>1, <2>2
<1>6. \A v \in SetAside : v # None => v \in SetAside'
  BY <1>0 DEF SetAside, Aside, LocalEmpty
<1>v. \A n : Shown(n)' = Shown(n) /\ Expected(n)' = Expected(n)
  BY <1>0, SameViews
<1>d. \A l, n : Named(l, n)' <=> Named(l, n)
  BY <1>0, SameDrive
<1>h. /\ \A g \in Files : \A l : Has(g, l)' <=> Has(g, l)
      /\ \A g \in Files : Dirty(g)' => Dirty(g) /\ ~Parked(g)
      /\ \A g \in Files : Dirty(g) /\ ~Parked(g) => Dirty(g)'
      /\ \A g \in Files : rel[g].up # None => handle'[g] = handle[g] /\ (Doomed(g)' <=> Doomed(g))
  <2>1. ASSUME NEW g \in Files, ~Parked(g)
        PROVE /\ \A l : Has(g, l)' <=> Has(g, l)
              /\ (Dirty(g)' <=> Dirty(g)) /\ (Doomed(g)' <=> Doomed(g))
    BY <2>1, <1>0, <1>4, SameAims DEF Dirty, HasBuf, Doomed
  <2> QED
    BY <2>1, <1>3, <1>4 DEF Dirty
<1>p. /\ \A l \in Links : \A n : Passing(l, n) => Passing(l, n)'
      /\ \A n : Unsettled(n)' <=> Unsettled(n)
      /\ \A l \in Links : Unpublished(l) => Unpublished(l)'
  BY <1>0, <1>h, NoneIsNone DEF Passing, Removes, Unsettled, Twice, Moving, Unpublished, Hides
<1>7. AllCarrying'
  <2>1. ASSUME NEW f \in Files, Parked(f) PROVE Carrying(f)'
    BY <2>1, <1>0, <1>3 DEF Carrying, Parked, Started, RunByRename, Uploaded, HasBuf
  <2>2. ASSUME NEW f \in Files, ~Parked(f) PROVE Carrying(f)'
    BY <2>2, <1>0, <1>4 DEF InPlace, SavesInPlace, AllCarrying, Carrying, Parked, Started, RunByRename, HasBuf
  <2> QED
    BY <2>1, <2>2 DEF AllCarrying
<1>8. SavesExpected'
  BY <1>v, <1>h, <1>4 DEF InPlace, SavesInPlace, SavesExpected
<1>9. Complete => Complete'
  BY <1>0, <1>d, <1>p DEF Complete
<1>10. AllAgree => AllAgree'
  <2>1. \A n : OnDrive(n)' <=> OnDrive(n)
    BY <1>0, <1>v, <1>d, <1>h DEF OnDrive
  <2>2. \A n : Bare(n) => Bare(n)'
    BY <1>d, <1>p DEF Bare
  <2>3. \A n : EmptyAgrees(n) => EmptyAgrees(n)'
    BY <1>v, <2>1, <2>2 DEF EmptyAgrees
  <2>4. ASSUME NEW n \in Names, CleanAgrees(n) PROVE CleanAgrees(n)'
    <3> SUFFICES ASSUME Shown(n) # None, ~Dirty(Shown(n))'
                 PROVE  /\ Expected(n) # None
                        /\ Expected(n) \in SetAside' \/ (node[Shown(n)] # None /\ OnDrive(n))
      BY <1>v, <1>0, <2>1 DEF CleanAgrees, Dirty, HasBuf
    <3>1. Shown(n) \in Files
      BY ViewTypes, NoneIsNone
    <3>2. CASE ~Dirty(Shown(n))
      BY <3>2, <2>4, <1>6 DEF CleanAgrees
    <3>3. CASE Dirty(Shown(n))
      <4>1. Parked(Shown(n))
        BY <3>1, <3>3, <1>h, <1>v
      <4>2. Expected(n) = handle[Shown(n)].ver
        BY <3>1, <3>3, <4>1, <1>3 DEF InPlace, SavesInPlace, SavesExpected
      <4>3. handle[Shown(n)].ver \in Saves
        BY <3>1, FileTypes DEF Sound, Buffers
      <4> QED
        BY <3>1, <4>1, <4>2, <4>3, <1>5, NoneIsNone
    <3> QED
      BY <3>2, <3>3
  <2>5. \A n : PendingBare(n) => PendingBare(n)'
    BY <1>0, <1>v, <1>d, <1>p DEF PendingBare, BareAt, Creates, Started
  <2> QED
    BY <1>p, <2>3, <2>4, <2>5 DEF AllAgree, Agrees
<1> QED
  BY <1>0, <1>7, <1>8, <1>9, <1>10 DEF InPlace, SavesInPlace, DriveInPlace

LEMMA ExitInPlace == ASSUME NEW r, Exit(r) PROVE InPlace'
<1>1. /\ \A f \in Files : handle'[f] = NoHandle /\ rel'[f] = NoRelease
      /\ mount' = "exited" /\ op' = NoOp
  BY DEF Exit
<1>2. AllCarrying'
  BY <1>1 DEF AllCarrying, Carrying, Parked, Started, RunByRename, HasBuf, Uploaded, NoHandle, NoRelease, NoOp
<1>3. SavesExpected'
  BY <1>1 DEF SavesExpected, Dirty, HasBuf, NoHandle
<1> QED
  BY <1>1, <1>2, <1>3 DEF InPlace, SavesInPlace, DriveInPlace

(***************************************************************************)
(* What a step leaves as it was under a name.                               *)
(***************************************************************************)

\* A link with a save that nobody is about to change.
Settles(l, n) == Named(l, n) /\ \A g \in Files : ~Has(g, l)

Undisturbed(n) ==
  /\ Shown(n)' = Shown(n) /\ Expected(n)' = Expected(n)
  /\ \A v \in SetAside : v # None => v \in SetAside'
  /\ \A l \in Links : Named(l, n)' => Named(l, n)
  /\ Expected(n) # None /\ ~(Shown(n) # None /\ Dirty(Shown(n))') =>
       \A l \in Links : Settles(l, n) => Settles(l, n)' /\ drive'[l].ver = drive[l].ver
  /\ \A l \in Links : Named(l, n)' /\ Passing(l, n) => Passing(l, n)'
  /\ BareAt(n)' => BareAt(n)
  /\ \A f \in Files : Shown(n) = f =>
       /\ Dirty(f) => Dirty(f)'
       /\ node[f] # None => node'[f] # None
       /\ \A l \in Links : Named(l, n)' /\ rel[f].up = l => rel'[f].up = l \/ Passing(l, n)'

LEMMA UndisturbedAgrees ==
  ASSUME Sound, NEW n \in Names, Undisturbed(n), Unsettled(n) => Unsettled(n)', Agrees(n)
  PROVE  Agrees(n)'
<1>1. SUFFICES ASSUME EmptyAgrees(n), CleanAgrees(n), PendingBare(n) PROVE Agrees(n)'
  BY DEF Agrees
<1>t. Shown(n) # None => Shown(n) \in Files
  BY ViewTypes, NoneIsNone
<1>2. Expected(n) # None /\ ~(Shown(n) # None /\ Dirty(Shown(n))') /\ OnDrive(n) => OnDrive(n)'
  BY DEF OnDrive, Undisturbed, Settles
<1>3. EmptyAgrees(n)'
  BY <1>1, <1>2 DEF EmptyAgrees, Bare, Undisturbed
<1>4. CleanAgrees(n)'
  <2>1. ASSUME NEW f \in Files, Shown(n) = f, ~Dirty(f)'
        PROVE  /\ Expected(n)' # None
               /\ Expected(n)' \in SetAside' \/ (node'[f] # None /\ OnDrive(n)')
    <3>1. Expected(n)' = Expected(n) /\ ~Dirty(f) /\ (node[f] # None => node'[f] # None)
      BY <2>1 DEF Undisturbed
    <3>2. Expected(n) # None /\ (Expected(n) \in SetAside \/ (node[f] # None /\ OnDrive(n)))
      BY <1>1, <2>1, <3>1, NoneIsNone DEF CleanAgrees
    <3> QED
      BY <1>2, <2>1, <3>1, <3>2 DEF Undisturbed
  <2>2. Shown(n)' = Shown(n)
    BY DEF Undisturbed
  <2> QED
    BY <1>t, <2>1, <2>2 DEF CleanAgrees, Dirty, HasBuf
<1>5. PendingBare(n)'
  <2> SUFFICES ASSUME BareAt(n)', NEW l \in Links, Named(l, n)'
               PROVE  Passing(l, n)' \/ rel'[Shown(n)].up = l
    BY DEF PendingBare, Undisturbed
  <2>1. BareAt(n) /\ Named(l, n)
    BY DEF Undisturbed
  <2>2. Shown(n) \in Files
    BY <2>1, BareShown
  <2>3. Passing(l, n) \/ rel[Shown(n)].up = l
    BY <1>1, <2>1 DEF PendingBare
  <2> QED
    BY <2>2, <2>3 DEF Undisturbed
<1> QED
  BY <1>3, <1>4, <1>5 DEF Agrees

\* Where a file with a save to upload is to be found.
LEMMA ShownPlace ==
  ASSUME Sound, NEW f \in Files, HasBuf(f), ~handle[f].gone, NEW n \in Names, Place(f, n)
  PROVE  \/ Shown(n) = f
         \/ Moving /\ f = op.file /\ n = op.from
         \/ op.pc = "renameReplace" /\ n = op.to /\ tree[n] = f /\ f # op.file
<1>1. CASE op.pc \in {"renameApply", "renameWait"} /\ tree[op.to] = f
  BY <1>1 DEF Sound, Inv, FileInv, DestGone, Replaced
<1>2. CASE ~(op.pc \in {"renameApply", "renameWait"} /\ tree[op.to] = f)
  BY <1>2, OpPlace DEF Place, Shown, Ahead, Moving
<1> QED
  BY <1>1, <1>2

LEMMA ShownOnce ==
  ASSUME Sound, NEW f \in Files, NEW n \in Names, Shown(n) = f
  PROVE  /\ Place(f, n) /\ Seated(f)
         /\ \A m \in Names : Place(f, m) =>
              m = n \/ (Moving /\ f = op.file /\ m = op.from /\ n = op.to)
<1>1. \A k, m \in Names : tree[k] = f /\ tree[m] = f => k = m
  BY NoneIsNone DEF Sound, TreeInv, OneName
<1>2. CASE Ahead
  <2>1. op.from \in Names /\ op.to \in Names /\ op.from # op.to /\ tree[op.from] = op.file
    BY <1>2, OpPlace DEF Ahead
  <2> QED
    BY <1>1, <1>2, <2>1, NoneIsNone DEF Shown, Place, Ahead, Moving, Seated
<1>3. CASE ~Ahead
  BY <1>1, <1>3 DEF Shown, Place, Ahead, Moving, Seated
<1> QED
  BY <1>2, <1>3

\* Two Releases that have got past their waits do not work on one link, unless one's file was
\* replaced and the other waits for it.
LEMMA AloneOnLink ==
  ASSUME Sound, NEW f \in Files, HoldsMu(f), NEW g \in Files, g # f, NEW l \in Links,
         Has(f, l), Has(g, l)
  PROVE  /\ handle[f].gone /\ ~handle[g].gone /\ rel[g].up = None /\ rel[g].existing = l
         /\ rel[g].pc \in {"decide", "await"}
<1>1. l \in LinkOrNone /\ l # None /\ name[f] \in Names
  BY NoneIsNone, FileTypes DEF LinkOrNone, Sound
<1>2. Aims(f, l, name[f]) /\ Aims(g, l, name[f])
  BY <1>1 DEF Aims
<1>3. InLine(f, g) \/ InLine(g, f)
  BY <1>1, <1>2 DEF Sound, Inv, TurnsInv, OneByOne
<1>4. InLine(f, g)
  BY <1>3 DEF InLine, HoldsMu
<1>5. handle[f].gone /\ rel[g].pc \in {"decide", "await"}
  BY <1>4 DEF InLine, Behind
<1>6. rel[g].up = None
  BY <1>5, NothingUploaded DEF Uploaded
<1> QED
  BY <1>1, <1>5, <1>6 DEF Has, Live, HoldsMu

(***************************************************************************)
(* A Release that has uploaded.                                             *)
(***************************************************************************)

\* What a step of the Release of f leaves alone.
StepOf(f) ==
  /\ \A n \in Names : Shown(n)' = Shown(n) /\ Expected(n)' = Expected(n)
  /\ UNCHANGED <<op, tree>> \/ (op.pc = "renameWait" /\ op' = NoOp)
  /\ \A g \in Files : g # f => /\ rel'[g] = rel[g] /\ handle'[g] = handle[g]
                               /\ node'[g] = node[g] /\ name'[g] = name[g]
  /\ UNCHANGED <<kept, local, mount>>
  /\ Started(f)
  /\ node[f] # None => node'[f] # None
  /\ Creates(f)' => Creates(f)
  /\ Twice /\ op' = op => Twice'
  /\ \/ /\ handle'[f].phase = "none" /\ rel'[f].pc = "idle" /\ rel'[f].up = None
     \/ Started(f)' /\ handle' = handle

LEMMA StepOfOthers ==
  ASSUME NEW f \in Files, StepOf(f), NEW g \in Files, g # f
  PROVE  /\ \A l : Has(g, l)' <=> Has(g, l)
         /\ (Dirty(g)' <=> Dirty(g)) /\ (Doomed(g)' <=> Doomed(g))
         /\ (Creates(g)' <=> Creates(g))
         /\ \A l, n : Removes(g, l, n)' <=> Removes(g, l, n)
         /\ \A l : Hides(g, l) => Hides(g, l)'
<1>1. rel'[g] = rel[g] /\ handle'[g] = handle[g] /\ name'[g] = name[g]
  BY DEF StepOf
<1>2. op.pc = "retarget" => UNCHANGED <<op, tree>>
  BY DEF StepOf
<1> QED
  BY <1>1, <1>2, SameAims DEF Dirty, HasBuf, Doomed, Creates, Started, Removes, Hides

LEMMA StepOfUnsettled ==
  ASSUME Ground, NEW f \in Files, StepOf(f), NEW n, Unsettled(n)
  PROVE  Unsettled(n)'
<1> USE DEF Ground
<1>1. UNCHANGED <<op, tree>>
  BY DEF StepOf, Unsettled, Twice, Moving
<1>2. op.pc # "idle" => op.file \in Files
  BY OpPlace
<1>3. op.pc # "idle" => (node[op.file] # None => node'[op.file] # None)
  BY <1>2 DEF StepOf
<1> QED
  BY <1>1, <1>3 DEF StepOf, Unsettled

\* A name under which it changes nothing that counts.
LEMMA StepOfAgrees ==
  ASSUME Ground, InPlace, NEW f \in Files, StepOf(f), NEW n \in Names, Agrees(n),
         Shown(n) = f => Dirty(f)' /\ (rel[f].up # None => rel'[f].up = rel[f].up),
         \A l \in Links : Named(l, n)' => Named(l, n),
         Shown(n) # f /\ Expected(n) # None =>
           \A l \in Links : Settles(l, n) =>
             Named(l, n)' /\ drive'[l].ver = drive[l].ver /\ ~Has(f, l)',
         \A l \in Links : Named(l, n)' /\ Removes(f, l, n) => Passing(l, n)'
  PROVE  Agrees(n)'
<1> USE DEF Ground
<1>t. Shown(n) # None => Shown(n) \in Files
  BY ViewTypes, NoneIsNone
<1>3. \A l \in Links : Named(l, n)' /\ Passing(l, n) => Passing(l, n)'
  BY StepOfOthers DEF Passing
<1>4. BareAt(n)' => BareAt(n)
  <2>1. Shown(n)' = Shown(n) /\ (Shown(n) # None /\ node'[Shown(n)] = None => node[Shown(n)] = None)
    BY <1>t DEF StepOf
  <2>2. CASE UNCHANGED <<op, tree>>
    <3>1. op.pc # "idle" => op.file \in Files
      BY OpPlace
    <3>2. op.file \in Files => (Creates(op.file)' => Creates(op.file))
      BY <2>2, StepOfOthers DEF StepOf
    <3> QED
      BY <2>1, <2>2, <3>1, <3>2 DEF BareAt
  <2>3. CASE op.pc = "renameWait" /\ op' = NoOp
    BY <2>1, <2>3 DEF BareAt, NoOp
  <2> QED
    BY <2>2, <2>3 DEF StepOf
<1>5. ASSUME NEW g \in Files, Shown(n) = g
      PROVE  /\ Dirty(g) => Dirty(g)'
             /\ node[g] # None => node'[g] # None
             /\ \A l \in Links : rel[g].up = l => rel'[g].up = l
  BY <1>5, StepOfOthers, NoneIsNone DEF StepOf
<1>6. Expected(n) # None /\ ~(Shown(n) # None /\ Dirty(Shown(n))') =>
        \A l \in Links : Settles(l, n) => Settles(l, n)' /\ drive'[l].ver = drive[l].ver
  <2>1. Shown(n) = f => Shown(n) # None /\ Dirty(Shown(n))'
    <3>1. Shown(n)' = Shown(n)
      BY DEF StepOf
    <3> QED
      BY <3>1, NoneIsNone DEF Dirty, HasBuf
  <2> QED
    BY <2>1, StepOfOthers DEF Settles
<1>7. Undisturbed(n)
  BY <1>3, <1>4, <1>5, <1>6 DEF Undisturbed, StepOf, SetAside
<1> QED
  BY <1>7, StepOfUnsettled, UndisturbedAgrees

\* The buffers of the others, and what is left of its own.
LEMMA StepOfSaves ==
  ASSUME Ground, InPlace, NEW f \in Files, StepOf(f), Carrying(f)',
         \A g \in Files : g # f /\ rel[g].up # None => drive'[rel[g].up].ver = drive[rel[g].up].ver
  PROVE  SavesInPlace'
<1>1. \A g \in Files : RunByRename(g)' => RunByRename(g)
  BY DEF StepOf, RunByRename, NoOp
<1>2. ASSUME NEW g \in Files, g # f PROVE Carrying(g)'
  <2>1. rel'[g] = rel[g] /\ handle'[g] = handle[g] /\ node'[g] = node[g]
    BY <1>2 DEF StepOf
  <2>2. Carrying(g)
    BY DEF InPlace, SavesInPlace, AllCarrying
  <2> QED
    BY <1>1, <1>2, <2>1, <2>2 DEF Carrying, Parked, Started, HasBuf
<1>3. ASSUME NEW n \in Names, NEW g \in Files, Shown(n)' = g, Dirty(g)', handle'[g].phase # "open"
      PROVE  Expected(n)' = handle'[g].ver
  <2>1. Shown(n) = g /\ Expected(n)' = Expected(n)
    BY <1>3 DEF StepOf
  <2>2. handle'[g] = handle[g]
    BY <1>3 DEF StepOf, Dirty, HasBuf
  <2> QED
    BY <1>3, <2>1, <2>2 DEF InPlace, SavesInPlace, SavesExpected, Dirty, HasBuf
<1> QED
  BY <1>2, <1>3 DEF SavesInPlace, AllCarrying, SavesExpected

\* What a Release that goes on after its upload knows of it.
LEMMA AfterUpload ==
  ASSUME Ground, InPlace, NEW f \in Files, rel[f].pc \in Uploaded
  PROVE  /\ rel[f].up \in Links /\ Started(f) /\ HoldsMu(f) /\ Live(f) /\ Has(f, rel[f].up)
         /\ HasBuf(f) /\ handle[f].phase = "releasing" /\ Dirty(f)
         /\ ~handle[f].gone => drive[rel[f].up].ver = handle[f].ver
         /\ Creates(f) => rel[f].upName = rel[f].name
         /\ rel[f].existing # None => rel[f].up = rel[f].existing
<1> USE DEF Ground
<1>1. Started(f) /\ HoldsMu(f) /\ Live(f) /\ rel[f].pc # "idle"
  BY DEF Uploaded, Started, HoldsMu, Live, RelSteps
<1>2. rel[f].up \in Links
  BY FileTypes, NoneIsNone DEF InPlace, SavesInPlace, AllCarrying, Carrying, Sound, Releases
<1>3. Has(f, rel[f].up)
  BY <1>1, <1>2, NoneIsNone DEF Has
<1>4. HasBuf(f) /\ handle[f].phase = "releasing" /\ Dirty(f)
  BY <1>1, BufferOfRelease, StartedDirty DEF Dirty
<1>5. ~handle[f].gone => drive[rel[f].up].ver = handle[f].ver
  BY <1>2, NoneIsNone DEF InPlace, SavesInPlace, AllCarrying, Carrying
<1>6. ShapeOf(f)
  BY LocalsShape
<1> QED
  BY <1>1, <1>2, <1>3, <1>4, <1>5, <1>6, NoneIsNone DEF ShapeOf, Creates

\* A rename's own file has the link that is moved, if it uploaded there.
LEMMA MovedNode ==
  ASSUME Sound, Moving, rel[op.file].up = op.link
  PROVE  node[op.file] = op.link
<1>1. op.file \in Files /\ op.link # None /\ Linked /\ Seated(op.file)
  BY OpPlace DEF Sound, Inv, RenameInv, RenameShape, Linked, Moving, Seated
<1>2. rel[op.file].existing = op.link
  BY <1>1 DEF Sound, Inv, RenameInv, MovedUpload
<1>3. Started(op.file)
  BY <1>1, <1>2, LocalsShape DEF ShapeOf
<1> QED
  BY <1>1, <1>2, <1>3 DEF Sound, Inv, NodeInv, WorksOnNode

LEMMA TwiceUploads ==
  ASSUME Sound, Twice, rel[op.file].up # None
  PROVE  rel[op.file].up # op.link
BY MovedNode DEF Twice

\* It goes on without an effect on the drive or the listing.
LEMMA LocalsInPlace ==
  ASSUME Ground, InPlace, NEW f \in Files, rel[f].pc \in Uploaded, rel'[f].pc \in Uploaded,
         UNCHANGED <<tree, op, want, listing, drive, name, handle, kept, local, mount>>,
         \A g \in Files : g # f => rel'[g] = rel[g] /\ node'[g] = node[g],
         rel'[f].existing = rel[f].existing, rel'[f].up = rel[f].up,
         Doomed(f) => Doomed(f)',
         node'[f] = node[f] \/ node'[f] = rel[f].up
  PROVE  InPlace'
<1> USE DEF Ground
<1>u. /\ rel[f].up \in Links /\ Started(f) /\ Dirty(f)
      /\ HasBuf(f) /\ handle[f].phase = "releasing"
  BY AfterUpload
<1>v. \A n : Shown(n)' = Shown(n) /\ Expected(n)' = Expected(n)
  BY SameViews
<1>s. Started(f)' /\ Live(f)' /\ Live(f) /\ \A l : Has(f, l)' <=> Has(f, l)
  <2>1. Live(f)' /\ Live(f) /\ Started(f)'
    BY DEF Live, Started, HoldsMu, RelSteps, Uploaded
  <2> QED
    BY <2>1 DEF Has
<1>1. StepOf(f)
  <2>1. Twice => Twice'
    <3> SUFFICES ASSUME Twice PROVE Twice'
      OBVIOUS
    <3>1. op.file \in Files
      BY OpFiles DEF Twice, Sound
    <3>2. CASE op.file = f /\ node'[f] # node[f]
      BY <3>2, <1>u, NoneIsNone, TwiceUploads DEF Twice, Moving
    <3> QED
      BY <3>1, <3>2 DEF Twice, Moving
  <2>2. node[f] # None => node'[f] # None
    BY <1>u, NoneIsNone
  <2> QED
    BY <2>1, <2>2, <1>u, <1>v, <1>s DEF StepOf, Creates
<1>2. Carrying(f)'
  BY <1>u, <1>s, NoneIsNone DEF Carrying, Dirty, Parked, RunByRename, Started, HasBuf, Uploaded, InPlace, SavesInPlace, AllCarrying
<1>3. SavesInPlace'
  BY <1>1, <1>2, StepOfSaves
<1>d. \A l, n : Named(l, n)' <=> Named(l, n)
  BY SameDrive
<1>r. \A l, n : Removes(f, l, n) => Removes(f, l, n)'
  BY DEF Removes
<1>4. ASSUME NEW n \in Names, Agrees(n) PROVE Agrees(n)'
  <2>1. Dirty(f)'
    BY <1>u DEF Dirty, HasBuf
  <2>2. \A l \in Links : Settles(l, n) => ~Has(f, l)'
    BY <1>s DEF Settles
  <2>3. \A l \in Links : Removes(f, l, n) => Passing(l, n)'
    BY <1>r DEF Passing
  <2> QED
    BY <1>1, <1>4, <1>d, <2>1, <2>2, <2>3, StepOfAgrees DEF Settles
<1>5. Complete => Complete'
  <2>1. \A l : Hides(f, l) => Hides(f, l)'
    BY DEF Hides
  <2>2. \A l : Unpublished(l) => Unpublished(l)'
    BY <1>1, <2>1, StepOfOthers DEF Unpublished
  <2> QED
    BY <1>d, <2>2 DEF Complete
<1> QED
  BY <1>3, <1>4, <1>5 DEF InPlace, DriveInPlace, AllAgree

\* The node takes the link; or, of a file marked gone, the upload is to be trashed.
LEMMA ClaimInPlace ==
  ASSUME Ground, InPlace, NEW f \in Files, Claim(f), ~handle[f].gone \/ rel[f].existing = None
  PROVE  InPlace'
<1> USE DEF Ground
<1>1. rel[f].pc = "claim" /\ rel[f].pc \in Uploaded
  BY DEF Claim, Uploaded
<1>2. rel[f].up \in Links
  BY <1>1, AfterUpload
<1>3. rel[f].up # None
  BY <1>2, NoneIsNone
<1>4. PICK pc \in {"patch", "trash"} :
        /\ rel' = [rel EXCEPT ![f].pc = pc]
        /\ handle[f].gone => pc = "trash"
        /\ UNCHANGED <<tree, op, want, listing, drive, name, handle, kept, local, mount>>
        /\ node' = node \/ node' = [node EXCEPT ![f] = rel[f].up]
  <2>1. CASE handle[f].gone
    BY <1>3, <2>1 DEF Claim, Step, nodeVars, mountVars
  <2>2. CASE ~handle[f].gone
    BY <1>3, <2>2 DEF Claim, Step, mountVars
  <2> QED
    BY <2>1, <2>2
<1>5. /\ \A g \in Files : g # f => rel'[g] = rel[g]
      /\ rel'[f].pc = pc /\ rel'[f].existing = rel[f].existing /\ rel'[f].up = rel[f].up
  <2>1. rel' = [rel EXCEPT ![f].pc = pc]
    BY <1>4
  <2>2. rel \in [Files -> Releases]
    BY DEF Sound, TypeOK, ReleaseOK
  <2> QED
    BY <2>1, <2>2 DEF Releases
<1>6. /\ \A g \in Files : g # f => node'[g] = node[g]
      /\ node'[f] = node[f] \/ node'[f] = rel[f].up
  BY <1>4 DEF Sound, TypeOK, NodesOK
<1>7. rel'[f].pc \in Uploaded /\ (Doomed(f) => Doomed(f)')
  <2>1. handle[f].gone => pc = "trash"
    BY <1>4
  <2>2. handle' = handle
    BY <1>4
  <2> QED
    BY <1>5, <2>1, <2>2 DEF Uploaded, Doomed
<1> QED
  BY <1>1, <1>4, <1>5, <1>6, <1>7, LocalsInPlace

LEMMA PatchInPlace == ASSUME Ground, InPlace, NEW f \in Files, Patch(f) PROVE InPlace'
<1> USE DEF Ground
<1>1. rel[f].pc = "patch" /\ rel[f].pc \in Uploaded
  BY DEF Patch, Uploaded
<1>2. rel[f].up # None
  BY <1>1, AfterUpload, NoneIsNone
<1>4. PICK pc \in {"publish", "moveTrash"} :
        /\ rel' = [rel EXCEPT ![f].pc = pc, ![f].to = name[f]]
        /\ UNCHANGED <<tree, op, want, listing, drive, name, node, handle, kept, local, mount>>
  BY <1>2 DEF Patch, nodeVars, mountVars
<1>5. /\ \A g \in Files : g # f => rel'[g] = rel[g]
      /\ rel'[f].pc = pc /\ rel'[f].existing = rel[f].existing /\ rel'[f].up = rel[f].up
  BY <1>4 DEF Sound, TypeOK, ReleaseOK, Releases
<1>6. rel'[f].pc \in Uploaded /\ ~Doomed(f)
  BY <1>1, <1>5 DEF Uploaded, Doomed
<1> QED
  BY <1>1, <1>4, <1>5, <1>6, LocalsInPlace

\* The upload is committed.  A link that it creates is its file's alone.
LEMMA UploadSucceedsInPlace ==
  ASSUME Ground, InPlace, NEW f \in Files, UploadSucceeds(f)
  PROVE  InPlace'
<1> USE DEF Ground
<1>0. PICK l \in Links, v \in Saves :
        /\ Committed(f, l, v) /\ rel[f].pc = "upload"
        /\ rel' = [rel EXCEPT ![f].pc = "claim", ![f].up = l, ![f].upName = drive'[l].name]
  BY DEF UploadSucceeds, Answered
<1>c. UNCHANGED <<tree, listing, node, name, op, want, handle, kept, local, mount>>
  BY DEF UploadSucceeds, treeVars, nodeVars, mountVars
<1>1. /\ \A g \in Files : g # f => rel'[g] = rel[g]
      /\ rel'[f].pc = "claim" /\ rel'[f].existing = rel[f].existing /\ rel'[f].up = l
      /\ rel'[f].name = rel[f].name
  <2>1. rel \in [Files -> Releases]
    BY DEF Sound, TypeOK, ReleaseOK
  <2> QED
    BY <1>0, <2>1 DEF Releases
<1>2. /\ rel[f].up = None /\ HasBuf(f) /\ handle[f].phase = "releasing" /\ handle[f].dirty
      /\ Started(f) /\ HoldsMu(f) /\ Live(f) /\ Started(f)' /\ Live(f)' /\ l # None
      /\ v = handle[f].ver
  <2>1. Started(f) /\ HoldsMu(f) /\ Live(f) /\ Started(f)' /\ Live(f)' /\ rel[f].pc # "idle"
    BY <1>0, <1>1 DEF Started, HoldsMu, Live, RelSteps
  <2>2. v = handle[f].ver
    BY <1>0 DEF Committed, InPlace, SavesInPlace, AllCarrying, Carrying
  <2> QED
    BY <2>1, <2>2, <1>0, NothingUploaded, BufferOfRelease, StartedDirty, NoneIsNone DEF Uploaded
<1>k. /\ \A k \in Links : k # l => drive'[k] = drive[k]
      /\ drive'[l].ver = v
  <2>1. drive \in [Links -> DriveLinks]
    BY DEF Sound, TypeOK, FolderOK
  <2>2. drive'[l].ver = v
    BY <1>0, <2>1 DEF Committed, DriveLinks
  <2> QED
    BY <2>2, <1>0, CommitDrive
<1>v. \A n : Shown(n)' = Shown(n) /\ Expected(n)' = Expected(n)
  BY <1>c, SameViews
<1>3. StepOf(f)
  <2>1. Twice => Twice'
    BY <1>1, <1>2, <1>c, OpFiles DEF Twice, Moving, Sound
  <2> QED
    BY <2>1, <1>1, <1>2, <1>c, <1>v DEF StepOf, Creates
<1>4. Carrying(f)'
  BY <1>1, <1>2, <1>c, <1>k DEF Carrying, RunByRename, Uploaded
<1>5. \A g \in Files : g # f /\ rel[g].up # None => rel[g].up # l
  <2> SUFFICES ASSUME NEW g \in Files, g # f, rel[g].up = l PROVE FALSE
    BY <1>2
  <2>1. rel[g].pc \in Uploaded
    BY <1>2, NothingUploaded
  <2>2. Has(g, l)
    BY <1>2, <2>1 DEF Has, Live, Started, HoldsMu, Uploaded, RelSteps
  <2>3. CASE rel[f].existing = None
    BY <2>3, <1>0, <1>2, CommitDrive DEF Sound, Inv, DriveInv, LinksUsed
  <2>4. CASE rel[f].existing # None
    <3>1. Has(f, l)
      BY <2>4, <1>0, <1>2, CommitDrive DEF Has
    <3> QED
      BY <2>2, <3>1, <1>2, AloneOnLink
  <2> QED
    BY <2>3, <2>4
<1>6. SavesInPlace'
  <2>1. \A g \in Files : g # f /\ rel[g].up # None => rel[g].up \in Links
    BY FileTypes, NoneIsNone DEF Sound, Releases
  <2> QED
    BY <1>3, <1>4, <1>5, <1>k, <2>1, StepOfSaves
<1>7. Dirty(f)'
  BY <1>2, <1>c DEF Dirty, HasBuf
<1>8. CASE rel[f].existing # None
  <2>1. l = rel[f].existing /\ Has(f, l) /\ \A k \in Links : \A n \in Names : Named(k, n)' <=> Named(k, n)
    BY <1>0, <1>2, <1>8, <1>k, CommitDrive DEF Has, SameLink, Named
  <2>2. \A k : Has(f, k)' => k = l
    BY <1>1, <2>1 DEF Has
  <2>3. ASSUME NEW n \in Names, Agrees(n) PROVE Agrees(n)'
    <3>1. \A k \in Links : Settles(k, n) =>
             Named(k, n)' /\ drive'[k].ver = drive[k].ver /\ ~Has(f, k)'
      BY <2>1, <2>2, <1>k DEF Settles
    <3>2. \A k \in Links : ~Removes(f, k, n)
      BY <1>2, NoneIsNone DEF Removes
    <3> QED
      BY <1>2, <1>3, <1>7, <2>1, <2>3, <3>1, <3>2, StepOfAgrees
  <2>4. Complete => Complete'
    <3>1. \A k \in Links : Unpublished(k) => Unpublished(k)'
      BY <1>2, <1>3, StepOfOthers, NoneIsNone DEF Unpublished, Hides
    <3> QED
      BY <2>1, <3>1, <1>c DEF Complete
  <2> QED
    BY <1>6, <2>3, <2>4, <1>c DEF InPlace, DriveInPlace, AllAgree
<1>9. CASE rel[f].existing = None
  <2>m. PICK m \in Names : m = rel[f].name
    BY FileTypes DEF Sound, Releases
  <2>1. /\ drive[l].st = "free"
        /\ \A k \in Links : ~Named(k, m)
        /\ \A k \in Links : \A n : Named(k, n)' <=> Named(k, n) \/ (k = l /\ n = m)
    <3>1. drive[l].st = "free" /\ drive'[l].st = "active" /\ drive'[l].name = m
          /\ \A k \in Links : ~Named(k, m)
      BY <1>0, <1>9, <2>m, CommitDrive
    <3> QED
      BY <3>1, <1>k DEF Named
  <2>2. \A k : Has(f, k)' => k = l
    BY <1>1, <1>9 DEF Has
  <2>3. \A k \in Links : \A n : ~Removes(f, k, n)
    BY <1>2, NoneIsNone DEF Removes
  <2>4. ASSUME NEW n \in Names, n # m, Agrees(n) PROVE Agrees(n)'
    <3>1. \A k \in Links : Settles(k, n) =>
             Named(k, n)' /\ drive'[k].ver = drive[k].ver /\ ~Has(f, k)'
      BY <2>1, <2>2, <1>k DEF Settles, Named
    <3>2. \A k \in Links : Named(k, n)' => Named(k, n)
      BY <2>1, <2>4
    <3> QED
      BY <1>2, <1>3, <1>7, <2>3, <2>4, <3>1, <3>2, StepOfAgrees
  <2>5. Passing(l, m)' \/ Unsettled(m)' \/ Shown(m) = f
    <3>1. CASE handle[f].gone
      BY <3>1, <1>1, <1>9, <1>c DEF Passing, Removes, Doomed
    <3>2. CASE name[f] # m
      BY <3>2, <2>m, <1>1, <1>9, <1>c DEF Passing, Removes
    <3>3. CASE ~handle[f].gone /\ name[f] = m
      <4>1. Place(f, m)
        BY <3>3, <1>0, ReleasedSeat DEF Sound, Inv, FileInv, NameShown
      <4>2. ASSUME Moving, f = op.file, m = op.from PROVE Unsettled(m)'
        <5>1. op.link # None /\ InUse(op.link)
          BY <4>2 DEF Sound, Inv, RenameInv, RenameShape, Linked, Moving, DriveInv, LinksUsed
        <5>2. l # op.link
          BY <5>1, <2>1 DEF InUse
        <5>3. Twice'
          BY <4>2, <5>2, <1>1, <1>2, <1>c DEF Twice, Moving
        <5> QED
          BY <4>2, <5>3, <1>c, <1>1 DEF Unsettled
      <4>3. ~(op.pc = "renameReplace" /\ m = op.to)
        <5> SUFFICES ASSUME op.pc = "renameReplace", m = op.to PROVE FALSE
          OBVIOUS
        <5>1. Named(op.link, m) /\ op.link \in Links
          BY OpFiles, NoneIsNone DEF Sound, Inv, RenameInv, MovedRight, RenameShape, Linked, Moving
        <5> QED
          BY <5>1, <2>1
      <4> QED
        BY <3>3, <4>1, <4>2, <4>3, <2>m, <1>2, ShownPlace
    <3> QED
      BY <3>1, <3>2, <3>3
  <2>6. ASSUME Agrees(m) PROVE Agrees(m)'
    <3>1. CASE Unsettled(m) \/ Unsettled(m)'
      BY <3>1, <1>3, StepOfUnsettled DEF Agrees
    <3>2. CASE ~Unsettled(m) /\ Shown(m) = f
      <4>1. EmptyAgrees(m)' /\ CleanAgrees(m)'
        BY <3>2, <1>7, <1>v, NoneIsNone DEF EmptyAgrees, CleanAgrees, Dirty, HasBuf
      <4>2. PendingBare(m)'
        BY <3>2, <1>1, <1>v, <2>1 DEF PendingBare
      <4> QED
        BY <4>1, <4>2 DEF Agrees
    <3>3. CASE ~Unsettled(m) /\ Shown(m) # f /\ Passing(l, m)'
      <4>1. ~OnDrive(m) /\ EmptyAgrees(m) /\ CleanAgrees(m)
        BY <3>3, <2>1, <2>6 DEF OnDrive, Agrees
      <4>2. Bare(m)' /\ PendingBare(m)'
        BY <3>3, <2>1 DEF Bare, PendingBare
      <4>3. EmptyAgrees(m)'
        BY <4>1, <4>2, <1>v DEF EmptyAgrees
      <4>4. CleanAgrees(m)'
        BY <4>1, <1>c, <1>v DEF CleanAgrees, SetAside, Dirty, HasBuf
      <4> QED
        BY <4>2, <4>3, <4>4 DEF Agrees
    <3> QED
      BY <2>5, <3>1, <3>2, <3>3
  <2>7. Complete => Complete'
    <3>1. \A k \in Links : Unpublished(k) => Unpublished(k)'
      BY <1>2, <1>3, StepOfOthers, NoneIsNone DEF Unpublished, Hides
    <3>2. Unpublished(l)'
      BY <1>1, <1>9, <1>c DEF Unpublished, Hides, Doomed
    <3> QED
      BY <2>1, <3>1, <3>2, <1>c DEF Complete
  <2> QED
    BY <1>6, <2>4, <2>6, <2>7, <1>c DEF InPlace, DriveInPlace, AllAgree
<1> QED
  BY <1>8, <1>9

\* A Release that returns, and its buffer is gone.
LEMMA ReturnStep ==
  ASSUME Sound, NEW f \in Files, rel[f].pc \in Uploaded, Return(f, TRUE), Drop(f),
         UNCHANGED <<local, mount>>,
         \A g \in Files : g # f => node'[g] = node[g] /\ name'[g] = name[g],
         node[f] # None => node'[f] # None, Twice /\ op' = op => Twice'
  PROVE  /\ StepOf(f) /\ Carrying(f)' /\ ~Dirty(f)'
         /\ rel'[f].pc = "idle" /\ rel'[f].up = None /\ handle'[f].phase = "none"
         /\ \A l : ~Has(f, l)'
         /\ UNCHANGED <<op, tree>> \/ (op.pc = "renameWait" /\ op' = NoOp)
<1>1. /\ \A g \in Files : g # f => rel'[g] = rel[g] /\ handle'[g] = handle[g]
      /\ rel'[f] = NoRelease /\ handle'[f] = NoHandle /\ kept' = kept
  BY DEF Return, Drop, Sound, TypeOK, ReleaseOK, BuffersOK
<1>2. /\ rel'[f].pc = "idle" /\ rel'[f].up = None /\ handle'[f].phase = "none"
      /\ ~Started(f)' /\ Started(f)
  BY <1>1 DEF NoRelease, NoHandle, Started, Uploaded
<1>3. /\ \A n \in Names : Shown(n)' = Shown(n) /\ Expected(n)' = Expected(n)
      /\ UNCHANGED <<op, tree>> \/ (op.pc = "renameWait" /\ op' = NoOp)
  BY ReturnViews DEF Return, RunByRename
<1>4. StepOf(f)
  BY <1>1, <1>2, <1>3 DEF StepOf, Creates
<1>5. ~RunByRename(f)'
  BY DEF Return, RunByRename, NoOp
<1>6. Carrying(f)' /\ ~Dirty(f)'
  BY <1>2, <1>5 DEF Carrying, Parked, HasBuf, Dirty, Uploaded
<1> QED
  BY <1>2, <1>3, <1>4, <1>6 DEF Has, Live

\* It found its file marked gone, and trashes what it created.
LEMMA GoneReturnsInPlace ==
  ASSUME Ground, InPlace, NEW f \in Files, rel[f].pc \in Uploaded, handle[f].gone,
         Return(f, TRUE), Drop(f), UNCHANGED <<listing, node, name, local, mount>>,
         \/ rel[f].existing # None /\ drive' = drive
         \/ drive' = [drive EXCEPT ![rel[f].up].st = "trashed"]
  PROVE  InPlace'
<1> USE DEF Ground
<1>u. PICK u \in Links : u = rel[f].up /\ Has(f, u)
  BY AfterUpload
<1>1. Moving => op.file # f
  <2> SUFFICES ASSUME Moving, op.file = f PROVE FALSE
    OBVIOUS
  <2>1. op.from \in Names /\ op.to \in Names /\ op.from # op.to /\ tree[op.from] = f
    BY OpPlace DEF Moving
  <2>2. tree[op.to] = f
    BY <2>1 DEF Sound, Inv, FileInv, GoneRight, Seated, Replaced
  <2> QED
    BY <2>1, <2>2, NoneIsNone DEF Sound, TreeInv, OneName
<1>2. Twice /\ op' = op => Twice'
  <2>1. Twice => op.file \in Files /\ op.file # f
    BY <1>1, OpFiles DEF Twice, Sound
  <2>2. \A g \in Files : g # f => rel'[g] = rel[g]
    BY DEF Return, Sound, TypeOK, ReleaseOK
  <2> QED
    BY <2>1, <2>2 DEF Twice, Moving
<1>3. /\ StepOf(f) /\ Carrying(f)' /\ ~Dirty(f)' /\ \A l : ~Has(f, l)'
      /\ UNCHANGED <<op, tree>> \/ (op.pc = "renameWait" /\ op' = NoOp)
  BY <1>2, ReturnStep
<1>d. /\ \A l \in Links : \A n : Named(l, n)' => Named(l, n)
      /\ \A l \in Links : drive'[l].ver = drive[l].ver
      /\ \A l \in Links : l # u => \A n : Named(l, n) => Named(l, n)'
      /\ rel[f].existing = None => \A n : ~Named(u, n)'
  <2>2. CASE drive' = [drive EXCEPT ![u].st = "trashed"]
    <3>1. /\ drive'[u].st = "trashed" /\ drive'[u].ver = drive[u].ver
          /\ \A l \in Links : l # u => drive'[l] = drive[l]
      BY <2>2 DEF Sound, TypeOK, FolderOK, DriveLinks
    <3> QED
      BY <3>1 DEF Named
  <2>3. CASE drive' = drive /\ rel[f].existing # None
    BY <2>3 DEF Named
  <2> QED
    BY <1>u, <2>2, <2>3
<1>4. SavesInPlace'
  <2>1. \A g \in Files : rel[g].up # None => rel[g].up \in Links
    BY FileTypes, NoneIsNone DEF Sound, Releases
  <2> QED
    BY <1>3, <1>d, <2>1, StepOfSaves
<1>5. ASSUME NEW n \in Names, Agrees(n) PROVE Agrees(n)'
  <2>1. CASE Shown(n) = f
    BY <2>1, <1>3, GoneUnsettled, StepOfUnsettled DEF Agrees
  <2>2. CASE Shown(n) # f
    <3>1. \A l \in Links : Settles(l, n) =>
             Named(l, n)' /\ drive'[l].ver = drive[l].ver /\ ~Has(f, l)'
      BY <1>u, <1>d, <1>3 DEF Settles
    <3>2. \A l \in Links : Removes(f, l, n) => ~Named(l, n)'
      BY <1>u, <1>d DEF Removes
    <3> QED
      BY <1>3, <1>5, <1>d, <2>2, <3>1, <3>2, StepOfAgrees
  <2> QED
    BY <2>1, <2>2
<1>6. Complete => Complete'
  <2>1. \A l \in Links : \A n \in Names : Unpublished(l) /\ Named(l, n)' => Unpublished(l)'
    BY <1>u, <1>d, <1>3, StepOfOthers DEF Unpublished, Hides
  <2> QED
    BY <1>d, <2>1 DEF Complete
<1> QED
  BY <1>4, <1>5, <1>6 DEF InPlace, DriveInPlace, AllAgree

LEMMA ClaimDropsInPlace ==
  ASSUME Ground, InPlace, NEW f \in Files, Claim(f), handle[f].gone, rel[f].existing # None
  PROVE  InPlace'
<1>1. /\ rel[f].pc \in Uploaded /\ Return(f, TRUE) /\ Drop(f)
      /\ UNCHANGED <<listing, drive, node, name, local, mount>>
  BY DEF Claim, Uploaded, nodeVars, mountVars
<1> QED
  BY <1>1, GoneReturnsInPlace

LEMMA TrashGoneInPlace == ASSUME Ground, InPlace, NEW f \in Files, TrashGone(f) PROVE InPlace'
<1>1. /\ rel[f].pc \in Uploaded /\ Return(f, TRUE) /\ Drop(f)
      /\ drive' = [drive EXCEPT ![rel[f].up].st = "trashed"]
      /\ UNCHANGED <<listing, node, name, local, mount>>
  BY WriteBufferAssumption DEF TrashGone, Uploaded, nodeVars, mountVars, Ground, Answered
<1>2. handle[f].gone
  BY LocalsShape DEF ShapeOf, TrashGone, Ground
<1> QED
  BY <1>1, <1>2, GoneReturnsInPlace

\* It lands: the file and the listing show what it uploaded.
LEMMA LandsInPlace ==
  ASSUME Ground, InPlace, NEW f \in Files, Return(f, TRUE), Drop(f), UNCHANGED <<local, mount>>,
         NEW u \in Links, NEW m \in Names, Lands(f, u, m), drive'[u].ver = drive[u].ver
  PROVE  InPlace'
<1> USE DEF Ground
<1>0. /\ rel[f].up = u /\ Landing(f) /\ rel[f].pc \in Uploaded /\ rel[f].pc \in {"publish", "move"}
      /\ node'[f] = u /\ u # None
      /\ \A g \in Files : g # f => node'[g] = node[g] /\ name'[g] = name[g]
      /\ \A n \in Names : listing'[n] = IF n = m THEN u ELSE IF listing[n] = u THEN None ELSE listing[n]
  BY NoneIsNone DEF Lands, Landing, Uploaded
<1>u. /\ Started(f) /\ HoldsMu(f) /\ Live(f) /\ Has(f, u) /\ HasBuf(f) /\ Dirty(f)
      /\ handle[f].phase = "releasing" /\ (~handle[f].gone => drive[u].ver = handle[f].ver)
  BY <1>0, AfterUpload
<1>d. /\ \A k \in Links : /\ k # u => drive'[k] = drive[k] /\ ~Named(k, m)
                          /\ drive'[k].ver = drive[k].ver
                          /\ \A n : Named(k, n)' <=> IF k = u THEN n = m ELSE Named(k, n)
      /\ drive[u].st = "active"
  BY DEF Lands, Named
<1>1. Twice /\ op' = op => Twice'
  <2> SUFFICES ASSUME Twice, op' = op PROVE Twice'
    OBVIOUS
  <2>1. op.file \in Files /\ \A g \in Files : g # f => rel'[g] = rel[g]
    BY OpFiles DEF Twice, Return, Sound, TypeOK, ReleaseOK
  <2>2. CASE op.file = f
    BY <2>2, <1>0, TwiceUploads DEF Twice, Moving
  <2>3. CASE op.file # f
    BY <2>1, <2>3, <1>0 DEF Twice, Moving
  <2> QED
    BY <2>2, <2>3
<1>2. /\ StepOf(f) /\ Carrying(f)' /\ ~Dirty(f)' /\ \A l : ~Has(f, l)'
      /\ rel'[f].pc = "idle"
      /\ UNCHANGED <<op, tree>> \/ (op.pc = "renameWait" /\ op' = NoOp)
  BY <1>0, <1>1, ReturnStep
<1>3. SavesInPlace'
  <2>1. \A g \in Files : rel[g].up # None => rel[g].up \in Links
    BY FileTypes, NoneIsNone DEF Sound, Releases
  <2> QED
    BY <1>2, <1>d, <2>1, StepOfSaves
\* The name it has in the end is one where the file may be looked for.
<1>p. ~handle[f].gone => Place(f, m) /\ (rel[f].pc = "publish" => Named(u, m))
  <2> SUFFICES ASSUME ~handle[f].gone PROVE Place(f, m) /\ (rel[f].pc = "publish" => Named(u, m))
    OBVIOUS
  <2>1. Seated(f) /\ Place(f, name[f])
    BY <1>0, ReleasedSeat DEF Uploaded, Sound, Inv, FileInv, NameShown
  <2>2. CASE name[f] = m
    BY <2>1, <2>2, <1>0 DEF Lands, Named
  <2>3. CASE name[f] # m
    <3>1. rel[f].pc = "publish" /\ rel[f].existing # None /\ Named(u, m)
      BY <2>3 DEF Lands, Named
    <3>2. node[f] = u
      BY <3>1, <2>1, <1>0, <1>u, LocalsShape DEF ShapeOf, Sound, Inv, NodeInv, WorksOnNode
    <3> QED
      BY <3>1, <3>2, <2>1, <1>0, NamedPlace DEF Relocating
  <2> QED
    BY <2>2, <2>3
<1>4. ASSUME NEW n \in Names, Agrees(n), Shown(n) # f PROVE Agrees(n)'
  <2>1. n = m => rel[f].pc = "publish"
    <3> SUFFICES ASSUME n = m, rel[f].pc = "move" PROVE FALSE
      BY <1>0
    <3>1. ~handle[f].gone /\ op.file # f
      BY <1>0 DEF Lands, Relocating, Sound, Inv, FileInv, GoneStays
    <3>2. op.pc = "renameReplace" /\ tree[op.to] = f /\ m = op.to
      BY <1>4, <1>p, <1>u, <3>1, ShownPlace
    <3>3. Linked /\ Named(op.link, m) /\ op.link \in Links
      BY <3>2, OpFiles, NoneIsNone DEF Sound, Inv, RenameInv, MovedRight, RenameShape, Linked, Moving
    <3>4. op.link = u
      BY <3>3, <1>d
    <3> QED
      BY <3>1, <3>3, <3>4, <1>u DEF Sound, Inv, RenameInv, MovedGone
  <2>2. \A l \in Links : Named(l, n)' => Named(l, n)
    BY <2>1, <1>d DEF Lands, Named
  <2>3. \A l \in Links : Settles(l, n) => Named(l, n)' /\ ~Has(f, l)' /\ drive'[l].ver = drive[l].ver
    BY <1>d, <1>u, <1>2 DEF Settles
  <2>4. \A l \in Links : Removes(f, l, n) => ~Named(l, n)'
    BY <2>1, <1>d, <1>0 DEF Removes, Doomed, Lands
  <2> QED
    BY <1>2, <1>4, <2>2, <2>3, <2>4, StepOfAgrees
<1>5. ASSUME NEW n \in Names, Agrees(n), Shown(n) = f PROVE Agrees(n)'
  <2>1. CASE handle[f].gone
    BY <2>1, <1>5, <1>2, GoneUnsettled, StepOfUnsettled DEF Agrees
  <2>2. CASE ~handle[f].gone /\ n = m
    <3>v. Shown(n)' = f /\ Expected(n)' = Expected(n)
      BY <1>2, <1>5 DEF StepOf
    <3>1. Expected(n) = handle[f].ver /\ Expected(n) # None
      BY <1>5, <1>u, FileTypes, NoneIsNone DEF InPlace, SavesInPlace, SavesExpected, Sound, Buffers
    <3>2. \A g \in Files : ~Has(g, u)'
      <4>1. ASSUME NEW g \in Files, g # f PROVE ~Has(g, u)'
        BY <4>1, <2>2, <1>u, <1>2, AloneOnLink, StepOfOthers
      <4> QED
        BY <4>1, <1>2
    <3>3. OnDrive(n)'
      BY <2>2, <1>d, <1>u, <3>v, <3>1, <3>2 DEF OnDrive
    <3>4. EmptyAgrees(n)' /\ CleanAgrees(n)'
      BY <3>v, <3>1, <3>3, <1>0, NoneIsNone DEF EmptyAgrees, CleanAgrees
    <3>5. PendingBare(n)'
      <4> SUFFICES ASSUME BareAt(n)' PROVE FALSE
        BY DEF PendingBare
      <4>1. /\ n = op'.from /\ op'.pc \in {"renamePending", "retarget"} /\ Creates(op.file)'
        BY <3>v, <1>0 DEF BareAt
      <4>2. UNCHANGED <<op, tree>>
        BY <1>2, <4>1 DEF NoOp
      <4>3. op.file = f
        BY <4>1, <4>2, <1>5, OpPlace DEF Shown, Ahead
      <4> QED
        BY <4>1, <4>2, <4>3, <1>2 DEF Creates, Started
    <3> QED
      BY <3>4, <3>5 DEF Agrees
  <2>3. CASE ~handle[f].gone /\ n # m
    <3>1. Moving /\ f = op.file /\ m = op.from /\ n = op.to
      BY <2>3, <1>5, <1>p, ShownOnce
    <3>2. rel[f].pc = "publish" /\ Named(u, m)
      BY <3>1, <2>3, <1>0, <1>p DEF Lands
    <3>3. u # op.link
      BY <3>1, <3>2, <2>3 DEF Named, Sound, Inv, RenameInv, MovedRight
    <3>4. UNCHANGED <<op, tree>>
      BY <1>2, <3>1 DEF Moving
    <3>5. Unsettled(n)'
      BY <3>1, <3>3, <3>4, <1>0 DEF Unsettled, Twice, Moving
    <3> QED
      BY <3>5 DEF Agrees
  <2> QED
    BY <2>1, <2>2, <2>3
<1>6. Complete => Complete'
  <2> SUFFICES ASSUME Complete, NEW l \in Links, NEW n \in Names, Named(l, n)', listing'[n] # l
               PROVE  Unpublished(l)'
    BY DEF Complete
  <2>1. l # u /\ Named(l, n) /\ listing[n] # l
    BY <1>d, <1>0
  <2>2. PICK g \in Files : Hides(g, l)
    BY <2>1 DEF Complete, Unpublished
  <2>3. g # f
    BY <2>1, <2>2, <1>0 DEF Hides
  <2> QED
    BY <2>2, <2>3, <1>2, StepOfOthers DEF Unpublished
<1> QED
  BY <1>3, <1>4, <1>5, <1>6 DEF InPlace, DriveInPlace, AllAgree

LEMMA PublishInPlace == ASSUME Ground, InPlace, NEW f \in Files, Publish(f) PROVE InPlace'
<1>1. /\ Return(f, TRUE) /\ Drop(f) /\ UNCHANGED <<drive, local, mount>>
  BY DEF Publish, mountVars
<1>2. PICK u \in Links, m \in Names : Lands(f, u, m)
  BY PublishLands DEF Ground
<1> QED
  BY <1>1, <1>2, LandsInPlace

LEMMA ReleaseMoveInPlace == ASSUME Ground, InPlace, NEW f \in Files, ReleaseMove(f) PROVE InPlace'
<1>1. /\ Return(f, TRUE) /\ Drop(f) /\ UNCHANGED <<local, mount>>
      /\ MoveDone(rel[f].up, rel[f].name, rel[f].to)
  BY DEF ReleaseMove, Raced, Ground, mountVars
<1>2. PICK u \in Links, m \in Names : Lands(f, u, m)
  BY ReleaseMoveLands DEF Ground
<1>3. drive'[u].ver = drive[u].ver
  <2>1. drive \in [Links -> DriveLinks] /\ rel[f].up = u
    BY <1>2 DEF Ground, Sound, TypeOK, FolderOK, Lands
  <2> QED
    BY <1>1, <2>1 DEF MoveDone, DriveLinks
<1> QED
  BY <1>1, <1>2, <1>3, LandsInPlace

\* The destination is trashed before it moves what it uploaded there.
LEMMA ReleaseMoveTrashInPlace ==
  ASSUME Ground, InPlace, NEW f \in Files, ReleaseMoveTrash(f)
  PROVE  InPlace'
<1> USE DEF Ground
<1>0. /\ rel[f].pc = "moveTrash" /\ rel[f].pc \in Uploaded /\ MoveTrash(rel[f].up, rel[f].to)
      /\ op.pc \in {"renameReplace", "renameApply"} /\ op.link # rel[f].up =>
           listing[rel[f].to] # op.link
      /\ UNCHANGED <<tree, op, want, node, name, handle, kept, local, mount>>
  BY DEF ReleaseMoveTrash, Raced, Answered, Uploaded, nodeVars, mountVars
<1>1. /\ \A g \in Files : g # f => rel'[g] = rel[g]
      /\ rel'[f].pc = "move" /\ rel'[f].existing = rel[f].existing /\ rel'[f].up = rel[f].up
  <2>1. rel' = [rel EXCEPT ![f].pc = "move", ![f].trashed = MoveTrashed(rel[f].up, rel[f].to)]
    BY DEF ReleaseMoveTrash, Answered
  <2>2. rel \in [Files -> Releases]
    BY DEF Sound, TypeOK, ReleaseOK
  <2> QED
    BY <2>1, <2>2 DEF Releases
<1>2. rel'[f].pc \in Uploaded /\ ~Doomed(f)
  BY <1>0, <1>1 DEF Uploaded, Doomed
<1>3. CASE UNCHANGED <<drive, listing>>
  BY <1>0, <1>1, <1>2, <1>3, LocalsInPlace
<1>4. CASE ~UNCHANGED <<drive, listing>>
  <2>0. PICK m \in Names : m = rel[f].to
    BY LinkTypes DEF Sound
  <2>1. PICK d \in Links : /\ d = listing[m] /\ d # rel[f].up
                           /\ Trashes(d, m)
    <3>1. listing[m] \notin {None, rel[f].up}
      BY <1>0, <1>4, <2>0 DEF MoveTrash
    <3>2. listing[m] \in Links /\ Named(listing[m], m)
      BY <3>1, OpFiles, NoneIsNone DEF Sound, Inv, DriveInv, ListedRight
    <3> QED
      BY <1>0, <2>0, <3>1, <3>2 DEF MoveTrash, Trashes
  <2>2. /\ \A k \in Links : /\ \A n \in Names : Named(k, n)' <=> Named(k, n) /\ k # d
                            /\ drive'[k].ver = drive[k].ver
        /\ \A n \in Names : listing'[n] = IF n = m THEN None ELSE listing[n]
    <3>1. drive' = [drive EXCEPT ![d].st = "trashed"] /\ drive \in [Links -> DriveLinks]
      BY <2>1 DEF Trashes, Sound, TypeOK, FolderOK
    <3>2. \A k \in Links : drive'[k].ver = drive[k].ver
      BY <3>1 DEF DriveLinks
    <3> QED
      BY <2>1, <3>2, TrashFacts
  <2>u. /\ rel[f].up \in Links /\ Started(f) /\ Live(f) /\ HasBuf(f) /\ Dirty(f)
        /\ handle[f].phase = "releasing"
    BY <1>0, AfterUpload
  <2>3. ~handle[f].gone /\ Place(f, m)
    <3>1. ~handle[f].gone
      BY <1>0, <2>u, NoneIsNone DEF Sound, Inv, FileInv, GoneStays, Relocating
    <3>2. Seated(f) /\ name[f] = m
      BY <1>0, <2>0, <3>1, ReleasedSeat DEF Sound, Inv, FileInv, LandsRight
    <3> QED
      BY <3>1, <3>2 DEF Sound, Inv, FileInv, NameShown
  <2>s. Started(f)' /\ Live(f)' /\ \A l : Has(f, l)' <=> Has(f, l)
    <3>1. Live(f)' /\ Started(f)'
      BY <1>1, <1>2 DEF Live, Started, HoldsMu, RelSteps
    <3> QED
      BY <3>1, <2>u, <1>1 DEF Has
  <2>v. \A n : Shown(n)' = Shown(n) /\ Expected(n)' = Expected(n)
    BY <1>0, SameViews
  <2>4. StepOf(f)
    <3>1. Twice => Twice'
      BY <1>0, <1>1, OpFiles DEF Twice, Moving, Sound
    <3> QED
      BY <1>0, <1>1, <2>u, <2>s, <2>v, <3>1 DEF StepOf, Creates
  <2>5. Carrying(f)' /\ Dirty(f)'
    BY <1>0, <1>1, <2>u, <2>s, <2>2, NoneIsNone DEF Carrying, Dirty, HasBuf, Parked, RunByRename, Uploaded, InPlace, SavesInPlace, AllCarrying
  <2>6. SavesInPlace'
    <3>1. \A g \in Files : rel[g].up # None => rel[g].up \in Links
      BY FileTypes, NoneIsNone DEF Sound, Releases
    <3> QED
      BY <2>2, <2>4, <2>5, <3>1, StepOfSaves
  <2>7. Shown(m) = f \/ Expected(m) = None
    <3>1. ~(op.pc = "renameReplace" /\ m = op.to)
      BY <1>0, <2>0, <2>1 DEF Sound, Inv, RenameInv, MovedRight, Moving
    <3>2. Moving /\ m = op.from => Expected(m) = None
      BY OpPlace DEF Expected, Ahead, Moving
    <3> QED
      BY <2>3, <2>u, <3>1, <3>2, ShownPlace
  <2>8. ASSUME NEW n \in Names, Agrees(n) PROVE Agrees(n)'
    <3>1. \A l \in Links : Removes(f, l, n) => Passing(l, n)'
      <4>1. \A l : Removes(f, l, n) => Removes(f, l, n)'
        BY <1>0, <1>1, <1>2 DEF Removes
      <4> QED
        BY <4>1 DEF Passing
    <3>2. Shown(n) # f /\ Expected(n) # None =>
            \A l \in Links : Settles(l, n) =>
              Named(l, n)' /\ drive'[l].ver = drive[l].ver /\ ~Has(f, l)'
      <4>1. Shown(n) # f /\ Expected(n) # None => n # m
        BY <2>7
      <4>2. n # m => ~Named(d, n)
        BY <2>1 DEF Trashes, Named
      <4> QED
        BY <4>1, <4>2, <2>2, <2>s DEF Settles
    <3> QED
      BY <1>1, <2>2, <2>4, <2>5, <2>8, <3>1, <3>2, StepOfAgrees
  <2>9. Complete => Complete'
    <3>1. \A l : Hides(f, l) => Hides(f, l)'
      BY <1>0, <1>1, <1>2 DEF Hides
    <3>2. \A l : Unpublished(l) => Unpublished(l)'
      BY <2>4, <3>1, StepOfOthers DEF Unpublished
    <3>3. \A l \in Links : ~Named(l, m)'
      BY <2>1, <2>2 DEF Trashes, Sound, Inv, DriveInv, OneActive
    <3> QED
      BY <2>2, <3>2, <3>3 DEF Complete
  <2> QED
    BY <1>0, <2>6, <2>8, <2>9 DEF InPlace, DriveInPlace, AllAgree
<1> QED
  BY <1>3, <1>4

LEMMA ReleaseStepInPlace ==
  ASSUME Ground, InPlace, NEW f \in Files, ReleaseStep(f)
  PROVE  InPlace'
<1>1. CASE ReadRelease(f)
  BY <1>1, EarlyReturnInPlace, ReadReleaseInPlace
<1>2. CASE Decide(f) \/ LockUpload(f)
  BY <1>2, EarlyReturnInPlace, EarlyStepInPlace
<1>3. CASE AwaitReplaced(f) \/ AcquireSlot(f)
  BY <1>3, EarlyStepInPlace
<1>4. CASE QueueCancelled(f) \/ UploadFails(f)
  BY <1>4, EarlyReturnInPlace
<1>5. CASE UploadSucceeds(f)
  BY <1>5, UploadSucceedsInPlace
<1>6. ~UploadLate(f)
  BY DEF UploadLate, Ground, Answered
<1>7. CASE Claim(f)
  BY <1>7, ClaimInPlace, ClaimDropsInPlace
<1>8. CASE TrashGone(f)
  BY <1>8, TrashGoneInPlace
<1>9. CASE Patch(f) \/ Publish(f)
  BY <1>9, PatchInPlace, PublishInPlace
<1>10. CASE ReleaseMoveTrash(f) \/ ReleaseMove(f)
  BY <1>10, ReleaseMoveTrashInPlace, ReleaseMoveInPlace
<1> QED
  BY <1>1, <1>2, <1>3, <1>4, <1>5, <1>6, <1>7, <1>8, <1>9, <1>10 DEF ReleaseStep

(***************************************************************************)
(* The directory operations.                                                *)
(***************************************************************************)

\* Where no rename is in progress, the views are the tree itself.
LEMMA StillViews ==
  /\ op.pc \in NoMoves =>
       \A n : /\ Shown(n) = tree[n] /\ Expected(n) = want[n]
              /\ BareAt(n) <=> tree[n] # None /\ node[tree[n]] = None
              /\ Unsettled(n) => n = op.from /\ op.pc # "idle"
  /\ op'.pc \in NoMoves =>
       \A n : /\ Shown(n)' = tree'[n] /\ Expected(n)' = want'[n]
              /\ BareAt(n)' <=> tree'[n] # None /\ node'[tree'[n]] = None
              /\ Unsettled(n)' => n = op'.from /\ op'.pc # "idle"
BY DEF NoMoves, Shown, Expected, Ahead, BareAt, Unsettled, Twice, Moving

\* A Release that has uploaded has the link.
LEMMA HasUploaded ==
  ASSUME Sound, NEW g \in Files, NEW l \in Links, rel[g].up = l
  PROVE  /\ rel[g].pc \in Uploaded /\ Has(g, l) /\ HasBuf(g)
         /\ node[g] = None => rel[g].pc \in {"claim", "trash"}
<1>1. rel[g].pc \in Uploaded
  BY NothingUploaded, NoneIsNone
<1>2. Live(g) /\ Started(g) /\ rel[g].pc # "idle"
  BY <1>1 DEF Live, Started, HoldsMu, RelSteps, Uploaded
<1>3. HasBuf(g)
  BY <1>2 DEF Sound, OwnedByRelease, HasBuf
<1>4. node[g] = None => rel[g].pc \in {"claim", "trash"}
  BY <1>1, LocalsShape, NoneIsNone DEF ShapeOf, Landing, Uploaded
<1> QED
  BY <1>1, <1>2, <1>3, <1>4, NoneIsNone DEF Has

LEMMA LookupInPlace == ASSUME Ground, InPlace, NEW n \in Names, Lookup(n) PROVE InPlace'
<1> USE DEF Ground
<1>0. PICK f \in Files, l \in Links :
        /\ listing[n] = l /\ op.pc = "idle" /\ mount # "exited"
        /\ (tree[n] = None /\ Fresh(f)) \/ tree[n] = f
        /\ tree' = [tree EXCEPT ![n] = f]
        /\ node' = [node EXCEPT ![f] = l] /\ name' = [name EXCEPT ![f] = n]
        /\ \A g \in Files : g # f => rel[g].up # l
  <2>1. listing[n] \in Links /\ op.pc = "idle" /\ mount # "exited"
    BY OpFiles, NoneIsNone DEF Lookup, DirIdle, Sound
  <2>2. PICK f \in Files :
          /\ (tree[n] = None /\ Fresh(f)) \/ tree[n] = f
          /\ tree' = [tree EXCEPT ![n] = f]
          /\ node' = [node EXCEPT ![f] = listing[n]] /\ name' = [name EXCEPT ![f] = n]
          /\ ~\E g \in Files \ {f} : rel[g].up = listing[n]
    BY DEF Lookup, Raced
  <2> QED
    BY <2>1, <2>2
<1>c. UNCHANGED <<listing, drive, handle, rel, op, mount, local, kept, want>>
  BY DEF Lookup, mountVars
<1>t. /\ \A m \in Names : tree'[m] = IF m = n THEN f ELSE tree[m]
      /\ \A m \in Names : m # n => tree[m] # f
      /\ node'[f] = l /\ \A g \in Files : g # f => node'[g] = node[g]
      /\ name'[f] = n /\ \A g \in Files : g # f => name'[g] = name[g]
  <2>1. \A m \in Names : m # n => tree[m] # f
    BY <1>0, NoneIsNone DEF Fresh, Sound, TreeInv, OneName
  <2> QED
    BY <1>0, <2>1 DEF Sound, TypeOK, TreeOK, NodesOK
<1>v. \A m \in Names :
        /\ Shown(m) = tree[m] /\ Expected(m) = want[m] /\ ~Unsettled(m)
        /\ Shown(m)' = tree'[m] /\ Expected(m)' = want[m] /\ ~Unsettled(m)'
        /\ BareAt(m) <=> tree[m] # None /\ node[tree[m]] = None
        /\ BareAt(m)' <=> tree'[m] # None /\ node'[tree'[m]] = None
  BY <1>0, <1>c, StillViews DEF NoMoves
<1>d. \A k, m : Named(k, m)' <=> Named(k, m)
  BY <1>c, SameDrive
<1>h. \A g \in Files : /\ \A k : Has(g, k)' <=> Has(g, k)
                       /\ (Dirty(g)' <=> Dirty(g)) /\ (Doomed(g)' <=> Doomed(g))
  BY <1>c, SameAims DEF Dirty, HasBuf, Doomed
<1>1. AllCarrying'
  BY <1>c, <1>t, NoneIsNone DEF InPlace, SavesInPlace, AllCarrying, Carrying, Parked, Started, RunByRename, HasBuf
<1>2. SavesExpected'
  <2>1. tree[n] = None => ~Dirty(f)'
    BY <1>0, <1>c, NoneIsNone DEF Fresh, NoHandle, Dirty, HasBuf
  <2> QED
    BY <2>1, <1>0, <1>c, <1>t, <1>v, <1>h DEF InPlace, SavesInPlace, SavesExpected
<1>3. Complete => Complete'
  <2>1. \A k : Unpublished(k) => Unpublished(k)'
    BY <1>0, <1>c, <1>h DEF Unpublished, Hides
  <2> QED
    BY <1>c, <1>d, <2>1 DEF Complete
<1>o. \A m \in Names : OnDrive(m)' <=> OnDrive(m)
  BY <1>c, <1>d, <1>h, <1>v DEF OnDrive
<1>4. ASSUME NEW m \in Names, m # n, Agrees(m) PROVE Agrees(m)'
  <2>1. \A k : Passing(k, m) => Passing(k, m)'
    BY <1>c, <1>t, <1>h, <1>4 DEF Passing, Removes
  <2>2. Undisturbed(m)
    <3>1. tree'[m] = tree[m] /\ \A g \in Files : tree[m] = g => g # f
      BY <1>t, <1>4
    <3>2. tree[m] # None => tree[m] \in Files
      BY OpFiles, NoneIsNone DEF Sound
    <3> QED
      BY <1>c, <1>d, <1>h, <1>t, <1>v, <2>1, <3>1, <3>2 DEF Undisturbed, Settles, SetAside
  <2> QED
    BY <1>4, <1>v, <2>2, UndisturbedAgrees
<1>5. ASSUME Agrees(n) PROVE Agrees(n)'
  <2>1. EmptyAgrees(n) /\ CleanAgrees(n)
    BY <1>5, <1>v DEF Agrees
  <2>2. EmptyAgrees(n)' /\ PendingBare(n)'
    BY <1>t, <1>v, NoneIsNone DEF EmptyAgrees, PendingBare
  <2>3. CleanAgrees(n)'
    <3>1. CASE tree[n] = None
      <4>1. Named(l, n)
        BY <1>0, NoneIsNone DEF Sound, Inv, DriveInv, ListedRight
      <4>2. rel[f].up = None
        BY <1>0, <3>1, NoneIsNone, RestingBuffer DEF Fresh, NoHandle
      <4>3. ~Passing(l, n)
        BY <1>0, <4>2, NoneIsNone DEF Passing, Removes
      <4>4. want[n] # None /\ OnDrive(n)
        BY <2>1, <3>1, <1>v, <4>1, <4>3 DEF EmptyAgrees, Bare
      <4> QED
        BY <4>4, <1>o, <1>t, <1>v, NoneIsNone DEF CleanAgrees
    <3>2. CASE tree[n] = f
      BY <2>1, <3>2, <1>c, <1>h, <1>o, <1>t, <1>v, NoneIsNone DEF CleanAgrees, SetAside
    <3> QED
      BY <1>0, <3>1, <3>2
  <2> QED
    BY <2>2, <2>3 DEF Agrees
<1> QED
  BY <1>c, <1>1, <1>2, <1>3, <1>4, <1>5 DEF InPlace, SavesInPlace, DriveInPlace, AllAgree

LEMMA CreateInPlace == ASSUME Ground, InPlace, NEW n \in Names, Create(n) PROVE InPlace'
<1> USE DEF Ground
<1>0. PICK f \in Files :
        /\ op.pc = "idle" /\ mount # "exited" /\ Fresh(f) /\ tree[n] = None
        /\ n \in Excluded \/ listing[n] = None
        /\ tree' = [tree EXCEPT ![n] = f] /\ node' = [node EXCEPT ![f] = None]
        /\ name' = [name EXCEPT ![f] = n]
        /\ handle' = [handle EXCEPT ![f] =
             [NoHandle EXCEPT !.phase = "open", !.ver = saves + 1, !.dirty = TRUE]]
  BY DEF Create, DirIdle, Races
<1>c. UNCHANGED <<listing, drive, rel, op, mount, local, kept, want>>
  BY DEF Create, mountVars
<1>t. /\ \A m \in Names : tree'[m] = IF m = n THEN f ELSE tree[m]
      /\ \A m \in Names : tree[m] # f
      /\ node'[f] = None /\ \A g \in Files : g # f => node'[g] = node[g]
      /\ name'[f] = n /\ \A g \in Files : g # f => name'[g] = name[g]
      /\ handle'[f].phase = "open" /\ handle'[f].dirty
      /\ \A g \in Files : g # f => handle'[g] = handle[g]
      /\ handle[f].phase = "none" /\ rel[f].pc = "idle" /\ rel[f].up = None
      /\ \A k : ~Has(f, k) /\ ~Has(f, k)'
  <2>1. handle[f].phase = "none" /\ \A m \in Names : tree[m] # f
    BY <1>0 DEF Fresh, NoHandle
  <2>2. rel[f].pc = "idle" /\ rel[f].up = None /\ \A k : ~Has(f, k) /\ ~Has(f, k)'
    BY <1>c, <2>1, RestingBuffer DEF Has, Live, Started
  <2>3. /\ handle'[f].phase = "open" /\ handle'[f].dirty
        /\ \A g \in Files : g # f => handle'[g] = handle[g]
    BY <1>0 DEF NoHandle, Sound, TypeOK, BuffersOK
  <2> QED
    BY <1>0, <2>1, <2>2, <2>3 DEF Sound, TypeOK, TreeOK, NodesOK
<1>v. \A m \in Names :
        /\ Shown(m) = tree[m] /\ Expected(m) = want[m] /\ ~Unsettled(m)
        /\ Shown(m)' = tree'[m] /\ Expected(m)' = want[m] /\ ~Unsettled(m)'
        /\ BareAt(m) <=> tree[m] # None /\ node[tree[m]] = None
        /\ BareAt(m)' <=> tree'[m] # None /\ node'[tree'[m]] = None
  BY <1>0, <1>c, StillViews DEF NoMoves
<1>d. \A k, m : Named(k, m)' <=> Named(k, m)
  BY <1>c, SameDrive
<1>h. \A g \in Files : /\ \A k : Has(g, k)' <=> Has(g, k)
                       /\ g # f => (Dirty(g)' <=> Dirty(g)) /\ (Doomed(g)' <=> Doomed(g))
  BY <1>c, <1>t, SameAims DEF Dirty, HasBuf, Doomed
<1>p. /\ \A k \in Links : \A m : Passing(k, m) => Passing(k, m)'
      /\ \A k \in Links : Unpublished(k) => Unpublished(k)'
  BY <1>0, <1>c, <1>t, <1>h, NoneIsNone DEF Passing, Removes, Unpublished, Hides
<1>1. AllCarrying'
  <2>1. ASSUME NEW g \in Files, g # f PROVE Carrying(g)'
    BY <2>1, <1>c, <1>t DEF InPlace, SavesInPlace, AllCarrying, Carrying, Parked, Started, RunByRename, HasBuf
  <2>2. Carrying(f)'
    BY <1>0, <1>c, <1>t DEF Carrying, Parked, Started, RunByRename, HasBuf, Uploaded
  <2> QED
    BY <2>1, <2>2 DEF AllCarrying
<1>2. SavesExpected'
  BY <1>t, <1>v, <1>h DEF InPlace, SavesInPlace, SavesExpected
<1>3. Complete => Complete'
  BY <1>c, <1>d, <1>p DEF Complete
<1>4. ASSUME NEW m \in Names, m # n, Agrees(m) PROVE Agrees(m)'
  <2>1. tree'[m] = tree[m] /\ (tree[m] # None => tree[m] \in Files)
    BY <1>t, <1>4, OpFiles, NoneIsNone DEF Sound
  <2>2. Undisturbed(m)
    BY <1>c, <1>d, <1>h, <1>p, <1>t, <1>v, <2>1 DEF Undisturbed, Settles, SetAside
  <2> QED
    BY <1>4, <1>v, <2>2, UndisturbedAgrees
<1>5. ASSUME Agrees(n), Complete PROVE Agrees(n)'
  <2>1. Dirty(f)' /\ Shown(n)' = f
    BY <1>t, <1>v DEF Dirty, HasBuf
  <2>2. EmptyAgrees(n)' /\ CleanAgrees(n)'
    BY <2>1, NoneIsNone DEF EmptyAgrees, CleanAgrees
  <2>3. Bare(n)
    <3>1. EmptyAgrees(n)
      BY <1>5, <1>v DEF Agrees
    <3>2. ~OnDrive(n)
      <4> SUFFICES ASSUME NEW l \in Links, Named(l, n), \A g \in Files : ~Has(g, l) PROVE FALSE
        BY DEF OnDrive
      <4>1. n \notin Excluded
        BY DEF Named, Aside, NamesRight, DriveNames
      <4>2. Unpublished(l)
        BY <4>1, <1>0, <1>5, NoneIsNone DEF Complete
      <4> QED
        BY <4>2, HasUploaded DEF Unpublished, Hides
    <3> QED
      BY <3>1, <3>2, <1>0, <1>v DEF EmptyAgrees
  <2>4. PendingBare(n)'
    BY <2>3, <1>d, <1>p DEF PendingBare, Bare
  <2> QED
    BY <2>2, <2>4 DEF Agrees
<1> QED
  BY <1>c, <1>1, <1>2, <1>3, <1>4, <1>5 DEF InPlace, SavesInPlace, DriveInPlace, AllAgree

\* What is left of a file's buffer where no Release has it: nothing, or all of it.
LEMMA UnlinkInPlace == ASSUME Ground, InPlace, NEW n \in Names, Unlink(n) PROVE InPlace'
<1> USE DEF Ground
<1>0. PICK f \in Files :
        /\ op.pc = "idle" /\ mount # "exited" /\ tree[n] = f
        /\ IF Parked(f) THEN handle' = [handle EXCEPT ![f] = NoHandle] ELSE handle' = handle
        /\ \/ /\ Parked(f) /\ node[f] = None /\ op' = NoOp
              /\ tree' = [tree EXCEPT ![n] = None] /\ want' = [want EXCEPT ![n] = None]
           \/ /\ UNCHANGED <<tree, want>> /\ op'.pc = "unlinkPending" /\ op'.from = n
              /\ op'.file = f /\ (~Parked(f) \/ node[f] # None)
              /\ Parked(f) => op'.dropped # None
        /\ kept \subseteq kept'
  <2>1. tree[n] \in Files /\ op.pc = "idle" /\ mount # "exited"
    BY OpFiles, NoneIsNone DEF Unlink, DirIdle, Sound
  <2>2. handle[tree[n]].ver # None
    BY <2>1, FileTypes, NoneIsNone DEF Sound, Buffers
  <2> QED
    BY <2>1, <2>2 DEF Unlink, UnlinkReturns, Discard, Drop, KeepUnsaved, NoOp, Pending
<1>c. UNCHANGED <<listing, drive, node, name, rel, mount, local>>
  BY DEF Unlink, nodeVars, mountVars
<1>b. /\ \A g \in Files : g # f => handle'[g] = handle[g]
      /\ ~Parked(f) => handle'[f] = handle[f]
      /\ Parked(f) => /\ ~HasBuf(f)' /\ ~Parked(f)' /\ rel[f].pc = "idle" /\ rel[f].up = None
                      /\ \A k : ~Has(f, k) /\ ~Has(f, k)'
  <2>1. /\ \A g \in Files : g # f => handle'[g] = handle[g]
        /\ ~Parked(f) => handle'[f] = handle[f]
        /\ Parked(f) => handle'[f] = NoHandle
    BY <1>0 DEF Sound, TypeOK, BuffersOK
  <2>2. Parked(f) => ~HasBuf(f)' /\ ~Parked(f)'
    BY <2>1 DEF NoHandle, HasBuf, Parked
  <2>3. Parked(f) => rel[f].pc = "idle" /\ rel[f].up = None /\ \A k : ~Has(f, k) /\ ~Has(f, k)'
    BY <1>c, RestingBuffer DEF Parked, Has, Live, Started
  <2> QED
    BY <2>1, <2>2, <2>3
<1>t. /\ \A m \in Names : m # n => /\ tree'[m] = tree[m] /\ want'[m] = want[m]
                                   /\ tree[m] # f /\ (tree[m] # None => tree[m] \in Files)
      /\ tree'[n] = tree[n] \/ tree'[n] = None
      /\ op'.pc \in NoMoves
  <2>1. \A m \in Names : m # n => tree[m] # f
    BY <1>0, NoneIsNone DEF Sound, TreeInv, OneName
  <2> QED
    BY <1>0, <2>1, OpFiles, NoneIsNone DEF Sound, TypeOK, TreeOK, NoOp, NoMoves
<1>v. \A m \in Names :
        /\ Shown(m) = tree[m] /\ Expected(m) = want[m] /\ ~Unsettled(m)
        /\ Shown(m)' = tree'[m] /\ Expected(m)' = want'[m]
        /\ BareAt(m) <=> tree[m] # None /\ node[tree[m]] = None
        /\ BareAt(m)' <=> tree'[m] # None /\ node'[tree'[m]] = None
  BY <1>0, <1>t, StillViews DEF NoMoves
<1>d. \A k, m : Named(k, m)' <=> Named(k, m)
  BY <1>c, SameDrive
<1>h. \A g \in Files : /\ \A k : Has(g, k)' <=> Has(g, k)
                       /\ g # f \/ ~Parked(f) => (Dirty(g)' <=> Dirty(g)) /\ (Doomed(g)' <=> Doomed(g))
  <2>1. ASSUME NEW g \in Files, g # f \/ ~Parked(f)
        PROVE  /\ \A k : Has(g, k)' <=> Has(g, k)
               /\ (Dirty(g)' <=> Dirty(g)) /\ (Doomed(g)' <=> Doomed(g))
    BY <2>1, <1>b, <1>c, SameAims DEF Dirty, HasBuf, Doomed
  <2> QED
    BY <2>1, <1>b
<1>p. /\ \A k \in Links : \A m : Passing(k, m) => Passing(k, m)'
      /\ \A k \in Links : Unpublished(k) => Unpublished(k)'
  <2>1. \A k \in Links : \A g \in Files : rel[g].up = k => g # f \/ ~Parked(f)
    BY <1>b, NoneIsNone
  <2>2. \A k \in Links : \A g \in Files : rel[g].up = k =>
          (Doomed(g)' <=> Doomed(g)) /\ handle'[g] = handle[g]
    BY <2>1, <1>h, <1>b
  <2>3. \A k \in Links : \A m : \A g \in Files : Removes(g, k, m) => Removes(g, k, m)'
    BY <1>c, <2>2 DEF Removes
  <2>4. \A k \in Links : \A g \in Files : Hides(g, k) => Hides(g, k)'
    BY <1>0, <1>c, <2>2 DEF Hides
  <2> QED
    BY <2>3, <2>4 DEF Passing, Unpublished
<1>1. AllCarrying'
  <2>1. ASSUME NEW g \in Files, g # f \/ ~Parked(f) PROVE Carrying(g)'
    BY <2>1, <1>0, <1>b, <1>c, <1>t DEF InPlace, SavesInPlace, AllCarrying, Carrying, Parked, Started, RunByRename, HasBuf, NoMoves
  <2>2. Parked(f) => Carrying(f)'
    BY <1>b, <1>c, <1>t DEF Carrying, Started, RunByRename, HasBuf, Uploaded, NoMoves
  <2> QED
    BY <2>1, <2>2 DEF AllCarrying
<1>2. SavesExpected'
  <2> SUFFICES ASSUME NEW m \in Names, NEW g \in Files, Shown(m)' = g, Dirty(g)', handle'[g].phase # "open"
               PROVE  Expected(m)' = handle'[g].ver
    BY DEF SavesExpected
  <2>1. g # f \/ ~Parked(f)
    BY <1>b DEF Dirty
  <2>2. tree[m] = g /\ want'[m] = want[m]
    <3>1. tree'[n] = tree[n] => want' = want
      BY <1>0, NoneIsNone DEF Sound, TypeOK, TreeOK
    <3> QED
      BY <1>t, <1>v, <3>1, NoneIsNone
  <2> QED
    BY <2>1, <2>2, <1>b, <1>h, <1>v DEF InPlace, SavesInPlace, SavesExpected
<1>3. Complete => Complete'
  BY <1>c, <1>d, <1>p DEF Complete
<1>4. ASSUME NEW m \in Names, m # n \/ (~Parked(f) /\ UNCHANGED <<tree, want>>), Agrees(m) PROVE Agrees(m)'
  <2>1. tree'[m] = tree[m] /\ (tree[m] # None => tree[m] \in Files) /\ want'[m] = want[m]
    BY <1>t, <1>4, OpFiles, NoneIsNone DEF Sound
  <2>2. \A g \in Files : tree[m] = g => (Dirty(g) => Dirty(g)')
    BY <1>4, <1>t, <1>h
  <2>3. Undisturbed(m)
    BY <1>c, <1>0, <1>d, <1>h, <1>p, <1>v, <2>1, <2>2 DEF Undisturbed, Settles, SetAside
  <2> QED
    BY <1>4, <1>v, <2>3, UndisturbedAgrees
<1>5. ASSUME Agrees(n) PROVE Agrees(n)'
  <2>1. CASE tree'[n] = None /\ want'[n] = None /\ Parked(f) /\ node[f] = None
    <3>1. PendingBare(n) /\ BareAt(n) /\ Shown(n) = f
      BY <1>5, <1>0, <1>v, <2>1, NoneIsNone DEF Agrees
    <3>2. Bare(n)'
      BY <3>1, <2>1, <1>b, <1>d, <1>p, NoneIsNone DEF PendingBare, Bare
    <3> QED
      BY <3>2, <2>1, <1>v DEF Agrees, EmptyAgrees, CleanAgrees, PendingBare
  <2>2. CASE Parked(f) /\ op'.pc = "unlinkPending"
    <3>1. node[f] # None /\ op'.dropped # None /\ op'.from = n /\ op'.file = f
      BY <1>0, <2>2 DEF NoOp
    <3> QED
      BY <2>2, <3>1, <1>c DEF Agrees, Unsettled
  <2>3. CASE ~Parked(f)
    BY <2>3, <1>0, <1>4, <1>5
  <2>4. want'[n] = None \/ op'.pc = "unlinkPending" \/ ~Parked(f)
    BY <1>0 DEF Sound, TypeOK, TreeOK
  <2>5. tree'[n] = None \/ op'.pc = "unlinkPending" \/ ~Parked(f)
    BY <1>0 DEF Sound, TypeOK, TreeOK
  <2>6. node[f] = None \/ op'.pc = "unlinkPending"
    BY <1>0
  <2> QED
    BY <2>1, <2>2, <2>3, <2>4, <2>5, <2>6
<1> QED
  BY <1>c, <1>1, <1>2, <1>3, <1>4, <1>5 DEF InPlace, SavesInPlace, DriveInPlace, AllAgree

LEMMA UnlinkPendingInPlace == ASSUME Ground, InPlace, UnlinkPending PROVE InPlace'
<1> USE DEF Ground
<1>0. PICK f \in Files, n \in Names : op.file = f /\ op.from = n /\ tree[n] = f /\ op.pc = "unlinkPending"
  BY OpPlace DEF UnlinkPending
<1>c. UNCHANGED <<listing, drive, node, name, rel, mount, local, kept>>
  BY DEF UnlinkPending, nodeVars, mountVars
<1>d. \A k, m : Named(k, m)' <=> Named(k, m)
  BY <1>c, SameDrive
<1>1. CASE ~(Pending(f) /\ HasBuf(f))
  <2>1. op' = [op EXCEPT !.pc = "unlinkTrash"] /\ UNCHANGED <<handle, tree, want>>
    BY <1>0, <1>1 DEF UnlinkPending
  <2>2. /\ op'.pc = "unlinkTrash" /\ op'.from = op.from /\ op'.to = op.to /\ op'.file = op.file
        /\ op'.dropped = op.dropped /\ op'.link = op.link
    BY <2>1 DEF Sound, TypeOK, OpOK, Operations
  <2>v. \A m : /\ Shown(m)' = Shown(m) /\ Expected(m)' = Expected(m)
               /\ BareAt(m)' <=> BareAt(m)
               /\ Unsettled(m)' <=> Unsettled(m)
    BY <1>0, <1>c, <2>1, <2>2 DEF Shown, Expected, Ahead, BareAt, Unsettled, Twice, Moving
  <2>h. /\ \A g \in Files : \A l : Has(g, l)' <=> Has(g, l)
        /\ \A g : (Dirty(g)' <=> Dirty(g)) /\ (Doomed(g)' <=> Doomed(g))
    BY <1>c, <2>1, SameAims DEF Dirty, HasBuf, Doomed
  <2>p. /\ \A l, m : Passing(l, m)' <=> Passing(l, m)
        /\ \A l : Unpublished(l)' <=> Unpublished(l)
    BY <1>0, <1>c, <2>1, <2>2, <2>h DEF Passing, Removes, Unpublished, Hides
  <2>3. AllCarrying'
    BY <1>0, <1>c, <2>1, <2>2 DEF InPlace, SavesInPlace, AllCarrying, Carrying, Parked, Started, RunByRename, HasBuf
  <2>4. SavesExpected'
    BY <2>1, <2>v, <2>h DEF InPlace, SavesInPlace, SavesExpected
  <2>5. Complete => Complete'
    BY <1>c, <1>d, <2>p DEF Complete
  <2>6. ASSUME NEW m \in Names, Agrees(m) PROVE Agrees(m)'
    <3>1. Undisturbed(m)
      BY <1>c, <1>d, <2>v, <2>h, <2>p DEF Undisturbed, Settles, SetAside
    <3> QED
      BY <2>6, <2>v, <3>1, UndisturbedAgrees
  <2> QED
    BY <1>c, <2>3, <2>4, <2>5, <2>6 DEF InPlace, SavesInPlace, DriveInPlace, AllAgree
<1>2. CASE Pending(f) /\ HasBuf(f)
  <2>1. /\ handle' = [handle EXCEPT ![f].gone = TRUE] /\ op' = NoOp /\ node[f] = None
        /\ tree' = [tree EXCEPT ![n] = None] /\ want' = [want EXCEPT ![n] = None]
    BY <1>0, <1>2 DEF UnlinkPending, UnlinkReturns, Pending
  <2>2. /\ \A g \in Files : g # f => handle'[g] = handle[g]
        /\ handle'[f].gone /\ handle'[f].phase = handle[f].phase
        /\ handle'[f].dirty = handle[f].dirty /\ handle'[f].ver = handle[f].ver
    BY <2>1 DEF Sound, TypeOK, BuffersOK, Buffers
  <2>t. /\ \A m \in Names : m # n => /\ tree'[m] = tree[m] /\ want'[m] = want[m] /\ tree[m] # f
                                     /\ (tree[m] # None => tree[m] \in Files)
        /\ tree'[n] = None /\ want'[n] = None
        /\ op'.pc = "idle"
    BY <1>0, <2>1, OpFiles, NoneIsNone DEF Sound, TypeOK, TreeOK, NoOp, TreeInv, OneName
  <2>v. \A m \in Names :
          /\ Shown(m) = tree[m] /\ Expected(m) = want[m] /\ ~Unsettled(m)
          /\ Shown(m)' = tree'[m] /\ Expected(m)' = want'[m] /\ ~Unsettled(m)'
          /\ BareAt(m) <=> tree[m] # None /\ node[tree[m]] = None
          /\ BareAt(m)' <=> tree'[m] # None /\ node'[tree'[m]] = None
    <3>1. \A m \in Names : ~Unsettled(m)
      BY <1>0, <2>1 DEF Unsettled, Twice, Moving
    <3> QED
      BY <3>1, <1>0, <2>t, StillViews DEF NoMoves
  <2>h. /\ \A g \in Files : \A k : Has(g, k)' => Has(g, k)
        /\ \A g \in Files : (Dirty(g)' <=> Dirty(g)) /\ (Doomed(g) => Doomed(g)')
    <3>1. \A g \in Files : handle[g].gone => handle'[g].gone
      BY <2>2
    <3>2. \A g \in Files : Live(g)' => Live(g)
      BY <1>c, <3>1 DEF Live, Started, HoldsMu
    <3> QED
      BY <1>c, <2>2, <3>1, <3>2 DEF Has, Dirty, HasBuf, Doomed
  <2>u. \A k \in Links : rel[f].up = k => rel[f].existing = None /\ Doomed(f)'
    <3>1. \A k \in Links : rel[f].up = k => rel[f].pc \in {"claim", "trash"} /\ Started(f)
      BY <2>1, HasUploaded DEF Has, Live
    <3>2. Seated(f)
      BY <1>0 DEF Seated
    <3> QED
      BY <1>c, <2>1, <2>2, <3>1, <3>2 DEF Doomed, Sound, Inv, NodeInv, WorksOnNode
  <2>p. /\ \A l \in Links : \A m : Passing(l, m) => Passing(l, m)'
        /\ \A l \in Links : Unpublished(l) => Unpublished(l)'
    <3>1. \A l, m : \A g \in Files : Removes(g, l, m) => Removes(g, l, m)'
      BY <1>c, <2>h DEF Removes
    <3>2. \A l \in Links : \A g \in Files : Hides(g, l) => Hides(g, l)'
      BY <1>0, <1>c, <2>2, <2>u, <2>h DEF Hides
    <3> QED
      BY <3>1, <3>2 DEF Passing, Unpublished
  <2>3. AllCarrying'
    <3>1. ASSUME NEW g \in Files, g # f PROVE Carrying(g)'
      BY <3>1, <1>c, <2>2, <2>t DEF InPlace, SavesInPlace, AllCarrying, Carrying, Parked, Started, RunByRename, HasBuf
    <3>2. Carrying(f)'
      BY <1>c, <2>2, <2>t DEF InPlace, SavesInPlace, AllCarrying, Carrying, Parked, Started, RunByRename, HasBuf
    <3> QED
      BY <3>1, <3>2 DEF AllCarrying
  <2>4. SavesExpected'
    <3> SUFFICES ASSUME NEW m \in Names, NEW g \in Files, Shown(m)' = g, Dirty(g)', handle'[g].phase # "open"
                 PROVE  Expected(m)' = handle'[g].ver
      BY DEF SavesExpected
    <3>1. m # n /\ g # f /\ Shown(m) = g /\ Expected(m)' = Expected(m)
      BY <2>t, <2>v, NoneIsNone
    <3> QED
      BY <3>1, <2>2, <2>h DEF InPlace, SavesInPlace, SavesExpected
  <2>5. Complete => Complete'
    BY <1>c, <1>d, <2>p DEF Complete
  <2>6. ASSUME NEW m \in Names, m # n, Agrees(m) PROVE Agrees(m)'
    <3>1. /\ tree'[m] = tree[m] /\ want'[m] = want[m] /\ (tree[m] # None => tree[m] \in Files)
      BY <2>6, <2>t
    <3>2. Undisturbed(m)
      BY <1>c, <1>d, <2>v, <2>h, <2>p, <3>1 DEF Undisturbed, Settles, SetAside
    <3> QED
      BY <2>6, <2>v, <3>2, UndisturbedAgrees
  <2>7. ASSUME Agrees(n) PROVE Agrees(n)'
    <3>1. PendingBare(n) /\ BareAt(n) /\ Shown(n) = f
      BY <2>7, <1>0, <2>1, <2>v, NoneIsNone DEF Agrees
    <3>2. \A l \in Links : rel[f].up = l => Passing(l, n)'
      BY <1>c, <2>u DEF Passing, Removes
    <3>3. Bare(n)'
      BY <3>1, <3>2, <1>d, <2>p DEF PendingBare, Bare
    <3> QED
      BY <3>3, <2>t, <2>v DEF Agrees, EmptyAgrees, CleanAgrees, PendingBare
  <2> QED
    BY <1>c, <2>3, <2>4, <2>5, <2>6, <2>7 DEF InPlace, SavesInPlace, DriveInPlace, AllAgree
<1> QED
  BY <1>1, <1>2

LEMMA UnlinkTrashInPlace == ASSUME Ground, InPlace, UnlinkTrash PROVE InPlace'
<1> USE DEF Ground
<1>0. PICK f \in Files, n \in Names : op.file = f /\ op.from = n /\ tree[n] = f /\ op.pc = "unlinkTrash"
  BY OpPlace DEF UnlinkTrash
<1>c. UNCHANGED <<node, name, handle, rel, mount, local, kept>> /\ op' = NoOp /\ op'.pc = "idle"
  BY DEF UnlinkTrash, UnlinkReturns, NoOp, nodeVars, mountVars
<1>h. /\ \A g \in Files : \A k : Has(g, k)' <=> Has(g, k)
      /\ \A g : (Dirty(g)' <=> Dirty(g)) /\ (Doomed(g)' <=> Doomed(g))
  BY <1>c, SameAims DEF Dirty, HasBuf, Doomed
<1>p. /\ \A l, m : Passing(l, m)' <=> Passing(l, m)
      /\ \A l : Unpublished(l)' <=> Unpublished(l)
  BY <1>0, <1>c, <1>h DEF Passing, Removes, Unpublished, Hides
<1>1. CASE UNCHANGED <<drive, listing, tree, want>> /\ op.dropped = None
  <2>v. \A m \in Names :
          /\ Shown(m) = tree[m] /\ Expected(m) = want[m] /\ ~Unsettled(m)
          /\ Shown(m)' = tree'[m] /\ Expected(m)' = want'[m] /\ ~Unsettled(m)'
          /\ BareAt(m) <=> tree[m] # None /\ node[tree[m]] = None
          /\ BareAt(m)' <=> tree'[m] # None /\ node'[tree'[m]] = None
    <3>1. \A m \in Names : ~Unsettled(m)
      BY <1>0, <1>1 DEF Unsettled, Twice, Moving
    <3> QED
      BY <3>1, <1>0, <1>c, StillViews DEF NoMoves
  <2>d. \A k, m : Named(k, m)' <=> Named(k, m)
    BY <1>1, SameDrive
  <2>1. AllCarrying'
    BY <1>0, <1>1, <1>c DEF InPlace, SavesInPlace, AllCarrying, Carrying, Parked, Started, RunByRename, HasBuf
  <2>2. SavesExpected'
    BY <1>1, <1>c, <1>h, <2>v DEF InPlace, SavesInPlace, SavesExpected
  <2>3. Complete => Complete'
    BY <1>1, <1>p, <2>d DEF Complete
  <2>4. ASSUME NEW m \in Names, Agrees(m) PROVE Agrees(m)'
    <3>1. Undisturbed(m)
      BY <1>1, <1>c, <1>h, <1>p, <2>d, <2>v DEF Undisturbed, Settles, SetAside
    <3> QED
      BY <2>4, <2>v, <3>1, UndisturbedAgrees
  <2> QED
    BY <1>c, <2>1, <2>2, <2>3, <2>4 DEF InPlace, SavesInPlace, DriveInPlace, AllAgree
<1>2. CASE /\ ~HasBuf(f)
           /\ tree' = [tree EXCEPT ![n] = None] /\ want' = [want EXCEPT ![n] = None]
           /\ \E d \in Links : Trashes(d, n)
  <2>0. PICK d \in Links : Trashes(d, n)
    BY <1>2
  <2>d. /\ \A k \in Links : /\ \A m \in Names : Named(k, m)' <=> Named(k, m) /\ m # n
                            /\ drive'[k].ver = drive[k].ver
        /\ \A m \in Names : m # n => listing'[m] = listing[m]
    <3>1. drive' = [drive EXCEPT ![d].st = "trashed"] /\ drive \in [Links -> DriveLinks] /\ Named(d, n)
      BY <2>0 DEF Trashes, Sound, TypeOK, FolderOK
    <3>2. \A k \in Links : drive'[k].ver = drive[k].ver
      BY <3>1 DEF DriveLinks
    <3>3. \A k \in Links : \A m \in Names : Named(k, m)' <=> Named(k, m) /\ k # d
      BY <2>0, TrashFacts
    <3>4. \A k \in Links : \A m \in Names : Named(k, m) => (k = d <=> m = n)
      BY <3>1 DEF Named, Sound, Inv, DriveInv, OneActive
    <3> QED
      BY <2>0, <3>2, <3>3, <3>4, TrashFacts
  <2>t. /\ \A m \in Names : m # n => /\ tree'[m] = tree[m] /\ want'[m] = want[m] /\ tree[m] # f
                                     /\ (tree[m] # None => tree[m] \in Files)
        /\ tree'[n] = None /\ want'[n] = None
    BY <1>0, <1>2, OpFiles, NoneIsNone DEF Sound, TypeOK, TreeOK, TreeInv, OneName
  <2>v. \A m \in Names :
          /\ Shown(m) = tree[m] /\ Expected(m) = want[m] /\ (m # n => ~Unsettled(m))
          /\ Shown(m)' = tree'[m] /\ Expected(m)' = want'[m] /\ ~Unsettled(m)'
          /\ BareAt(m) <=> tree[m] # None /\ node[tree[m]] = None
          /\ BareAt(m)' <=> tree'[m] # None /\ node'[tree'[m]] = None
    BY <1>0, <1>c, StillViews DEF NoMoves
  <2>1. AllCarrying'
    <3>1. \A g \in Files : rel[g].up # None => drive'[rel[g].up].ver = drive[rel[g].up].ver
      BY <2>d, FileTypes, NoneIsNone DEF Sound, Releases
    <3> QED
      BY <1>0, <1>c, <3>1 DEF InPlace, SavesInPlace, AllCarrying, Carrying, Parked, Started, RunByRename, HasBuf
  <2>2. SavesExpected'
    BY <1>c, <1>h, <2>t, <2>v, NoneIsNone DEF InPlace, SavesInPlace, SavesExpected
  <2>3. Complete => Complete'
    BY <1>p, <2>d DEF Complete
  <2>4. ASSUME NEW m \in Names, m # n, Agrees(m) PROVE Agrees(m)'
    <3>1. Undisturbed(m)
      BY <1>c, <1>h, <1>p, <2>4, <2>d, <2>t, <2>v DEF Undisturbed, Settles, SetAside
    <3> QED
      BY <2>4, <2>v, <3>1, UndisturbedAgrees
  <2>5. Agrees(n)'
    BY <2>d, <2>t, <2>v DEF Agrees, EmptyAgrees, CleanAgrees, PendingBare, Bare
  <2> QED
    BY <1>c, <2>1, <2>2, <2>3, <2>4, <2>5 DEF InPlace, SavesInPlace, DriveInPlace, AllAgree
<1>3. PICK l \in LinkOrNone : l = (IF n \in Excluded THEN None ELSE listing[n])
  BY OpFiles DEF LinkOrNone, Sound
<1>4. CASE l # None
  <2>1. l \in Links /\ listing[n] = l /\ Named(l, n)
    BY <1>3, <1>4, NoneIsNone DEF Sound, Inv, DriveInv, ListedRight
  <2>2. /\ drive' = [drive EXCEPT ![l].st = "trashed"] /\ listing' = Removed(listing, n)
        /\ UnlinkReturns(n, {op.dropped}) /\ ~HasBuf(f)
    BY <1>0, <1>3, <1>4 DEF UnlinkTrash, Raced, Answered
  <2> QED
    BY <1>2, <2>1, <2>2 DEF Trashes, UnlinkReturns
<1>5. CASE l = None
  <2>1. UNCHANGED <<drive, listing, tree, want>> /\ op.dropped = None
    BY <1>0, <1>3, <1>5 DEF UnlinkTrash, Raced
  <2> QED
    BY <1>1, <2>1
<1> QED
  BY <1>4, <1>5

LEMMA RenameInPlace ==
  ASSUME Ground, InPlace, NEW from \in Names, NEW to \in Names, Rename(from, to)
  PROVE  InPlace'
<1> USE DEF Ground
<1>0. PICK f \in Files :
        /\ op.pc = "idle" /\ mount # "exited" /\ tree[from] = f /\ from # to
        /\ op'.pc = (IF listing[from] = None THEN "renamePending" ELSE "renameTrash")
        /\ op'.from = from /\ op'.to = to /\ op'.file = f
  <2>1. tree[from] \in Files
    BY OpFiles, NoneIsNone DEF Rename, Sound
  <2> QED
    BY <2>1 DEF Rename, DirIdle, NoOp
<1>c. UNCHANGED <<tree, listing, drive, node, name, handle, rel, mount, local, kept, want>>
  BY DEF Rename, treeVars, nodeVars, mountVars
<1>d. \A k, m : Named(k, m)' <=> Named(k, m)
  BY <1>c, SameDrive
<1>h. /\ \A g \in Files : \A k : Has(g, k)' <=> Has(g, k)
      /\ \A g : (Dirty(g)' <=> Dirty(g)) /\ (Doomed(g)' <=> Doomed(g))
  BY <1>c, SameAims DEF Dirty, HasBuf, Doomed
<1>p. /\ \A l, m : Passing(l, m)' <=> Passing(l, m)
      /\ \A l : Unpublished(l)' <=> Unpublished(l)
  BY <1>0, <1>c, <1>h DEF Passing, Removes, Unpublished, Hides
<1>v. \A m \in Names :
        /\ Shown(m) = tree[m] /\ Expected(m) = want[m] /\ ~Unsettled(m)
        /\ Shown(m)' = tree[m] /\ Expected(m)' = want[m] /\ ~Unsettled(m)'
        /\ BareAt(m)' => BareAt(m) \/ (m = from /\ listing[from] = None)
  <2>1. \A m \in Names : Shown(m) = tree[m] /\ Expected(m) = want[m] /\ ~Unsettled(m)
    BY <1>0, StillViews DEF NoMoves
  <2>2. \A m \in Names : Shown(m)' = tree[m] /\ Expected(m)' = want[m] /\ ~Unsettled(m)'
    BY <1>0, <1>c DEF Shown, Expected, Ahead, Unsettled, Twice, Moving
  <2> QED
    BY <1>0, <1>c, <2>1, <2>2 DEF BareAt
<1>1. AllCarrying'
  BY <1>0, <1>c DEF InPlace, SavesInPlace, AllCarrying, Carrying, Parked, Started, RunByRename, HasBuf
<1>2. SavesExpected'
  BY <1>c, <1>h, <1>v DEF InPlace, SavesInPlace, SavesExpected
<1>3. Complete => Complete'
  BY <1>c, <1>d, <1>p DEF Complete
<1>4. ASSUME NEW m \in Names, BareAt(m)' => BareAt(m), Agrees(m) PROVE Agrees(m)'
  <2>1. Undisturbed(m)
    BY <1>4, <1>c, <1>d, <1>h, <1>p, <1>v DEF Undisturbed, Settles, SetAside
  <2> QED
    BY <1>4, <1>v, <2>1, UndisturbedAgrees
\* The file the listing does not know: what has its name is its own upload, or passing.
<1>5. ASSUME listing[from] = None, Complete, NEW l \in Links, Named(l, from)
      PROVE  Passing(l, from) \/ rel[f].up = l
  <2>1. PICK g \in Files : Hides(g, l)
    BY <1>5, NoneIsNone DEF Complete, Unpublished
  <2>2. CASE g # f /\ name[g] = from /\ ~Doomed(g)
    <3>1. ~handle[g].gone /\ HasBuf(g)
      BY <1>0, <2>1, <2>2, HasUploaded DEF Hides
    <3>2. Seated(g)
      BY <3>1 DEF Sound, Inv, FileInv, BufferShown
    <3>3. Place(g, from)
      BY <2>2, <3>2 DEF Sound, Inv, FileInv, NameShown
    <3> QED
      BY <1>0, <2>2, <3>3, IdleSeats
  <2> QED
    BY <2>1, <2>2 DEF Hides, Passing, Removes
<1>6. ASSUME Complete, Agrees(from), ~(BareAt(from)' => BareAt(from)) PROVE Agrees(from)'
  <2>1. listing[from] = None
    BY <1>6, <1>v
  <2>2. PendingBare(from)'
    BY <1>0, <1>5, <1>6, <1>c, <1>d, <1>p, <1>v, <2>1 DEF PendingBare
  <2>3. EmptyAgrees(from)'
    BY <1>0, <1>v, NoneIsNone DEF EmptyAgrees
  <2>4. CleanAgrees(from)'
    <3>1. CleanAgrees(from)
      BY <1>6, <1>v DEF Agrees
    <3>2. OnDrive(from)' <=> OnDrive(from)
      BY <1>c, <1>d, <1>h, <1>v DEF OnDrive
    <3> QED
      BY <3>1, <3>2, <1>c, <1>h, <1>v DEF CleanAgrees, SetAside
  <2> QED
    BY <2>2, <2>3, <2>4 DEF Agrees
<1> QED
  BY <1>c, <1>1, <1>2, <1>3, <1>4, <1>6, <1>v DEF InPlace, SavesInPlace, DriveInPlace, AllAgree

LEMMA RenameTrashInPlace == ASSUME Ground, InPlace, RenameTrash PROVE InPlace'
<1> USE DEF Ground
<1>0. PICK to \in Names, l \in Links :
        op.to = to /\ op.link = l /\ op.pc = "renameTrash" /\ op.from # to /\ op.file \in Files
  <2>1. Linked /\ op.link # None
    BY DEF RenameTrash, Linked, Sound, Inv, RenameInv, RenameShape
  <2> QED
    BY <2>1, OpFiles, OpPlace, NoneIsNone DEF RenameTrash, Sound
<1>c. /\ UNCHANGED <<tree, node, name, handle, rel, mount, local, kept, want>>
      /\ op'.pc = "renameMove" /\ op'.from = op.from /\ op'.to = op.to /\ op'.file = op.file
      /\ MoveTrash(l, to)
  <2>1. /\ UNCHANGED <<tree, node, name, handle, rel, mount, local, kept, want>> /\ MoveTrash(l, to)
        /\ op' = [op EXCEPT !.pc = "renameMove", !.trashed = MoveTrashed(op.link, op.to)]
    BY <1>0 DEF RenameTrash, Answered, nodeVars, mountVars, fateVars
  <2> QED
    BY <2>1 DEF Sound, TypeOK, OpOK, Operations
<1>d. /\ \A k \in Links : /\ \A m \in Names : m # to => (Named(k, m)' <=> Named(k, m))
                          /\ drive'[k].ver = drive[k].ver
                          /\ Named(k, to)' => Named(k, to)
      /\ \A m \in Names : m # to => listing'[m] = listing[m]
      /\ listing'[to] = listing[to] \/ \A k \in Links : ~Named(k, to)'
  <2>1. CASE UNCHANGED <<drive, listing>>
    BY <2>1, SameDrive
  <2>2. CASE ~UNCHANGED <<drive, listing>>
    <3>1. PICK d \in Links : d = listing[to] /\ d # l
      BY <1>c, <2>2, OpFiles, NoneIsNone DEF MoveTrash, Sound
    <3>2. Trashes(d, to)
      BY <1>c, <3>1, NoneIsNone DEF MoveTrash, Trashes, Sound, Inv, DriveInv, ListedRight
    <3>3. drive' = [drive EXCEPT ![d].st = "trashed"] /\ drive \in [Links -> DriveLinks] /\ Named(d, to)
      BY <3>2 DEF Trashes, Sound, TypeOK, FolderOK
    <3>4. \A k \in Links : drive'[k].ver = drive[k].ver
      BY <3>3 DEF DriveLinks
    <3>5. \A k \in Links : \A m \in Names : Named(k, m)' <=> Named(k, m) /\ k # d
      BY <3>2, TrashFacts
    <3>6. \A k \in Links : \A m \in Names : Named(k, m) => (k = d <=> m = to)
      BY <3>3 DEF Named, Sound, Inv, DriveInv, OneActive
    <3> QED
      BY <3>2, <3>4, <3>5, <3>6, TrashFacts
  <2> QED
    BY <2>1, <2>2
<1>h. /\ \A g \in Files : \A k : Has(g, k)' <=> Has(g, k)
      /\ \A g : (Dirty(g)' <=> Dirty(g)) /\ (Doomed(g)' <=> Doomed(g))
  BY <1>c, SameAims DEF Dirty, HasBuf, Doomed
<1>p. /\ \A k, m : Passing(k, m)' <=> Passing(k, m)
      /\ \A k : Unpublished(k)' <=> Unpublished(k)
  BY <1>0, <1>c, <1>h DEF Passing, Removes, Unpublished, Hides
<1>v. \A m \in Names :
        /\ Shown(m)' = Shown(m) /\ Expected(m)' = Expected(m)
        /\ ~Unsettled(m) /\ (BareAt(m)' => BareAt(m))
        /\ m = to => Unsettled(m)'
  BY <1>0, <1>c DEF Shown, Expected, Ahead, Unsettled, Twice, Moving, BareAt
<1>1. AllCarrying'
  <2>1. \A g \in Files : rel[g].up # None => drive'[rel[g].up].ver = drive[rel[g].up].ver
    BY <1>d, FileTypes, NoneIsNone DEF Sound, Releases
  <2> QED
    BY <1>0, <1>c, <2>1 DEF InPlace, SavesInPlace, AllCarrying, Carrying, Parked, Started, RunByRename, HasBuf
<1>2. SavesExpected'
  BY <1>c, <1>h, <1>v DEF InPlace, SavesInPlace, SavesExpected
<1>3. Complete => Complete'
  BY <1>d, <1>p DEF Complete
<1>4. ASSUME NEW m \in Names, Agrees(m) PROVE Agrees(m)'
  <2>1. CASE m = to
    BY <2>1, <1>v DEF Agrees
  <2>2. CASE m # to
    <3>1. Undisturbed(m)
      BY <1>c, <1>d, <1>h, <1>p, <1>v, <2>2 DEF Undisturbed, Settles, SetAside
    <3> QED
      BY <1>4, <1>v, <3>1, UndisturbedAgrees
  <2> QED
    BY <2>1, <2>2
<1> QED
  BY <1>c, <1>1, <1>2, <1>3, <1>4 DEF InPlace, SavesInPlace, DriveInPlace, AllAgree

(***************************************************************************)
(* A rename marks the file it replaces.                                     *)
(***************************************************************************)

\* What becomes of the buffer of the file under the new name.
MarkedBuffer(g) ==
  \/ /\ handle'[g].gone /\ ~Parked(g) /\ handle'[g].phase = handle[g].phase
     /\ handle'[g].dirty = handle[g].dirty /\ handle'[g].ver = handle[g].ver
  \/ handle'[g] = NoHandle /\ Parked(g)
  \/ handle'[g] = handle[g]

LEMMA ReplaceBuffer ==
  ASSUME Sound, NEW to \in Names, NEW src, NEW link, Replace(to, src, link)
  PROVE  kept \subseteq kept' /\ \A g \in Files : MarkedBuffer(g)
<1>1. CASE UNCHANGED <<handle, kept>>
  BY <1>1 DEF MarkedBuffer
<1>2. CASE ~UNCHANGED <<handle, kept>>
  <2>0. tree[to] \in Files
    BY <1>2, OpFiles, NoneIsNone DEF Replace, Sound
  <2>1. PICK d \in Files : tree[to] = d
    BY <2>0
  <2>2. \/ Parked(d) /\ Discard(d)
        \/ ~Parked(d) /\ handle' = [handle EXCEPT ![d].gone = TRUE] /\ UNCHANGED kept
    BY <1>2, <2>1 DEF Replace
  <2>3. handle \in [Files -> Buffers]
    BY DEF Sound, TypeOK, BuffersOK
  <2>4. CASE Parked(d) /\ Discard(d)
    <3>1. handle' = [handle EXCEPT ![d] = NoHandle] /\ kept \subseteq kept'
      BY <2>4 DEF Discard, KeepUnsaved, Drop
    <3> QED
      BY <2>3, <2>4, <3>1 DEF MarkedBuffer
  <2>5. CASE ~Parked(d) /\ handle' = [handle EXCEPT ![d].gone = TRUE] /\ UNCHANGED kept
    BY <2>3, <2>5 DEF MarkedBuffer, Buffers
  <2> QED
    BY <2>2, <2>4, <2>5
<1> QED
  BY <1>1, <1>2

LEMMA MarksInPlace ==
  ASSUME Ground, InPlace, Marks, op.pc \in {"renamePending", "renameReplace"},
         op'.pc = IF op.pc = "renamePending" THEN "retarget" ELSE "renameApply",
         UNCHANGED <<want, local, mount>>, kept \subseteq kept', \A g \in Files : MarkedBuffer(g)
  PROVE  InPlace'
<1> USE DEF Ground
<1>0. PICK f \in Files, from \in Names, to \in Names :
        /\ op.file = f /\ op.from = from /\ op.to = to /\ from # to /\ tree[from] = f
        /\ op'.file = f /\ op'.from = from /\ op'.to = to /\ op'.link = op.link
  BY OpPlace DEF Marks
<1>c. UNCHANGED <<tree, listing, drive, node, name, rel>>
  BY DEF Marks
<1>d. \A k, m : Named(k, m)' <=> Named(k, m)
  BY <1>c, SameDrive
<1>g. /\ \A g \in Files : tree[to] # g => handle'[g] = handle[g]
      /\ \A g \in Files : tree[to] = g => g # f /\ ~Relocating(g) /\ ~handle[g].gone
  BY <1>0 DEF Marks
<1>h. /\ \A g \in Files : \A k : Has(g, k)' => Has(g, k)
      /\ \A g \in Files : /\ Dirty(g)' => Dirty(g) /\ handle'[g].phase = handle[g].phase
                                          /\ handle'[g].ver = handle[g].ver
                          /\ tree[to] # g => (Dirty(g)' <=> Dirty(g))
                          /\ handle[g].gone => handle'[g].gone
                          /\ Doomed(g) => Doomed(g)'
  <2>1. \A g \in Files : \A k : Has(g, k)' => Has(g, k)
    BY MarksFacts
  <2>2. \A g \in Files : handle[g].gone => handle'[g].gone
    BY MarksFacts
  <2>3. \A g \in Files : Dirty(g)' => Dirty(g) /\ handle'[g].phase = handle[g].phase
                                      /\ handle'[g].ver = handle[g].ver
    BY DEF MarkedBuffer, Dirty, HasBuf, NoHandle
  <2> QED
    BY <1>c, <1>g, <2>1, <2>2, <2>3 DEF Dirty, HasBuf, Doomed
<1>p. \A l, m : Passing(l, m) => Passing(l, m)'
  BY <1>c, <1>h DEF Passing, Removes
<1>v. \A m \in Names :
        /\ Shown(m)' = Shown(m) /\ Expected(m)' = Expected(m)
        /\ Unsettled(m) => Unsettled(m)'
        /\ BareAt(m)' => BareAt(m)
        /\ Shown(m) # None /\ Shown(m) = tree[to] => Unsettled(m)'
  <2>1. \A m \in Names : Shown(m)' = Shown(m) /\ Expected(m)' = Expected(m)
    BY <1>0, <1>c DEF Shown, Expected, Ahead
  <2>2. \A m \in Names : (Unsettled(m) => Unsettled(m)') /\ (BareAt(m)' => BareAt(m))
    BY <1>0, <1>c, <2>1 DEF Unsettled, Twice, Moving, BareAt, Creates, Started
  <2>3. ASSUME NEW m \in Names, Shown(m) # None, Shown(m) = tree[to] PROVE Unsettled(m)'
    <3>1. PICK d \in Files : tree[to] = d /\ d # f
      BY <2>3, <1>g, ViewTypes, NoneIsNone
    <3>2. \A k \in Names : tree[k] = d => k = to
      BY <3>1, NoneIsNone DEF Sound, TreeInv, OneName
    <3> QED
      BY <1>0, <2>3, <3>1, <3>2 DEF Shown, Ahead, Unsettled
  <2> QED
    BY <2>1, <2>2, <2>3
<1>1. AllCarrying'
  <2>1. ASSUME NEW g \in Files PROVE Carrying(g)'
    <3>1. ~RunByRename(g)'
      BY DEF RunByRename
    <3>2. Carrying(g)
      BY DEF InPlace, SavesInPlace, AllCarrying
    <3>3. CASE handle'[g] = NoHandle /\ Parked(g)
      <4>1. rel[g].pc = "idle" /\ rel[g].up = None
        BY <3>3, RestingBuffer DEF Parked
      <4> QED
        BY <1>c, <3>1, <3>3, <4>1 DEF Carrying, Parked, Started, HasBuf, NoHandle, Uploaded
    <3>4. CASE handle'[g] = handle[g]
      BY <1>c, <3>1, <3>2, <3>4 DEF Carrying, Parked, Started, HasBuf
    <3>5. CASE /\ handle'[g].gone /\ ~Parked(g) /\ handle'[g].phase = handle[g].phase
               /\ handle'[g].dirty = handle[g].dirty /\ handle'[g].ver = handle[g].ver
      BY <1>c, <3>1, <3>2, <3>5 DEF Carrying, Parked, Started, HasBuf
    <3> QED
      BY <3>3, <3>4, <3>5 DEF MarkedBuffer
  <2> QED
    BY <2>1 DEF AllCarrying
<1>2. SavesExpected'
  BY <1>h, <1>v DEF InPlace, SavesInPlace, SavesExpected
<1>3. Complete => Complete'
  <2> SUFFICES ASSUME Complete, NEW l \in Links, NEW n \in Names, Named(l, n), listing[n] # l
               PROVE  Unpublished(l)'
    BY <1>c, <1>d DEF Complete
  <2>1. PICK g \in Files : Hides(g, l)
    BY DEF Complete, Unpublished
  <2>2. CASE tree[to] # g
    BY <1>0, <1>c, <1>g, <2>1, <2>2 DEF Hides, Doomed, Unpublished
  <2>3. CASE tree[to] = g /\ op.pc = "renamePending"
    BY <1>0, <1>c, <2>1, <2>3 DEF Hides, Unpublished
  <2>4. CASE tree[to] = g /\ op.pc = "renameReplace"
    <3>1. rel[g].up = l /\ rel[g].existing = None /\ ~handle[g].gone /\ ~Relocating(g) /\ g # f
      BY <1>g, <2>1, <2>4 DEF Hides
    <3>2. rel[g].pc \in {"claim", "trash"} => Unpublished(l)'
      BY <1>c, <3>1 DEF Unpublished, Hides, Doomed
    <3>3. CASE rel[g].pc \notin {"claim", "trash"}
      <4>1. rel[g].pc \in Uploaded
        BY <3>1, HasUploaded
      <4>2. name[g] = rel[g].name
        BY <3>1, <3>3, <4>1 DEF Uploaded, Relocating, Sound, Inv, FileInv, LandsRight
      <4>3. Named(l, name[g])
        BY <3>1, <4>2, NoneIsNone DEF Sound, Inv, NodeInv, UploadNamed, Trashed, Named
      <4>4. n = name[g]
        BY <4>3 DEF Named
      <4>5. Seated(g)
        BY <2>4 DEF Seated
      <4>6. Place(g, n)
        BY <4>4, <4>5 DEF Sound, Inv, FileInv, NameShown
      <4>7. n = to
        BY <1>0, <2>4, <3>1, <4>6, NoneIsNone DEF Place, Moving, Sound, TreeInv, OneName
      <4>8. Named(op.link, to) /\ listing[to] = op.link /\ op.link \in Links
        BY <1>0, <2>4, OpFiles DEF Moving, Linked, LinkOrNone, Sound, Inv, RenameInv, MovedRight, RenameShape
      <4> QED
        BY <4>7, <4>8 DEF Sound, Inv, DriveInv, OneActive
    <3> QED
      BY <3>2, <3>3
  <2> QED
    BY <2>2, <2>3, <2>4
<1>4. ASSUME NEW m \in Names, Agrees(m) PROVE Agrees(m)'
  <2>1. CASE Unsettled(m)'
    BY <2>1 DEF Agrees
  <2>2. CASE ~Unsettled(m)'
    <3>1. Shown(m) # None => Shown(m) \in Files /\ Shown(m) # tree[to]
      BY <1>v, <2>2, ViewTypes, NoneIsNone
    <3>2. \A g \in Files : Shown(m) = g => (Dirty(g)' <=> Dirty(g))
      BY <1>h, <3>1, NoneIsNone
    <3>3. \A l \in Links : Settles(l, m) => Settles(l, m)' /\ drive'[l].ver = drive[l].ver
      BY <1>c, <1>d, <1>h DEF Settles
    <3>4. \A v \in SetAside : v \in SetAside'
      BY DEF SetAside
    <3>5. Undisturbed(m)
      BY <1>c, <1>d, <1>p, <1>v, <3>2, <3>3, <3>4 DEF Undisturbed
    <3> QED
      BY <1>4, <2>2, <1>v, <3>5, UndisturbedAgrees
  <2> QED
    BY <2>1, <2>2
<1> QED
  BY <1>1, <1>2, <1>3, <1>4 DEF InPlace, SavesInPlace, DriveInPlace, AllAgree

LEMMA RenamePendingInPlace == ASSUME Ground, InPlace, RenamePending PROVE InPlace'
<1> USE DEF Ground
<1>1. /\ op.pc = "renamePending" /\ op'.pc = "retarget"
      /\ op'.file = op.file /\ op'.from = op.from /\ op'.to = op.to /\ op'.link = op.link
  BY DEF RenamePending, Sound, TypeOK, OpOK, Operations
<1>2. Marks
  BY <1>1, ReplaceMarks DEF RenamePending, treeVars
<1>3. kept \subseteq kept' /\ \A g \in Files : MarkedBuffer(g)
  BY OpPlace, ReplaceBuffer DEF RenamePending
<1>4. UNCHANGED <<want, local, mount>>
  BY DEF RenamePending, mountVars
<1> QED
  BY <1>1, <1>2, <1>3, <1>4, MarksInPlace

LEMMA RenameReplaceInPlace == ASSUME Ground, InPlace, RenameReplace PROVE InPlace'
<1> USE DEF Ground
<1>1. /\ op.pc = "renameReplace" /\ op'.pc = "renameApply"
      /\ op'.file = op.file /\ op'.from = op.from /\ op'.to = op.to /\ op'.link = op.link
  BY DEF RenameReplace, Sound, TypeOK, OpOK, Operations
<1>2. Marks
  BY <1>1, ReplaceMarks DEF RenameReplace, treeVars
<1>3. kept \subseteq kept' /\ \A g \in Files : MarkedBuffer(g)
  BY OpPlace, ReplaceBuffer DEF RenameReplace
<1>4. UNCHANGED <<want, local, mount>>
  BY DEF RenameReplace, mountVars
<1> QED
  BY <1>1, <1>2, <1>3, <1>4, MarksInPlace


(***************************************************************************)
(* The end of a rename.                                                     *)
(***************************************************************************)

\* The views from then on, whether the call returns now or with the Release it runs.
LEMMA MovesViews ==
  ASSUME Ground, op.pc \in {"retarget", "renameApply"}, NEW f \in Files, op.file = f,
         NEW from \in Names, op.from = from, NEW to \in Names, op.to = to, RenameReleases(f)
  PROVE  /\ from # to /\ tree[from] = f
         /\ \A m \in Names :
              /\ Shown(m)' = IF m = to THEN f ELSE IF m = from THEN None ELSE tree[m]
              /\ Expected(m)' = IF m = to THEN want[from] ELSE IF m = from THEN None ELSE want[m]
              /\ ~Unsettled(m)'
              /\ BareAt(m)' <=> Shown(m)' # None /\ node'[Shown(m)'] = None
         /\ \A g : RunByRename(g)' => g = f /\ Parked(f)
         /\ op'.pc # "retarget"
<1> USE DEF Ground
<1>1. from # to /\ tree[from] = f
  BY OpPlace
<1>2. CASE Parked(f)
  <2>1. op' = [op EXCEPT !.pc = "renameWait"] /\ UNCHANGED <<tree, want>>
    BY <1>2 DEF RenameReleases
  <2>2. op'.pc = "renameWait" /\ op'.file = f /\ op'.from = from /\ op'.to = to
    BY <2>1 DEF Sound, TypeOK, OpOK, Operations
  <2>3. Ahead' /\ ~Twice'
    BY <2>2 DEF Ahead, Twice, Moving
  <2> QED
    BY <1>1, <1>2, <2>1, <2>2, <2>3 DEF Shown, Expected, Unsettled, BareAt, RunByRename
<1>3. CASE ~Parked(f)
  <2>1. op' = NoOp /\ op'.pc = "idle" /\ tree' = Moved(tree, from, to) /\ want' = Moved(want, from, to)
    BY <1>3 DEF RenameReleases, NoOp
  <2>2. tree \in [Names -> FileOrNone] /\ want \in [Names -> Saves \cup {None}]
    BY DEF Sound, TypeOK, TreeOK
  <2>3. \A m \in Names :
          /\ tree'[m] = IF m = to THEN f ELSE IF m = from THEN None ELSE tree[m]
          /\ want'[m] = IF m = to THEN want[from] ELSE IF m = from THEN None ELSE want[m]
    BY <1>1, <2>1, <2>2 DEF Moved
  <2>4. ~Ahead' /\ ~Twice'
    BY <2>1 DEF Ahead, Twice, Moving
  <2> QED
    BY <1>1, <2>1, <2>3, <2>4 DEF Shown, Expected, Unsettled, BareAt, RunByRename
<1> QED
  BY <1>2, <1>3

\* The buffers: one that is released now had a save to upload already.
LEMMA MovesSaves ==
  ASSUME Ground, InPlace, op.pc \in {"retarget", "renameApply"}, NEW f \in Files, op.file = f,
         NEW from \in Names, op.from = from, NEW to \in Names, op.to = to, RenameReleases(f),
         UNCHANGED <<drive, replaces>>, \A g \in Files : node'[g] = None => node[g] = None
  PROVE  /\ SavesInPlace'
         /\ \A g \in Files : (Dirty(g)' <=> Dirty(g)) /\ (Doomed(g)' <=> Doomed(g))
<1> USE DEF Ground
<1>v. /\ from # to /\ tree[from] = f
      /\ \A m \in Names :
           /\ Shown(m)' = IF m = to THEN f ELSE IF m = from THEN None ELSE tree[m]
           /\ Expected(m)' = IF m = to THEN want[from] ELSE IF m = from THEN None ELSE want[m]
      /\ \A g : RunByRename(g)' => g = f /\ Parked(f)
  BY MovesViews
<1>c. \A g \in Files : Carrying(g)
  BY DEF InPlace, SavesInPlace, AllCarrying
<1>1. ASSUME Parked(f)
      PROVE  /\ \A g \in Files : g # f => rel'[g] = rel[g] /\ handle'[g] = handle[g]
             /\ rel[f].pc = "idle" /\ rel[f].up = None /\ handle[f].dirty
             /\ rel'[f].pc = "start" /\ rel'[f].up = None
             /\ handle'[f].phase = "releasing" /\ handle'[f].dirty
             /\ handle'[f].ver = handle[f].ver /\ handle'[f].gone = handle[f].gone
  <2>1. /\ handle' = [handle EXCEPT ![f].phase = "releasing", ![f].dirty = TRUE, ![f].failed = FALSE]
        /\ rel' = [rel EXCEPT ![f].pc = "start", ![f].by = "user"]
    BY <1>1 DEF RenameReleases, TakenBack
  <2>2. handle \in [Files -> Buffers] /\ rel \in [Files -> Releases]
    BY DEF Sound, TypeOK, BuffersOK, ReleaseOK
  <2>3. rel[f].pc = "idle" /\ rel[f].up = None
    BY <1>1, RestingBuffer DEF Parked
  <2>4. handle[f].dirty
    BY <1>1, <1>c DEF Carrying
  <2>5. /\ rel'[f].pc = "start" /\ rel'[f].up = rel[f].up
        /\ handle'[f].phase = "releasing" /\ handle'[f].dirty
        /\ handle'[f].ver = handle[f].ver /\ handle'[f].gone = handle[f].gone
    BY <2>1, <2>2 DEF Buffers, Releases
  <2> QED
    BY <2>1, <2>2, <2>3, <2>4, <2>5
<1>2. ~Parked(f) => UNCHANGED <<handle, rel>>
  BY DEF RenameReleases
<1>3. \A g \in Files : /\ Dirty(g)' <=> Dirty(g)
                       /\ Doomed(g)' <=> Doomed(g)
                       /\ handle'[g].ver = handle[g].ver
                       /\ handle'[g].phase = handle[g].phase \/ handle[g].phase # "open"
  BY <1>1, <1>2 DEF Dirty, HasBuf, Doomed, Parked
<1>4. AllCarrying'
  <2>1. ASSUME NEW g \in Files, g # f \/ ~Parked(f) PROVE Carrying(g)'
    <3>1. rel'[g] = rel[g] /\ handle'[g] = handle[g] /\ ~RunByRename(g)'
      BY <2>1, <1>1, <1>2, <1>v
    <3> QED
      BY <3>1, <1>c DEF Carrying, Parked, Started, HasBuf
  <2>2. ASSUME Parked(f) PROVE Carrying(f)'
    BY <1>1, <2>2 DEF Carrying, Parked, Started, HasBuf, Uploaded
  <2> QED
    BY <2>1, <2>2 DEF AllCarrying
<1>5. SavesExpected'
  <2> SUFFICES ASSUME NEW m \in Names, NEW g \in Files, Shown(m)' = g, Dirty(g)',
                      handle'[g].phase # "open"
               PROVE  Expected(m)' = handle'[g].ver
    BY DEF SavesExpected
  <2>1. Dirty(g) /\ handle[g].phase # "open"
    BY <1>3
  <2>2. PICK k \in Names : Shown(k) = g /\ Expected(k) = Expected(m)'
    <3>1. CASE op.pc = "retarget"
      BY <1>v, <3>1, NoneIsNone DEF Shown, Expected, Ahead
    <3>2. CASE op.pc = "renameApply"
      BY <1>v, <3>2, NoneIsNone DEF Shown, Expected, Ahead
    <3> QED
      BY <3>1, <3>2
  <2> QED
    BY <1>3, <2>1, <2>2 DEF InPlace, SavesInPlace, SavesExpected
<1> QED
  BY <1>3, <1>4, <1>5 DEF SavesInPlace

LEMMA RenameApplyInPlace == ASSUME Ground, InPlace, RenameApply PROVE InPlace'
<1> USE DEF Ground
<1>0. PICK f \in Files, l \in Links, from \in Names, to \in Names :
        /\ op.file = f /\ op.link = l /\ op.from = from /\ op.to = to /\ op.pc = "renameApply"
        /\ RenameReleases(f)
        /\ node' = [node EXCEPT ![f] = l] /\ name' = [name EXCEPT ![f] = to]
        /\ node[f] \in {None, l} /\ (Started(f) => rel[f].existing = l)
  <2>1. op.pc = "renameApply" /\ Linked
    BY DEF RenameApply, Linked
  <2>2. op.file \in Files /\ op.link \in Links /\ op.from \in Names /\ op.to \in Names
    BY <2>1, OpFiles DEF LinkOrNone, Sound, Inv, RenameInv, RenameShape
  <2>3. node[op.file] \in {None, op.link} /\ (Started(op.file) => rel[op.file].existing = op.link)
    BY DEF RenameApply, Races, LosingRaces
  <2> QED
    BY <2>1, <2>2, <2>3 DEF RenameApply
<1>c. UNCHANGED <<listing, drive, replaces, mount, local, kept>>
  BY DEF RenameApply, mountVars
<1>d. \A k, m : Named(k, m)' <=> Named(k, m)
  BY <1>c, SameDrive
<1>n. /\ node'[f] = l /\ l # None
      /\ \A g \in Files : g # f => node'[g] = node[g] /\ name'[g] = name[g]
  BY <1>0, NoneIsNone DEF Sound, TypeOK, NodesOK
<1>o. \A g \in Files : /\ \A k : Has(g, k)' <=> Has(g, k)
                       /\ rel'[g].up = rel[g].up /\ rel'[g].existing = rel[g].existing
                       /\ handle'[g].gone = handle[g].gone
  BY <1>0, <1>c, MovesOthers DEF OthersStay
<1>s. /\ SavesInPlace'
      /\ \A g \in Files : (Dirty(g)' <=> Dirty(g)) /\ (Doomed(g)' <=> Doomed(g))
  <2>1. \A g \in Files : node'[g] = None => node[g] = None
    BY <1>n
  <2> QED
    BY <1>0, <1>c, <2>1, MovesSaves
<1>u. \A k \in Links : rel[f].up = k => rel[f].existing = l /\ k = l
  <2>1. \A k \in Links : rel[f].up = k => Started(f)
    BY HasUploaded DEF Has, Live
  <2> QED
    BY <1>0, <1>n, <2>1, LocalsShape, NoneIsNone DEF ShapeOf
<1>v. \A m \in Names :
        /\ Shown(m)' = Shown(m) /\ Expected(m)' = Expected(m)
        /\ ~Unsettled(m) /\ ~Unsettled(m)'
        /\ BareAt(m)' => BareAt(m)
  <2>1. \A m \in Names :
          /\ Shown(m)' = IF m = to THEN f ELSE IF m = from THEN None ELSE tree[m]
          /\ Expected(m)' = IF m = to THEN want[from] ELSE IF m = from THEN None ELSE want[m]
          /\ ~Unsettled(m)'
          /\ BareAt(m)' <=> Shown(m)' # None /\ node'[Shown(m)'] = None
    BY <1>0, MovesViews
  <2>2. \A m \in Names : Shown(m)' = Shown(m) /\ Expected(m)' = Expected(m)
    BY <1>0, <2>1 DEF Shown, Expected, Ahead
  <2>3. ~Twice
    <3>1. rel[f].up # None => rel[f].up \in Links
      BY FileTypes, NoneIsNone DEF Sound, Releases
    <3> QED
      BY <1>0, <1>u, <3>1 DEF Twice
  <2>4. \A m \in Names : Shown(m) # None => Shown(m) \in Files
    BY ViewTypes, NoneIsNone
  <2>5. \A m \in Names : BareAt(m)' => BareAt(m)
    BY <1>n, <2>1, <2>2, <2>4 DEF BareAt
  <2> QED
    BY <1>0, <2>1, <2>2, <2>3, <2>5 DEF Unsettled
<1>p. /\ \A k \in Links : \A m : Passing(k, m) => Passing(k, m)'
      /\ \A k \in Links : Unpublished(k) => Unpublished(k)'
  <2>1. \A k \in Links : \A g \in Files : rel[g].up = k /\ rel[g].existing = None => g # f
    BY <1>n, <1>u
  <2> QED
    BY <1>0, <1>n, <1>o, <1>s, <2>1 DEF Passing, Removes, Unpublished, Hides
<1>1. Complete => Complete'
  BY <1>c, <1>d, <1>p DEF Complete
<1>2. ASSUME NEW m \in Names, Agrees(m) PROVE Agrees(m)'
  <2>1. \A g \in Files : node[g] # None => node'[g] # None
    BY <1>n
  <2>2. \A k \in Links : Settles(k, m) => Settles(k, m)' /\ drive'[k].ver = drive[k].ver
    BY <1>c, <1>d, <1>o DEF Settles
  <2>3. Undisturbed(m)
    BY <1>c, <1>d, <1>o, <1>p, <1>s, <1>v, <2>1, <2>2 DEF Undisturbed, SetAside
  <2> QED
    BY <1>2, <1>v, <2>3, UndisturbedAgrees
<1> QED
  BY <1>c, <1>s, <1>1, <1>2 DEF InPlace, DriveInPlace, AllAgree


LEMMA RetargetInPlace == ASSUME Ground, InPlace, Retarget PROVE InPlace'
<1> USE DEF Ground
<1>0. PICK f \in Files, from \in Names, to \in Names :
        /\ op.file = f /\ op.from = from /\ op.to = to /\ op.pc = "retarget"
        /\ RenameReleases(f)
        /\ node' = [node EXCEPT ![f] = IF listing[to] = None THEN node[f] ELSE listing[to]]
        /\ name' = [name EXCEPT ![f] = to]
        /\ node[f] # None => rel[f].pc = "patch" /\ rel[f].existing = None
        /\ listing[to] = None /\ tree[to] \notin {None, f} => node[tree[to]] = None
  <2>1. op.pc = "retarget" /\ op.file \in Files /\ op.from \in Names /\ op.to \in Names
    BY OpFiles DEF Retarget, Sound
  <2>2. /\ node[op.file] # None => rel[op.file].pc = "patch" /\ rel[op.file].existing = None
        /\ listing[op.to] = None /\ tree[op.to] \notin {None, op.file} => node[tree[op.to]] = None
    BY DEF Retarget, Races, LosingRaces
  <2>3. /\ RenameReleases(op.file)
        /\ node' = [node EXCEPT ![op.file] =
                     IF listing[op.to] = None THEN node[op.file] ELSE listing[op.to]]
        /\ name' = [name EXCEPT ![op.file] = op.to]
    BY DEF Retarget, Sound, TypeOK, NodesOK
  <2> QED
    BY <2>1, <2>2, <2>3
<1>c. UNCHANGED <<listing, drive, replaces, mount, local, kept>>
  BY DEF Retarget, mountVars
<1>d. \A k, m : Named(k, m)' <=> Named(k, m)
  BY <1>c, SameDrive
<1>n. /\ node'[f] = (IF listing[to] = None THEN node[f] ELSE listing[to]) /\ name'[f] = to
      /\ \A g \in Files : g # f => node'[g] = node[g] /\ name'[g] = name[g]
  BY <1>0 DEF Sound, TypeOK, NodesOK
<1>o. \A g \in Files : /\ \A k : Has(g, k)' <=> Has(g, k)
                       /\ rel'[g].up = rel[g].up /\ rel'[g].existing = rel[g].existing
                       /\ handle'[g].gone = handle[g].gone
  BY <1>0, <1>c, MovesOthers DEF OthersStay
<1>s. /\ SavesInPlace'
      /\ \A g \in Files : (Dirty(g)' <=> Dirty(g)) /\ (Doomed(g)' <=> Doomed(g))
  <2>1. \A g \in Files : node'[g] = None => node[g] = None
    BY <1>n
  <2> QED
    BY <1>0, <1>c, <2>1, MovesSaves
<1>m. /\ from # to /\ tree[from] = f
      /\ \A k \in Names : tree[k] = f => k = from
  BY <1>0, OpPlace, NoneIsNone DEF Sound, TreeInv, OneName
<1>v. \A m \in Names :
        /\ Shown(m) = tree[m] /\ Expected(m) = want[m] /\ (m # to => ~Unsettled(m))
        /\ Shown(m)' = IF m = to THEN f ELSE IF m = from THEN None ELSE tree[m]
        /\ Expected(m)' = IF m = to THEN want[from] ELSE IF m = from THEN None ELSE want[m]
        /\ ~Unsettled(m)'
        /\ BareAt(m)' <=> Shown(m)' # None /\ node'[Shown(m)'] = None
  <2>1. \A m \in Names :
          /\ Shown(m)' = IF m = to THEN f ELSE IF m = from THEN None ELSE tree[m]
          /\ Expected(m)' = IF m = to THEN want[from] ELSE IF m = from THEN None ELSE want[m]
          /\ ~Unsettled(m)'
          /\ BareAt(m)' <=> Shown(m)' # None /\ node'[Shown(m)'] = None
    BY <1>0, MovesViews
  <2> QED
    BY <1>0, <2>1 DEF Shown, Expected, Ahead, Unsettled, Twice, Moving
\* A link of f is one it created.
<1>u. \A k \in Links : rel[f].up = k => rel[f].existing = None
  <2>1. \A k \in Links : rel[f].up = k => Started(f)
    BY HasUploaded DEF Has, Live
  <2>2. Started(f) /\ rel[f].existing # None => node[f] = rel[f].existing
    BY <1>m DEF Seated, Sound, Inv, NodeInv, WorksOnNode
  <2> QED
    BY <1>0, <2>1, <2>2
<1>p. \A k \in Links : \A m \in Names : m # to /\ Passing(k, m) => Passing(k, m)'
  BY <1>n, <1>o, <1>s DEF Passing, Removes
\* What a file in the way created has a name already.
<1>q. ASSUME NEW l \in Links, NEW n \in Names, Named(l, n), listing[n] # l,
             NEW g \in Files, Hides(g, l)
      PROVE  Hides(g, l)'
  <2>1. CASE handle[g].gone => Doomed(g)
    BY <1>o, <1>s, <1>q, <2>1 DEF Hides
  <2>2. CASE handle[g].gone /\ ~Doomed(g)
    <3>1. tree[to] = g /\ rel[g].up = l /\ rel[g].existing = None /\ Seated(g) /\ g # f
      BY <1>0, <1>m, <1>q, <2>2 DEF Hides, Seated
    <3>2. rel[g].pc \in Uploaded \ {"claim", "trash"} /\ node[g] # None
      BY <2>2, <3>1, HasUploaded DEF Doomed
    <3>3. ~Relocating(g)
      BY <2>2, <3>1, NoneIsNone DEF Sound, Inv, FileInv, GoneStays
    <3>4. name[g] = rel[g].name
      BY <3>2, <3>3 DEF Uploaded, Relocating, Sound, Inv, FileInv, LandsRight
    <3>5. Trashed(l) \/ Named(l, name[g])
      BY <3>1, <3>4, NoneIsNone DEF Sound, Inv, NodeInv, UploadNamed
    <3>6. n = name[g]
      BY <1>q, <3>5 DEF Trashed, Named
    <3>7. Place(g, n)
      BY <3>1, <3>6 DEF Sound, Inv, FileInv, NameShown
    <3>8. n = to
      BY <1>0, <3>1, <3>7, NoneIsNone DEF Place, Moving, Sound, TreeInv, OneName
    <3>9. listing[to] # None
      BY <1>0, <3>1, <3>2, NoneIsNone
    <3>10. listing[to] \in Links /\ Named(listing[to], to)
      BY <3>9, OpFiles DEF LinkOrNone, Sound, Inv, DriveInv, ListedRight
    <3> QED
      BY <1>q, <3>8, <3>10 DEF Sound, Inv, DriveInv, OneActive
  <2> QED
    BY <2>1, <2>2
<1>1. Complete => Complete'
  <2> SUFFICES ASSUME Complete, NEW l \in Links, NEW n \in Names, Named(l, n), listing[n] # l
               PROVE  Unpublished(l)'
    BY <1>c, <1>d DEF Complete
  <2>1. PICK g \in Files : Hides(g, l)
    BY DEF Complete, Unpublished
  <2> QED
    BY <1>q, <2>1 DEF Unpublished
<1>2. ASSUME NEW m \in Names, m # from, m # to, Agrees(m) PROVE Agrees(m)'
  <2>1. Shown(m)' = Shown(m) /\ Expected(m)' = Expected(m) /\ (Shown(m) # None => Shown(m) \in Files \ {f})
    BY <1>2, <1>m, <1>v, ViewTypes, NoneIsNone
  <2>2. BareAt(m)' => BareAt(m)
    BY <1>n, <1>v, <2>1 DEF BareAt
  <2>3. \A k \in Links : Settles(k, m) => Settles(k, m)' /\ drive'[k].ver = drive[k].ver
    BY <1>c, <1>d, <1>o DEF Settles
  <2>4. \A g \in Files : Shown(m) = g => node'[g] = node[g]
    BY <1>n, <2>1, NoneIsNone
  <2>5. Undisturbed(m)
    BY <1>2, <1>c, <1>d, <1>o, <1>p, <1>s, <2>1, <2>2, <2>3, <2>4 DEF Undisturbed, SetAside
  <2> QED
    BY <1>2, <1>v, <2>5, UndisturbedAgrees
<1>3. ASSUME Agrees(from) PROVE Agrees(from)'
  <2>1. PendingBare(from)
    BY <1>3, <1>m, <1>v DEF Agrees
  <2>2. BareAt(from) /\ Shown(from) = f
    <3>1. Shown(from) = f /\ f # None
      BY <1>m, <1>v, NoneIsNone
    <3>2. node[f] # None => Creates(f)
      BY <1>0 DEF Creates, Started
    <3> QED
      BY <1>0, <3>1, <3>2 DEF BareAt
  <2>3. Bare(from)'
    <3> SUFFICES ASSUME NEW l \in Links, Named(l, from) PROVE Passing(l, from)'
      BY <1>d DEF Bare
    <3>1. Passing(l, from) \/ rel[f].up = l
      BY <2>1, <2>2 DEF PendingBare
    <3>2. CASE Passing(l, from)
      BY <1>m, <1>p, <3>2
    <3>3. CASE rel[f].up = l
      BY <1>m, <1>n, <1>o, <1>u, <3>3 DEF Passing, Removes
    <3> QED
      BY <3>1, <3>2, <3>3
  <2> QED
    BY <1>m, <1>v, <2>3 DEF Agrees, EmptyAgrees, CleanAgrees, PendingBare
<1>4. ASSUME Complete, Agrees(from) PROVE Agrees(to)'
  <2>0. Shown(to)' = f /\ f # None /\ Expected(to)' = Expected(from) /\ Shown(from) = f
    BY <1>m, <1>v, NoneIsNone
  <2>1. CleanAgrees(to)'
    <3> SUFFICES ASSUME ~Dirty(f)' PROVE Expected(to)' # None /\ Expected(to)' \in SetAside'
      BY <2>0 DEF CleanAgrees, Dirty, HasBuf
    <3>1. CleanAgrees(from) /\ ~Dirty(f)
      BY <1>4, <1>m, <1>s, <1>v DEF Agrees
    <3>2. node[f] = None
      <4> SUFFICES ASSUME node[f] # None PROVE FALSE
        OBVIOUS
      <4>1. Started(f) /\ rel[f].pc # "idle"
        BY <1>0 DEF Started
      <4> QED
        BY <3>1, <4>1, StartedDirty, BufferOfRelease DEF Dirty
    <3> QED
      BY <1>c, <2>0, <3>1, <3>2 DEF CleanAgrees, SetAside
  <2>2. PendingBare(to)'
    <3> SUFFICES ASSUME BareAt(to)', NEW l \in Links, Named(l, to)
                 PROVE  Passing(l, to)' \/ rel'[f].up = l
      BY <1>d, <2>0 DEF PendingBare
    <3>1. node'[f] = None
      BY <1>v, <2>0
    <3>2. listing[to] = None
      BY <1>n, <3>1
    <3>3. PICK g \in Files : Hides(g, l)
      BY <1>4, <3>2, NoneIsNone DEF Complete, Unpublished
    <3>4. rel[g].up = l /\ rel[g].existing = None
      BY <3>3 DEF Hides
    <3>5. CASE g # f /\ name[g] = to /\ ~Doomed(g)
      <4>1. HasBuf(g) /\ (node[g] = None => rel[g].pc \in {"claim", "trash"})
        BY <3>4, HasUploaded
      <4>2. Seated(g)
        BY <1>0, <3>3, <3>5, <4>1 DEF Hides, Seated, Sound, Inv, FileInv, BufferShown
      <4>3. Place(g, to)
        BY <3>5, <4>2 DEF Sound, Inv, FileInv, NameShown
      <4>4. tree[to] = g
        BY <1>0, <4>3 DEF Place, Moving
      <4>5. node[g] = None
        BY <1>0, <3>2, <3>5, <4>4, NoneIsNone
      <4>6. handle[g].gone
        BY <1>0, <4>1, <4>4 DEF Replaced, Sound, Inv, FileInv, DestGone
      <4> QED
        BY <3>5, <4>1, <4>5, <4>6 DEF Doomed
    <3>6. CASE g # f /\ (name[g] # to \/ Doomed(g))
      BY <1>n, <1>o, <1>s, <3>4, <3>6 DEF Passing, Removes
    <3>7. CASE g = f
      BY <1>o, <3>4, <3>7
    <3> QED
      BY <3>5, <3>6, <3>7
  <2>3. EmptyAgrees(to)'
    BY <2>0 DEF EmptyAgrees
  <2> QED
    BY <2>1, <2>2, <2>3 DEF Agrees
<1> QED
  BY <1>c, <1>m, <1>s, <1>1, <1>2, <1>3, <1>4 DEF InPlace, DriveInPlace, AllAgree


(***************************************************************************)
(* The drive answers that it has moved the link.                            *)
(***************************************************************************)

LEMMA RenameMoveInPlace == ASSUME Ground, InPlace, RenameMove PROVE InPlace'
<1> USE DEF Ground
<1>0. PICK f \in Files, l \in Links, from \in Names, to \in Names :
        /\ op.file = f /\ op.link = l /\ op.from = from /\ op.to = to /\ from # to /\ tree[from] = f
        /\ op.pc = "renameMove" /\ Linked
  <2>1. Linked /\ op.pc = "renameMove"
    BY DEF RenameMove, Linked
  <2>2. op.link \in Links
    BY <2>1, OpFiles DEF LinkOrNone, Sound, Inv, RenameInv, RenameShape
  <2> QED
    BY <2>1, <2>2, OpPlace
<1>c. /\ UNCHANGED <<tree, node, name, replaces, handle, rel, mount, local, kept, want>>
      /\ MoveDone(l, from, to) /\ \A g \in Files : ~(Landing(g) /\ rel[g].up = l)
      /\ op'.pc = "renameReplace" /\ op'.file = f /\ op'.from = from /\ op'.to = to /\ op'.link = l
  <2>1. /\ UNCHANGED <<tree, node, name, replaces, handle, rel, mount, local, kept, want>>
        /\ MoveDone(op.link, op.from, op.to) /\ op' = [op EXCEPT !.pc = "renameReplace"]
        /\ \A g \in Files : ~(Landing(g) /\ rel[g].up = op.link)
    BY DEF RenameMove, Raced, nodeVars, mountVars
  <2> QED
    BY <1>0, <2>1 DEF Sound, TypeOK, OpOK, Operations
<1>d. /\ Named(l, from) /\ \A n \in Names : Named(l, n)' <=> n = to
      /\ \A k \in Links : /\ drive'[k].ver = drive[k].ver
                          /\ k # l => /\ \A n \in Names : Named(k, n)' <=> Named(k, n)
                                      /\ ~Named(k, to) /\ ~Named(k, from)
  <2>1. /\ drive[l].st = "active" /\ drive' = [drive EXCEPT ![l].name = to]
        /\ Active(drive, to) \subseteq {l}
    BY <1>c DEF MoveDone, CanMove
  <2>2. /\ drive'[l].st = "active" /\ drive'[l].name = to
        /\ \A k \in Links : drive'[k].ver = drive[k].ver
        /\ \A k \in Links : k # l => drive'[k] = drive[k] /\ ~Named(k, to)
    BY <2>1 DEF Sound, TypeOK, FolderOK, DriveLinks, Active, Named
  <2>3. Named(l, from)
    BY <2>1, <1>0 DEF Sound, Inv, RenameInv, SourceRight, Trashed
  <2>4. \A k \in Links : k # l => ~Named(k, from)
    BY <2>3 DEF Sound, Inv, DriveInv, OneActive
  <2> QED
    BY <2>2, <2>3, <2>4 DEF Named
<1>m. \A n \in Names : listing'[n] = IF n = to THEN l ELSE IF n = from THEN None ELSE listing[n]
  <2>1. \A n \in Names : listing[n] # None => listing[n] \in Links /\ Named(listing[n], n)
    BY OpFiles DEF Sound, Inv, DriveInv, ListedRight, LinkOrNone
  <2>2. \A n \in Names : listing[n] = l => n = from
    BY <1>d, <2>1, NoneIsNone DEF Named
  <2> QED
    BY <1>0, <1>c, <2>2 DEF MoveDone, Upsert, Removed, Sound, TypeOK, FolderOK
<1>h. /\ \A g \in Files : \A k : Has(g, k)' <=> Has(g, k)
      /\ \A g : (Dirty(g)' <=> Dirty(g)) /\ (Doomed(g)' <=> Doomed(g))
  BY <1>c, SameAims DEF Dirty, HasBuf, Doomed
<1>p. /\ \A k, n : Passing(k, n)' <=> Passing(k, n)
      /\ \A k : Unpublished(k)' <=> Unpublished(k)
  BY <1>0, <1>c, <1>h DEF Passing, Removes, Unpublished, Hides
<1>v. \A m \in Names :
        /\ Shown(m) = tree[m] /\ Expected(m) = want[m] /\ (m # to => ~Unsettled(m))
        /\ Shown(m)' = IF m = to THEN f ELSE IF m = from THEN None ELSE tree[m]
        /\ Expected(m)' = IF m = to THEN want[from] ELSE IF m = from THEN None ELSE want[m]
        /\ Unsettled(m)' => m \in {from, to}
        /\ BareAt(m)' <=> Shown(m)' # None /\ node'[Shown(m)'] = None
        /\ BareAt(m) <=> Shown(m) # None /\ node[Shown(m)] = None
  BY <1>0, <1>c DEF Shown, Expected, Ahead, Unsettled, Twice, Moving, BareAt
<1>1. AllCarrying'
  <2>1. \A g \in Files : rel[g].up # None => drive'[rel[g].up].ver = drive[rel[g].up].ver
    BY <1>d, FileTypes, NoneIsNone DEF Sound, Releases
  <2> QED
    BY <1>0, <1>c, <2>1 DEF InPlace, SavesInPlace, AllCarrying, Carrying, Parked, Started, RunByRename, HasBuf
<1>2. SavesExpected'
  <2> SUFFICES ASSUME NEW m \in Names, NEW g \in Files, Shown(m)' = g, Dirty(g), handle[g].phase # "open"
               PROVE  Expected(m)' = handle[g].ver
    BY <1>c, <1>h DEF SavesExpected
  <2>1. PICK k \in Names : Shown(k) = g /\ Expected(k) = Expected(m)'
    BY <1>0, <1>v, NoneIsNone
  <2> QED
    BY <2>1 DEF InPlace, SavesInPlace, SavesExpected
<1>3. Complete => Complete'
  <2> SUFFICES ASSUME Complete, NEW k \in Links, NEW n \in Names, Named(k, n)', listing'[n] # k
               PROVE  Unpublished(k)'
    BY DEF Complete
  <2>1. k # l
    BY <1>d, <1>m
  <2>2. Named(k, n) /\ n # to /\ n # from
    BY <1>d, <2>1
  <2> QED
    BY <1>m, <1>p, <2>2 DEF Complete
<1>4. ASSUME NEW m \in Names, m # from, m # to, Agrees(m) PROVE Agrees(m)'
  <2>1. Shown(m)' = Shown(m) /\ Expected(m)' = Expected(m) /\ (BareAt(m)' => BareAt(m))
    BY <1>4, <1>c, <1>v
  <2>2. \A k \in Links : Named(k, m)' <=> Named(k, m)
    BY <1>4, <1>d DEF Named
  <2>3. Undisturbed(m)
    BY <1>c, <1>d, <1>h, <1>p, <2>1, <2>2 DEF Undisturbed, Settles, SetAside
  <2> QED
    BY <1>4, <1>v, <2>3, UndisturbedAgrees
<1>5. Agrees(from)'
  <2>1. \A k \in Links : ~Named(k, from)'
    BY <1>0, <1>d
  <2> QED
    BY <1>0, <1>v, <2>1 DEF Agrees, EmptyAgrees, CleanAgrees, PendingBare, Bare
<1>6. ASSUME Agrees(from) PROVE Agrees(to)'
  <2>0. /\ Shown(to)' = f /\ f # None /\ Expected(to)' = Expected(from) /\ Shown(from) = f
        /\ CleanAgrees(from) /\ PendingBare(from)
    BY <1>0, <1>6, <1>v, NoneIsNone DEF Agrees
  <2>1. CleanAgrees(to)'
    <3>1. OnDrive(from) => OnDrive(to)'
      <4>1. \A k \in Links : Named(k, from) => k = l
        BY <1>d
      <4>2. Named(l, to)' /\ drive'[l].ver = drive[l].ver
        BY <1>d
      <4> QED
        BY <1>h, <2>0, <4>1, <4>2 DEF OnDrive
    <3> QED
      BY <1>c, <1>h, <2>0, <3>1 DEF CleanAgrees, SetAside
  <2>2. PendingBare(to)'
    <3> SUFFICES ASSUME node[f] = None PROVE Passing(l, to) \/ rel[f].up = l
      BY <1>c, <1>d, <1>p, <1>v, <2>0 DEF PendingBare
    <3>1. Passing(l, from) \/ rel[f].up = l
      BY <1>d, <1>v, <2>0 DEF PendingBare
    <3>2. ASSUME NEW g \in Files, Removes(g, l, from), g # f, ~Doomed(g) PROVE name[g] # to
      <4>1. rel[g].up = l /\ name[g] # from /\ Has(g, l) /\ rel[g].pc \in Uploaded
        BY <3>2, HasUploaded DEF Removes
      <4>2. handle[g].gone /\ rel[g].name = from
        BY <1>0, <3>2, <4>1 DEF Makes, Sound, Inv, RenameInv, MovedGone, MovedPending
      <4>3. rel[g].pc = "patch"
        BY <1>c, <3>2, <4>1, <4>2 DEF Doomed, Uploaded, Landing
      <4>4. Relocating(g)
        BY <4>1, <4>2, <4>3 DEF Relocating
      <4> QED
        BY <4>1, <4>2, <4>4, NoneIsNone DEF Sound, Inv, FileInv, GoneStays
    <3> QED
      BY <3>1, <3>2 DEF Passing, Removes
  <2>3. EmptyAgrees(to)'
    BY <2>0 DEF EmptyAgrees
  <2> QED
    BY <2>1, <2>2, <2>3 DEF Agrees
<1> QED
  BY <1>c, <1>1, <1>2, <1>3, <1>4, <1>5, <1>6 DEF InPlace, SavesInPlace, DriveInPlace, AllAgree


LEMMA DirStepInPlace == ASSUME Ground, InPlace, DirStep PROVE InPlace'
BY UnlinkPendingInPlace, UnlinkTrashInPlace, RenamePendingInPlace, RetargetInPlace,
   RenameTrashInPlace, RenameMoveInPlace, RenameReplaceInPlace, RenameApplyInPlace DEF DirStep

LEMMA UserStepInPlace == ASSUME Ground, InPlace, UserStep PROVE InPlace'
BY LookupInPlace, CreateInPlace, OpenInPlace, UnlinkInPlace, RenameInPlace, WriteInPlace,
   TruncateInPlace, CloseInPlace DEF UserStep

LEMMA UnmountStepInPlace == ASSUME Ground, InPlace, UnmountStep PROVE InPlace'
<1>1. CASE BeginFlush \/ PassDone \/ FlushDeadline
  BY <1>1, RestsInPlace DEF BeginFlush, PassDone, FlushDeadline, treeVars, nodeVars, fateVars
<1>2. CASE AbandonKept
  BY <1>2, AbandonInPlace
<1>3. CASE Detach \/ ExternalUnmount \/ Kill
  BY <1>3, ExitInPlace DEF Detach, ExternalUnmount, Kill
<1>4. ASSUME NEW f \in Files, FlushSettle(f) PROVE InPlace'
  <2>1. CASE handle[f].phase = "waiting"
    BY <1>4, <2>1, SettleInPlace DEF FlushSettle, treeVars, nodeVars, fateVars
  <2>2. CASE handle[f].phase # "waiting"
    BY <1>4, <2>2, RestsInPlace DEF FlushSettle, treeVars, nodeVars, fateVars
  <2> QED
    BY <2>1, <2>2
<1> QED
  BY <1>1, <1>2, <1>3, <1>4 DEF UnmountStep

LEMMA NextInPlace == ASSUME Ground, InPlace, [Next]_vars PROVE InPlace'
<1>1. ASSUME NEW f \in Files, ReleaseStep(f) PROVE InPlace'
  BY <1>1, ReleaseStepInPlace
<1>2. ASSUME NEW f \in Files, TimerFires(f) PROVE InPlace'
  BY <1>2, SettleInPlace DEF TimerFires, treeVars, nodeVars, mountVars, fateVars
<1>3. CASE DirStep
  BY <1>3, DirStepInPlace
<1>4. CASE UserStep
  BY <1>4, UserStepInPlace
<1>5. CASE Refresh
  BY <1>5, RestsInPlace DEF Refresh, nodeVars, mountVars, fateVars
<1>6. CASE UnmountStep
  BY <1>6, UnmountStepInPlace
<1>7. CASE Terminated \/ UNCHANGED vars
  BY <1>7, RestsInPlace DEF Terminated, vars, treeVars, nodeVars, mountVars, fateVars
<1> QED
  BY <1>1, <1>2, <1>3, <1>4, <1>5, <1>6, <1>7 DEF Next, MountedNext

LEMMA InitInPlace == Init => InPlace
<1> SUFFICES ASSUME Init PROVE InPlace
  OBVIOUS
<1>1. /\ op.pc = "idle" /\ op.pc \in NoMoves
      /\ \A f \in Files : /\ handle[f].phase = "none" /\ rel[f].pc = "idle" /\ rel[f].up = None
                          /\ \A l : ~Has(f, l)
  BY DEF Init, NoOp, NoMoves, NoHandle, NoRelease, Has, Live, Started
<1>2. \A n \in Names : /\ Shown(n) = None /\ Expected(n) = IF n = InitialName THEN 0 ELSE None
                       /\ ~BareAt(n)
  BY <1>1, StillViews DEF Init
<1>3. /\ 1 \in Links /\ Named(1, InitialName) /\ drive[1].ver = 0
      /\ \A l \in Links, n \in Names : Named(l, n) => l = 1 /\ n = InitialName
  BY WriteBufferAssumption DEF Init, Named, NoLink, Links
<1>4. AllCarrying
  BY <1>1 DEF AllCarrying, Carrying, Parked, Started, RunByRename, HasBuf, Uploaded
<1>5. SavesExpected
  BY <1>1 DEF SavesExpected, Dirty, HasBuf
<1>6. Complete
  BY <1>3 DEF Init, Complete
<1>7. AllAgree
  <2> SUFFICES ASSUME NEW n \in Names PROVE EmptyAgrees(n)
    BY <1>2 DEF AllAgree, Agrees, CleanAgrees, PendingBare
  <2>1. CASE n = InitialName
    BY <1>1, <1>2, <1>3, <2>1, WriteBufferAssumption DEF EmptyAgrees, OnDrive
  <2>2. CASE n # InitialName
    BY <1>2, <1>3, <2>2 DEF EmptyAgrees, Bare
  <2> QED
    BY <2>1, <2>2
<1> QED
  BY <1>4, <1>5, <1>6, <1>7 DEF InPlace, SavesInPlace, DriveInPlace

(***************************************************************************)
(* The drive settles.                                                       *)
(***************************************************************************)

\* The invariant of a run in which every request was answered and none of the known races
\* has happened.
PlaceHolds == Answered /\ races = {} => InPlace

LEMMA NextPlace ==
  ASSUME AlwaysInv, AlwaysInv', TurnsHold, TurnsHold', HistInv, PlaceHolds, [Next]_vars
  PROVE  PlaceHolds'
<1> SUFFICES ASSUME Answered, races' = {} PROVE InPlace'
  BY DEF PlaceHolds, Answered
<1>1. races = {}
  BY RacesStay
<1>2. Sound /\ Sound'
  BY <1>1 DEF Sound, AlwaysInv, TurnsHold
<1>3. Aside
  BY <1>1 DEF Aside, AlwaysInv, NamesInv, KeptInv, HistInv
<1> QED
  BY <1>1, <1>2, <1>3, NextInPlace DEF Ground, PlaceHolds

\* Once nothing is in flight, what is shown is the tree, and no Release is on its way to change
\* what the drive has.
LEMMA PlaceAgrees == ASSUME Sound, InPlace, Quiescent PROVE DriveAgrees
<1>1. /\ op.pc = "idle" /\ op.pc \in NoMoves /\ mount # "exited"
      /\ \A f \in Files : handle[f].phase = "none" /\ rel[f].pc = "idle"
  BY DEF Quiescent, NoMoves
<1>2. \A f \in Files : rel[f].up = None /\ ~Dirty(f)
  BY <1>1, RestingBuffer DEF Dirty, HasBuf
<1>3. \A l \in Links : \A n : ~Passing(l, n)
  BY <1>2, NoneIsNone DEF Passing, Removes
<1> SUFFICES ASSUME NEW n \in Names
             PROVE  IF want[n] = None THEN Active(drive, n) = {}
                    ELSE want[n] \in SetAside \/ \E l \in Active(drive, n) : drive[l].ver = want[n]
  BY DEF DriveAgrees
<1>4. Shown(n) = tree[n] /\ Expected(n) = want[n] /\ EmptyAgrees(n) /\ CleanAgrees(n)
  BY <1>1, StillViews DEF InPlace, DriveInPlace, AllAgree, Agrees
<1>5. Bare(n) => Active(drive, n) = {}
  BY <1>3 DEF Bare, Active, Named
<1>6. OnDrive(n) => \E l \in Active(drive, n) : drive[l].ver = want[n]
  BY <1>4 DEF OnDrive, Active, Named
<1>7. CASE tree[n] = None
  <2>1. IF want[n] = None THEN Bare(n) ELSE OnDrive(n)
    BY <1>4, <1>7 DEF EmptyAgrees
  <2> QED
    BY <2>1, <1>5, <1>6
<1>8. CASE tree[n] # None
  <2>1. tree[n] \in Files
    BY <1>8, OpFiles, NoneIsNone DEF Sound
  <2>2. ~Dirty(Shown(n))
    BY <1>2, <1>4, <2>1
  <2>3. want[n] # None /\ (want[n] \in SetAside \/ OnDrive(n))
    BY <1>4, <1>8, <2>2 DEF CleanAgrees
  <2> QED
    BY <2>3, <1>6
<1> QED
  BY <1>7, <1>8

\* Once nothing is in flight, the drive shows under each uploadable name exactly the save an
\* application expects there, or the unmount set that save aside: for any number of files,
\* links and saves, and whatever the interleaving of uploads, renames, deletes, reopens and
\* refreshes, as long as every request was answered and none of the known races has happened.
\* About claim, replace, unlinkPending and moveLink, which share out the work between a
\* Release that uploads and the operation that overtakes it.
THEOREM DriveSettles == Spec => []SettledDriveAgrees
<1>1. Init => HistInv /\ PlaceHolds
  BY InitSaves, InitInPlace DEF PlaceHolds
<1>2. AlwaysInv /\ AlwaysInv' /\ HistInv /\ [Next]_vars => HistInv'
  BY NextHist DEF AlwaysInv
<1>3. /\ AlwaysInv /\ AlwaysInv' /\ TurnsHold /\ TurnsHold' /\ HistInv /\ PlaceHolds /\ [Next]_vars
      => PlaceHolds'
  BY NextPlace
<1>4. Spec => []AlwaysInv
  BY NamesHold, KeptHolds, PTL DEF AlwaysInv
<1>5. AlwaysInv /\ TurnsHold /\ PlaceHolds => SettledDriveAgrees
  <2> SUFFICES ASSUME AlwaysInv, TurnsHold, PlaceHolds, Answered, races = {}, Quiescent
               PROVE  DriveAgrees
    BY DEF SettledDriveAgrees
  <2>1. Sound /\ InPlace
    BY DEF Sound, AlwaysInv, TurnsHold, PlaceHolds
  <2> QED
    BY <2>1, PlaceAgrees
<1> QED
  BY <1>1, <1>2, <1>3, <1>4, <1>5, AlwaysTurns, PTL DEF Spec

=============================================================================
