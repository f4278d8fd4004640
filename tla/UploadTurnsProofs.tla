------------------------- MODULE UploadTurnsProofs -------------------------
(***************************************************************************)
(* Proofs about WriteBuffer for any number of files, names, links, saves    *)
(* and upload slots: two uploads never run at once for one link, or to      *)
(* create one name.                                                         *)
(***************************************************************************)
EXTENDS WriteBufferSafetyProofs

(***************************************************************************)
(* What the invariant speaks of.                                            *)
(***************************************************************************)

Named(l, n) == drive[l].st = "active" /\ drive[l].name = n
Trashed(l)  == drive[l].st = "trashed"

\* A Release that may still commit, or has committed, an upload: one marked gone before
\* it holds uploadMu ends at its next look.
Live(f) == Started(f) /\ (handle[f].gone => HoldsMu(f))

\* What it uploads to: the link it found or got, or a new link under the name it read.
Has(f, l)     == Live(f) /\ l # None /\ l \in {rel[f].existing, rel[f].up}
Makes(f, n)   == Live(f) /\ rel[f].existing = None /\ rel[f].name = n
Aims(f, l, n) == IF l = None THEN Makes(f, n) ELSE Has(f, l)

\* The tree shows the file.  A rename moves it: replaced is the file it takes the place
\* of, and out the one it has taken the place of for good.
Seated(f)   == \E n \in Names : tree[n] = f
Replaced(f) == op.pc \in {"retarget", "renameApply", "renameWait"} /\ tree[op.to] = f
Out(f)      == op.pc \in {"renameApply", "renameWait"} /\ tree[op.to] = f

\* The names under which a file may be looked for, those of the tree and, while a rename
\* of a drive item is past the drive's answer, the new one too.
Moving      == op.pc \in {"renameReplace", "renameApply"}
Place(f, n) == IF op.pc = "renameWait" /\ op.file = f THEN n = op.to
               ELSE tree[n] = f \/ (Moving /\ op.file = f /\ n = op.to)

\* The rename of a drive item.
Linked == op.pc \in {"renameTrash", "renameMove", "renameReplace", "renameApply"}

\* x is on the chain of replaced files that begins with h.
Closed(S)   == \A x \in S : replaces[x] # None => replaces[x] \in S
After(h, x) == h # None /\ \A S \in SUBSET Files : h \in S /\ Closed(S) => x \in S

\* g's next upload comes after the one f runs now, and the Release of g still has that wait
\* before it.
Behind(f, g) == /\ handle[f].gone /\ HoldsMu(f) /\ (Seated(f) => g = op.file)
                /\ After(replaces[g], f)
InLine(f, g) == /\ Behind(f, g)
                /\ \/ rel[g].pc = "decide"
                   \/ rel[g].pc = "await" /\ After(rel[g].chain, f)

\* f is about to take over what g, whose place it takes, works on.
Takes(f, g) == op.pc = "retarget" /\ op.file = f /\ tree[op.to] = g

(***************************************************************************)
(* The inductive invariant, part by part.                                   *)
(***************************************************************************)

\* The drive and its listing.
OneActive   == \A l, k \in Links : \A n \in Names : Named(l, n) /\ Named(k, n) => l = k
ListedRight == \A n \in Names : listing[n] # None => Named(listing[n], n)

InUse(l)  == l # None => drive[l].st # "free"
LinksUsed == /\ \A f \in Files : InUse(node[f]) /\ InUse(rel[f].existing) /\ InUse(rel[f].up)
             /\ InUse(op.link)

\* The locals of a Release, by the step it is at.
Uploaded == {"claim", "trash", "patch", "publish", "moveTrash", "move"}
ShapeOf(f) ==
  /\ ~Started(f) => rel[f].existing = None /\ rel[f].up = None /\ rel[f].chain = None
  /\ rel[f].up # None => /\ rel[f].pc \in Uploaded
                         /\ rel[f].existing # None => rel[f].up = rel[f].existing
                         /\ rel[f].existing = None => rel[f].upName = rel[f].name
  /\ rel[f].pc = "trash" \/ Landing(f) => rel[f].up # None
  /\ rel[f].pc = "trash" => handle[f].gone
  /\ rel[f].chain # None => rel[f].pc = "await"
  /\ Landing(f) \/ (rel[f].pc = "patch" /\ rel[f].up # None) => node[f] # None
ReleaseShape == \A f \in Files : ShapeOf(f)

\* Where a file is shown, and whether its buffer is marked gone.
NameShown    == \A f \in Files : Seated(f) =>
                  /\ Place(f, name[f])
                  /\ Moving /\ op.file = f /\ name[f] = op.to => node[f] # None
GoneRight    == \A f \in Files : handle[f].gone => HasBuf(f) /\ (Seated(f) => Replaced(f))
BufferShown  == \A f \in Files : HasBuf(f) /\ ~handle[f].gone => Seated(f)
DestGone     == \A f \in Files : Replaced(f) /\ HasBuf(f) => handle[f].gone
ReplacedGone == \A g, h \in Files : replaces[g] = h =>
                  /\ HasBuf(h) => handle[h].gone
                  /\ Seated(h) => op.file = g /\ Replaced(h)
ChainGone    == \A g, h \in Files : rel[g].chain = h =>
                  /\ HasBuf(h) => handle[h].gone
                  /\ Seated(h) => Replaced(h)
GoneStays    == \A f \in Files : handle[f].gone /\ (rel[f].up # None \/ Seated(f)) => ~Relocating(f)
LandsRight   == \A f \in Files :
                  /\ rel[f].pc = "publish" => name[f] = rel[f].name
                  /\ rel[f].pc \in {"moveTrash", "move"} => name[f] = rel[f].to

\* The node of a file against the drive, the listing and its Release.
WorksOnNode == \A f \in Files :
                 Started(f) /\ rel[f].existing # None /\ Seated(f) => node[f] = rel[f].existing
UploadNamed == \A f \in Files :
                 (~handle[f].gone \/ Seated(f)) /\ rel[f].existing = None /\ rel[f].up # None =>
                    Trashed(rel[f].up) \/ Named(rel[f].up, rel[f].name)
NodeNamed   == \A f \in Files : Seated(f) /\ node[f] # None =>
                 \/ Trashed(node[f])
                 \/ \E n \in Names : Place(f, n) /\ Named(node[f], n)
                 \/ Relocating(f) /\ rel[f].existing = None /\ rel[f].up = node[f]
NodeAlive   == \A f \in Files : Seated(f) /\ ~Out(f) /\ node[f] # None /\ Trashed(node[f]) =>
                 \/ op.pc \in {"renameMove", "renameReplace"} /\ tree[op.to] = f
                 \/ /\ rel[f].existing = None /\ (Landing(f) \/ rel[f].pc = "patch")
                    /\ rel[f].up = node[f] \/ rel[f].pc = "move"
NodeListed  == \A f \in Files, n \in Names :
                 Place(f, n) /\ node[f] # None /\ Named(node[f], n) =>
                   listing[n] = node[f] \/ (rel[f].up = node[f] /\ rel[f].existing = None)

\* A link that a Release uploads to is the one it made, the one a rename moves, or one of a
\* file that the tree shows.
Held(l, n)  == \E k \in Files : /\ Place(k, n) /\ ~Out(k)
                                /\ node[k] = l \/ (Relocating(k) /\ rel[k].up # None)
LinkHeld    == \A f \in Files, l \in Links, n \in Names : Has(f, l) /\ Named(l, n) =>
                 \/ rel[f].existing = None /\ rel[f].name = n
                 \/ Moving /\ op.link = l
                 \/ listing[n] = l /\ Held(l, n)

\* The rename of a pending file, and of a drive item.
RenameShape   == /\ Linked => op.link # None
                 /\ op.pc \in OpSteps \ {"idle", "unlinkPending", "unlinkTrash"} => op.from # op.to
RetargetWaits == op.pc = "retarget" /\ tree[op.to] # None =>
                   \/ replaces[op.file] = tree[op.to] \/ node[op.file] # None
                   \/ ~HasBuf(op.file) \/ rel[op.file].pc = "patch"
PendingOwn    == (/\ op.pc \in {"renamePending", "retarget"}
                  /\ node[op.file] # None /\ Named(node[op.file], op.from))
                   => \/ rel[op.file].up = node[op.file] \/ ~Started(op.file)
                      \/ rel[op.file].existing # None
OthersMake    == op.pc \in {"renamePending", "retarget"} \/ Moving =>
                   \A f \in Files \ {op.file}, l \in Links : Has(f, l) /\ Named(l, op.from) =>
                     rel[f].existing = None /\ rel[f].name = op.from
SourceRight   == op.pc \in {"renameTrash", "renameMove"} =>
                   Trashed(op.link) \/ Named(op.link, op.from)
MovedRight    == Moving => Named(op.link, op.to) /\ listing[op.to] = op.link
MovedOwn      == Linked => \A g \in Files : g # op.file /\ Seated(g) /\ ~Out(g) => node[g] # op.link
MovedGone     == Linked => \A g \in Files : g # op.file /\ Has(g, op.link) => handle[g].gone
MovedUpload   == Linked => (rel[op.file].up = op.link => rel[op.file].existing = op.link)
MovedPending  == Linked => \A g \in Files :
                   node[op.file] = None /\ g # op.file /\ Has(g, op.link) => Makes(g, op.from)

\* Who uploads to what a file works on now is this file, or one it will wait for; and of two
\* Releases that upload to the same link or name, one waits for the other.
SeatFirst == \A f, g \in Files :
               f # g /\ Seated(g) /\ ~Out(g) /\ Aims(f, node[g], name[g]) =>
                 \/ Aims(g, node[g], name[g]) \/ Behind(f, g) \/ Takes(f, g) \/ Relocating(g)
OneByOne  == \A f, g \in Files, l \in LinkOrNone, n \in Names :
               f # g /\ Aims(f, l, n) /\ Aims(g, l, n) => InLine(f, g) \/ InLine(g, f)

DriveInv  == OneActive /\ ListedRight /\ LinksUsed
FileInv   == /\ ReleaseShape /\ NameShown /\ GoneRight /\ BufferShown /\ DestGone
             /\ ReplacedGone /\ ChainGone /\ GoneStays /\ LandsRight
NodeInv   == /\ WorksOnNode /\ UploadNamed /\ NodeNamed /\ NodeAlive /\ NodeListed /\ LinkHeld
RenameInv == /\ RenameShape /\ RetargetWaits /\ PendingOwn /\ OthersMake /\ SourceRight
             /\ MovedRight /\ MovedOwn /\ MovedGone /\ MovedUpload /\ MovedPending
TurnsInv  == SeatFirst /\ OneByOne
Inv       == DriveInv /\ FileInv /\ NodeInv /\ RenameInv /\ TurnsInv
Sound     == TypeOK /\ OwnedByRelease /\ TreeInv /\ Inv

(***************************************************************************)
(* The chains of replaced files.                                            *)
(***************************************************************************)

LEMMA AfterSelf == ASSUME NEW h \in Files PROVE After(h, h)
BY WriteBufferAssumption DEF After

LEMMA AfterNext ==
  ASSUME TypeOK, NEW h \in Files, NEW x \in Files, After(h, x), x # h
  PROVE  After(replaces[h], x)
<1>1. replaces[h] \in FileOrNone
  BY FileTypes
<1>2. CASE replaces[h] = None
  <2>1. {h} \in SUBSET Files /\ Closed({h})
    BY <1>2 DEF Closed
  <2> QED
    BY <2>1 DEF After
<1>3. CASE replaces[h] # None
  <2>1. SUFFICES ASSUME NEW S \in SUBSET Files, replaces[h] \in S, Closed(S) PROVE x \in S
    BY <1>3 DEF After
  <2>2. S \cup {h} \in SUBSET Files /\ Closed(S \cup {h})
    BY <2>1 DEF Closed
  <2>3. x \in S \cup {h}
    BY <2>2 DEF After
  <2> QED
    BY <2>3
<1> QED
  BY <1>2, <1>3

\* A chain is not cut while no file forgets the one it replaced.
LEMMA AfterKept ==
  ASSUME NEW h, NEW x, After(h, x), \A g \in Files : replaces[g] \in {None, replaces'[g]}
  PROVE  After(h, x)'
<1>1. \A S \in SUBSET Files : Closed(S)' => Closed(S)
  BY DEF Closed
<1> QED
  BY <1>1 DEF After

\* Nor when a file forgets that nobody replaced.
LEMMA AfterReset ==
  ASSUME TypeOK, NEW f \in Files, \A g \in Files : replaces[g] # f,
         \A g \in Files : g # f => replaces'[g] = replaces[g], replaces'[f] = None,
         NEW h \in FileOrNone, h # f, NEW x, After(h, x)
  PROVE  After(h, x)'
<1>1. SUFFICES ASSUME NEW S \in SUBSET Files, h \in S, Closed(S)' PROVE x \in S
  BY DEF After
<1>2. Closed(S \ {f})
  BY <1>1 DEF Closed
<1>3. h \in S \ {f} /\ S \ {f} \in SUBSET Files
  BY <1>1
<1> QED
  BY <1>2, <1>3 DEF After

(***************************************************************************)
(* What stays the same when the state it speaks of does.                    *)
(***************************************************************************)

LEMMA SameAims ==
  ASSUME NEW g \in Files, rel'[g] = rel[g], handle'[g].gone = handle[g].gone
  PROVE  /\ Started(g)' <=> Started(g)
         /\ HoldsMu(g)' <=> HoldsMu(g)
         /\ Landing(g)' <=> Landing(g)
         /\ Live(g)' <=> Live(g)
         /\ \A l : Has(g, l)' <=> Has(g, l)
         /\ \A n : Makes(g, n)' <=> Makes(g, n)
BY DEF Started, HoldsMu, Landing, Live, Has, Makes

LEMMA SameSeats ==
  ASSUME UNCHANGED <<tree, op>>
  PROVE  /\ (Linked' <=> Linked) /\ (Moving' <=> Moving)
         /\ \A g : /\ Seated(g)' <=> Seated(g)
                   /\ Replaced(g)' <=> Replaced(g)
                   /\ Out(g)' <=> Out(g)
                   /\ \A n : Place(g, n)' <=> Place(g, n)
                   /\ \A h : Takes(g, h)' <=> Takes(g, h)
BY DEF Linked, Moving, Seated, Replaced, Out, Place, Takes

LEMMA OpFiles ==
  ASSUME TypeOK
  PROVE  /\ op.pc # "idle" => op.file \in Files
         /\ Linked \/ Moving => op.file \in Files
         /\ op.from \in Names /\ op.to \in Names /\ op.link \in LinkOrNone
         /\ \A n \in Names : tree[n] \in FileOrNone /\ listing[n] \in LinkOrNone
BY DEF TypeOK, OpOK, Operations, TreeOK, FolderOK, Linked, Moving

LEMMA SameDrive ==
  ASSUME drive' = drive
  PROVE  \A l : /\ Trashed(l)' <=> Trashed(l)
                /\ InUse(l)' <=> InUse(l)
                /\ \A n : Named(l, n)' <=> Named(l, n)
BY DEF Trashed, InUse, Named

(***************************************************************************)
(* A Release goes on without an effect on anything but its own locals.      *)
(***************************************************************************)

\* What such a step may do to the locals.
Proceeds(f) ==
  /\ \A g \in Files : g # f => rel'[g] = rel[g]
  /\ rel'[f].existing = rel[f].existing /\ rel'[f].up = rel[f].up
  /\ rel'[f].name = rel[f].name /\ rel'[f].upName = rel[f].upName
  /\ Started(f) /\ Started(f)' /\ (HoldsMu(f) => HoldsMu(f)')
  /\ (Live(f)' <=> Live(f)) /\ (Relocating(f)' <=> Relocating(f))
  /\ \/ rel'[f].chain = rel[f].chain
     \/ \E g \in Files : rel'[f].chain = replaces[g]
  /\ \A x \in Files : InLine(x, f) =>
       (rel[f].pc = "decide" \/ (rel[f].pc = "await" /\ After(rel[f].chain, x)))'
  /\ rel[f].pc = "patch" => rel'[f].pc = "patch" \/ node[f] # None
  /\ Landing(f) \/ rel[f].pc = "patch" => rel[f].pc # "move" /\ Landing(f)'
  /\ ShapeOf(f)'
  /\ rel'[f].pc = "publish" => name[f] = rel'[f].name
  /\ rel'[f].pc \in {"moveTrash", "move"} => name[f] = rel'[f].to
  /\ \A g \in Files : handle'[g].gone = handle[g].gone /\ (HasBuf(g)' <=> HasBuf(g))

LEMMA ProceedsKeeps ==
  ASSUME Sound, NEW f \in Files, Proceeds(f),
         UNCHANGED <<tree, listing, drive, node, name, replaces, op>>
  PROVE  Inv'
<1> USE DEF Sound
<1>f. \A g \in Files : g # f => rel'[g] = rel[g] /\ handle'[g].gone = handle[g].gone
  BY DEF Proceeds
<1>r. \A g \in Files : /\ rel'[g].existing = rel[g].existing /\ rel'[g].up = rel[g].up
                       /\ rel'[g].name = rel[g].name /\ rel'[g].upName = rel[g].upName
                       /\ handle'[g].gone = handle[g].gone /\ (HasBuf(g)' <=> HasBuf(g))
  BY DEF Proceeds
<1>s. \A g \in Files : /\ Started(g)' <=> Started(g)
                       /\ HoldsMu(g) => HoldsMu(g)'
                       /\ Live(g)' <=> Live(g)
                       /\ Relocating(g)' <=> Relocating(g)
  BY <1>f, SameAims DEF Proceeds, Relocating
<1>a. \A g \in Files : /\ \A l : Has(g, l)' <=> Has(g, l)
                       /\ \A n : Makes(g, n)' <=> Makes(g, n)
                       /\ \A l, n : Aims(g, l, n)' <=> Aims(g, l, n)
  BY <1>r, <1>s DEF Has, Makes, Aims
<1>t. /\ (Linked' <=> Linked) /\ (Moving' <=> Moving)
      /\ \A g : /\ Seated(g)' <=> Seated(g)
                /\ Replaced(g)' <=> Replaced(g)
                /\ Out(g)' <=> Out(g)
                /\ \A n : Place(g, n)' <=> Place(g, n)
                /\ \A h : Takes(g, h)' <=> Takes(g, h)
  BY SameSeats
<1>d. \A l : /\ Trashed(l)' <=> Trashed(l)
             /\ InUse(l)' <=> InUse(l)
             /\ \A n : Named(l, n)' <=> Named(l, n)
  BY SameDrive
<1>p. \A h, x : After(h, x) => After(h, x)'
  BY AfterKept
<1>b. \A g, h \in Files : Behind(g, h) => Behind(g, h)'
  BY <1>r, <1>s, <1>t, <1>p DEF Behind
<1>l. \A g, h \in Files : InLine(g, h) => InLine(g, h)'
  <2>1. ASSUME NEW g \in Files, NEW h \in Files, InLine(g, h), h # f PROVE InLine(g, h)'
    BY <2>1, <1>f, <1>b, <1>p DEF InLine
  <2>2. ASSUME NEW g \in Files, InLine(g, f) PROVE InLine(g, f)'
    BY <2>2, <1>b DEF InLine, Proceeds
  <2> QED
    BY <2>1, <2>2
<1>1. DriveInv'
  BY <1>r, <1>d DEF Inv, DriveInv, OneActive, ListedRight, LinksUsed
<1>2. ReleaseShape'
  BY <1>f, SameAims DEF Inv, FileInv, ReleaseShape, ShapeOf, Proceeds
<1>3. NameShown' /\ GoneRight' /\ BufferShown' /\ DestGone' /\ ReplacedGone'
  BY <1>r, <1>t DEF Inv, FileInv, NameShown, GoneRight, BufferShown, DestGone, ReplacedGone
<1>4. ChainGone'
  BY <1>f, <1>r, <1>t DEF Inv, FileInv, ChainGone, ReplacedGone, Proceeds
<1>5. GoneStays' /\ LandsRight'
  BY <1>f, <1>r, <1>s, <1>t DEF Inv, FileInv, GoneStays, LandsRight, Proceeds
<1>6. WorksOnNode' /\ UploadNamed' /\ NodeNamed' /\ NodeListed'
  BY <1>r, <1>s, <1>t, <1>d DEF Inv, NodeInv, WorksOnNode, UploadNamed, NodeNamed, NodeListed
<1>7. NodeAlive'
  BY <1>f, <1>r, <1>t, <1>d, SameAims DEF Inv, NodeInv, NodeAlive, Proceeds
<1>8. LinkHeld'
  <2>1. \A l, n : Held(l, n)' <=> Held(l, n)
    BY <1>r, <1>s, <1>t DEF Held
  <2> QED
    BY <2>1, <1>r, <1>a, <1>t, <1>d DEF Inv, NodeInv, LinkHeld
<1>9. RenameShape' /\ SourceRight' /\ MovedRight'
  BY <1>t, <1>d DEF Inv, RenameInv, RenameShape, SourceRight, MovedRight
<1>10. MovedOwn' /\ MovedGone' /\ MovedUpload' /\ MovedPending'
  BY <1>r, <1>a, <1>t, OpFiles DEF Inv, RenameInv, MovedOwn, MovedGone, MovedUpload, MovedPending
<1>11. OthersMake'
  BY <1>r, <1>a, <1>t, <1>d DEF Inv, RenameInv, OthersMake
<1>12. PendingOwn'
  BY <1>r, <1>s, <1>d DEF Inv, RenameInv, PendingOwn, TypeOK, OpOK
<1>13. RetargetWaits'
  BY <1>f, <1>r DEF Inv, RenameInv, RetargetWaits, Proceeds, TypeOK, OpOK
<1>14. TurnsInv'
  BY <1>s, <1>a, <1>t, <1>b, <1>l DEF Inv, TurnsInv, SeatFirst, OneByOne
<1> QED
  BY <1>1, <1>2, <1>3, <1>4, <1>5, <1>6, <1>7, <1>8, <1>9, <1>10,
   <1>11, <1>12, <1>13, <1>14 DEF Inv, FileInv, NodeInv, RenameInv

(***************************************************************************)
(* A Release returns.                                                       *)
(***************************************************************************)

\* Its locals go, what is left of its buffer is parked, and the rename that ran it moves
\* the file in the tree.
SeatsAfter(f) == \/ UNCHANGED <<op, tree>>
                 \/ RunByRename(f) /\ op' = NoOp /\ tree' = Moved(tree, op.from, op.to)
Ends(f) ==
  /\ rel[f].pc # "idle"
  /\ rel' = [rel EXCEPT ![f] = NoRelease]
  /\ \A g \in Files : g # f => handle'[g].gone = handle[g].gone /\ (HasBuf(g)' <=> HasBuf(g))
  /\ handle'[f].gone => HasBuf(f)'
  /\ HasBuf(f)' => handle'[f].gone = handle[f].gone
  /\ SeatsAfter(f)

\* A file that takes the place of another stays where it is; the other one goes.
LEMMA EndsSeats ==
  ASSUME Sound, NEW f \in Files, SeatsAfter(f)
  PROVE  /\ op'.pc # "idle" => op' = op /\ tree' = tree
         /\ op.pc # "renameWait" => op' = op /\ tree' = tree
         /\ \A g \in Files :
              /\ Seated(g)' => Seated(g) /\ \A n \in Names : Place(g, n)' <=> Place(g, n)
              /\ Replaced(g)' => Replaced(g)
              /\ Replaced(g) => Replaced(g)' \/ ~Seated(g)'
              /\ Seated(g) /\ ~Out(g) <=> Seated(g)' /\ ~Out(g)'
              /\ \A n \in Names : Place(g, n)' => Place(g, n)
              /\ \A n \in Names : Place(g, n) => Seated(g)
         /\ (Linked' <=> Linked) /\ (Moving' <=> Moving)
         /\ \A g, h : Takes(g, h)' <=> Takes(g, h)
<1> USE DEF Sound
<1>1. \A g \in Files : \A n \in Names : Place(g, n) => Seated(g)
  BY OpFiles DEF Place, Seated, TreeInv, OpFile, Moving
<1>2. CASE UNCHANGED <<op, tree>>
  BY <1>1, <1>2, SameSeats
<1>3. CASE RunByRename(f) /\ op' = NoOp /\ tree' = Moved(tree, op.from, op.to)
  <2>1. op.pc = "renameWait" /\ op'.pc = "idle" /\ op.from # op.to /\ op.file = f
    BY <1>3 DEF RunByRename, NoOp, Inv, RenameInv, RenameShape, OpSteps
  <2>2. /\ ~Linked /\ ~Linked' /\ ~Moving /\ ~Moving'
        /\ \A g, h : ~Takes(g, h) /\ ~Takes(g, h)'
        /\ \A g : ~Replaced(g)' /\ ~Out(g)' /\ (Replaced(g) <=> tree[op.to] = g)
                  /\ (Out(g) <=> tree[op.to] = g)
    BY <2>1 DEF Linked, Moving, Takes, Replaced, Out
  <2>a. op.from \in Names /\ op.to \in Names /\ tree[op.from] = f
    BY <2>1, OpFiles DEF TreeInv, OpFile
  <2>b. \A n \in Names : tree[n] = f => n = op.from
    BY <2>a, WriteBufferAssumption DEF TreeInv, OneName
  <2>c. \A n \in Names : tree'[n] = IF n = op.to THEN f ELSE IF n = op.from THEN None ELSE tree[n]
    <3>1. tree \in [Names -> FileOrNone] /\ tree' = [tree EXCEPT ![op.to] = tree[op.from], ![op.from] = None]
      BY <1>3 DEF Moved, TypeOK, TreeOK
    <3> QED
      BY <3>1, <2>a, <2>1
  <2>3. /\ op.from \in Names /\ op.to \in Names /\ tree[op.from] = f
        /\ \A n \in Names : tree[n] = f => n = op.from
        /\ \A n \in Names : tree'[n] = IF n = op.to THEN f ELSE IF n = op.from THEN None ELSE tree[n]
    BY <2>a, <2>b, <2>c
  <2>4. \A g \in Files, n \in Names :
          /\ Place(g, n) <=> (IF g = f THEN n = op.to ELSE tree[n] = g)
          /\ Place(g, n)' <=> tree'[n] = g
    BY <2>1, <2>2 DEF Place
  <2>5. f # None /\ None \notin Files
    BY WriteBufferAssumption
  <2>6. \A g \in Files : g # f =>
          /\ Seated(g)' <=> Seated(g) /\ tree[op.to] # g
          /\ Seated(g)' => \A n \in Names : Place(g, n)' <=> Place(g, n)
          /\ \A n \in Names : Place(g, n)' => Place(g, n)
    BY <2>3, <2>4, <2>5 DEF Seated, TreeInv, OneName
  <2>7. /\ Seated(f) /\ Seated(f)' /\ tree[op.to] # f
        /\ \A n \in Names : Place(f, n)' <=> Place(f, n)
    BY <2>1, <2>3, <2>4, <2>5 DEF Seated
  <2> QED
    BY <1>1, <2>1, <2>2, <2>6, <2>7
<1> QED
  BY <1>2, <1>3 DEF SeatsAfter

\* The drive and its listing keep what they know of the links that the others use.
Used(f, l) == \/ \E g \in Files : node[g] = l \/ (g # f /\ Has(g, l))
              \/ \E n \in Names : listing[n] = l
SameLink(l) == (Trashed(l)' <=> Trashed(l)) /\ \A n \in Names : Named(l, n)' <=> Named(l, n)
DriveKept(f) ==
  /\ \A l \in Links : (InUse(l) => InUse(l)') /\ (Used(f, l) => SameLink(l))
  /\ \A l \in Links : op.link = l => SameLink(l) \/ Trashed(l)'
  /\ \A n \in Names : listing[n] # None => listing'[n] = listing[n]
  /\ OneActive' /\ ListedRight'

\* What the return of f leaves as it was.
EndState(f) ==
  /\ rel'[f].pc = "idle" /\ rel'[f].existing = None /\ rel'[f].up = None
  /\ rel'[f].chain = None
  /\ ~Started(f)' /\ ~Live(f)' /\ ~Relocating(f)' /\ ~Landing(f)'
  /\ \A l : ~Has(f, l)'
  /\ \A n : ~Makes(f, n)'
  /\ \A l, n : ~Aims(f, l, n)'
  /\ \A g \in Files : g # f =>
       /\ rel'[g] = rel[g] /\ handle'[g].gone = handle[g].gone
       /\ Started(g)' <=> Started(g)
       /\ HoldsMu(g)' <=> HoldsMu(g)
       /\ Landing(g)' <=> Landing(g)
       /\ Relocating(g)' <=> Relocating(g)
       /\ \A l : Has(g, l)' <=> Has(g, l)
       /\ \A l, n : Makes(g, n)' <=> Makes(g, n)
       /\ \A l, n : Aims(g, l, n)' <=> Aims(g, l, n)
       /\ \A h \in Files : Behind(g, h) => Behind(g, h)'
  /\ \A g \in Files : /\ HasBuf(g)' => HasBuf(g) /\ handle'[g].gone = handle[g].gone
                      /\ handle'[g].gone => HasBuf(g)'
  /\ op'.pc # "idle" => op' = op /\ tree' = tree
  /\ op.pc # "renameWait" => op' = op /\ tree' = tree
  /\ Linked' \/ Moving' => op'.pc # "idle"
  /\ \A g : Replaced(g)' => op'.pc # "idle"
  /\ op'.pc = "idle" => op' = NoOp \/ op' = op
  /\ (Linked' <=> Linked) /\ (Moving' <=> Moving)
  /\ \A g, h : Takes(g, h)' <=> Takes(g, h)
  /\ \A g \in Files :
       /\ Seated(g)' => Seated(g) /\ \A n \in Names : Place(g, n)' <=> Place(g, n)
       /\ Replaced(g)' => Replaced(g)
       /\ Replaced(g) => Replaced(g)' \/ ~Seated(g)'
       /\ Seated(g) /\ ~Out(g) <=> Seated(g)' /\ ~Out(g)'
       /\ \A n \in Names : Place(g, n)' => Place(g, n)
       /\ \A n \in Names : Place(g, n) => Seated(g)

LEMMA EndsFacts ==
  ASSUME Sound, NEW f \in Files, Ends(f), replaces' = replaces,
         \A g \in Files : g # f => name'[g] = name[g]
  PROVE  EndState(f)
<1> USE DEF Sound
<1>e. /\ rel'[f].pc = "idle" /\ rel'[f].existing = None /\ rel'[f].up = None
      /\ rel'[f].chain = None
      /\ \A g \in Files : g # f => rel'[g] = rel[g] /\ handle'[g].gone = handle[g].gone
  BY DEF Ends, TypeOK, ReleaseOK, NoRelease
<1>h. \A g \in Files : /\ HasBuf(g)' => HasBuf(g) /\ handle'[g].gone = handle[g].gone
                       /\ handle'[g].gone => HasBuf(g)'
  BY DEF Ends, OwnedByRelease, HasBuf, Inv, FileInv, GoneRight
<1>s. ~Started(f)' /\ ~Live(f)' /\ ~Relocating(f)' /\ ~Landing(f)'
  BY <1>e DEF Started, Live, Relocating, Landing
<1>a. \A g \in Files : g # f =>
        /\ Started(g)' <=> Started(g)
        /\ HoldsMu(g)' <=> HoldsMu(g)
        /\ Landing(g)' <=> Landing(g)
        /\ Relocating(g)' <=> Relocating(g)
        /\ \A l : Has(g, l)' <=> Has(g, l)
        /\ \A l, n : Makes(g, n)' <=> Makes(g, n)
        /\ \A l, n : Aims(g, l, n)' <=> Aims(g, l, n)
  BY <1>e, SameAims DEF Relocating, Aims
<1>n. /\ \A l : ~Has(f, l)'
      /\ \A n : ~Makes(f, n)'
      /\ \A l, n : ~Aims(f, l, n)'
  BY <1>s DEF Has, Makes, Aims
<1>t. /\ op'.pc # "idle" => op' = op /\ tree' = tree
      /\ op.pc # "renameWait" => op' = op /\ tree' = tree
      /\ \A g \in Files :
           /\ Seated(g)' => Seated(g) /\ \A n \in Names : Place(g, n)' <=> Place(g, n)
           /\ Replaced(g)' => Replaced(g)
           /\ Replaced(g) => Replaced(g)' \/ ~Seated(g)'
           /\ Seated(g) /\ ~Out(g) <=> Seated(g)' /\ ~Out(g)'
           /\ \A n \in Names : Place(g, n)' => Place(g, n)
           /\ \A n \in Names : Place(g, n) => Seated(g)
      /\ (Linked' <=> Linked) /\ (Moving' <=> Moving)
      /\ \A g, h : Takes(g, h)' <=> Takes(g, h)
  BY EndsSeats DEF Ends
<1>o. /\ Linked' \/ Moving' => op'.pc # "idle"
      /\ \A g : Replaced(g)' => op'.pc # "idle"
      /\ op'.pc = "idle" => op' = NoOp \/ op' = op
  BY DEF Linked, Moving, Replaced, Ends, SeatsAfter
<1>b. \A g, h \in Files : g # f /\ Behind(g, h) => Behind(g, h)'
  <2> SUFFICES ASSUME NEW g \in Files, NEW h \in Files, g # f, Behind(g, h) PROVE Behind(g, h)'
    OBVIOUS
  <2>1. handle'[g].gone /\ HoldsMu(g)' /\ After(replaces[h], g)'
    BY <1>e, <1>a, AfterKept DEF Behind
  <2>2. Seated(g)' => h = op'.file
    BY <1>t, <1>o DEF Behind, Inv, FileInv, GoneRight
  <2> QED
    BY <2>1, <2>2 DEF Behind
<1> QED
  BY <1>e, <1>h, <1>s, <1>a, <1>n, <1>t, <1>o, <1>b DEF EndState

\* The parts of the invariant that do not depend on the link and the name of f.
LEMMA EndsMost ==
  ASSUME Sound, NEW f \in Files, EndState(f), replaces' = replaces,
         \A g \in Files : g # f => name'[g] = name[g] /\ node'[g] = node[g]
  PROVE  /\ ReleaseShape' /\ GoneRight' /\ BufferShown' /\ DestGone' /\ ReplacedGone'
         /\ ChainGone' /\ GoneStays' /\ LandsRight' /\ WorksOnNode'
         /\ RenameShape' /\ MovedGone' /\ MovedUpload' /\ OneByOne'
<1> USE DEF Sound
<1>1. ReleaseShape'
  <2>1. /\ rel'[f].pc = "idle" /\ rel'[f].existing = None /\ rel'[f].up = None
        /\ rel'[f].chain = None /\ ~Started(f)' /\ ~Landing(f)'
        /\ \A g \in Files : g # f =>
             /\ rel'[g] = rel[g] /\ node'[g] = node[g] /\ handle'[g].gone = handle[g].gone
             /\ Started(g)' <=> Started(g)
             /\ Landing(g)' <=> Landing(g)
    BY DEF EndState
  <2> QED
    BY <2>1 DEF Inv, FileInv, ReleaseShape, ShapeOf
<1>2. GoneRight' /\ DestGone'
  BY DEF EndState, Inv, FileInv, GoneRight, DestGone
<1>3. ReplacedGone'
  BY DEF EndState, Inv, FileInv, ReplacedGone
<1>4. BufferShown'
  <2>1. \A g : Out(g) => Replaced(g)
    BY DEF Out, Replaced
  <2> QED
    BY <2>1 DEF EndState, Inv, FileInv, BufferShown, DestGone
<1>5. ChainGone' /\ GoneStays' /\ LandsRight'
  BY WriteBufferAssumption DEF EndState, Inv, FileInv, ChainGone, GoneStays, LandsRight
<1>6. WorksOnNode'
  BY DEF EndState, Inv, NodeInv, WorksOnNode
<1>7. RenameShape'
  BY DEF EndState, Inv, RenameInv, RenameShape, OpSteps
<1>8. MovedGone' /\ MovedUpload'
  <2>1. Linked' => op' = op /\ Linked /\ op.link # None /\ op.file \in Files
    BY OpFiles DEF EndState, Inv, RenameInv, RenameShape
  <2>2. MovedGone'
    BY <2>1 DEF EndState, Inv, RenameInv, MovedGone
  <2>3. \A g \in Files : rel'[g] = rel[g] \/ rel'[g].up = None
    BY DEF EndState
  <2>4. MovedUpload'
    BY <2>1, <2>3 DEF Inv, RenameInv, MovedUpload
  <2> QED
    BY <2>2, <2>4
<1>9. OneByOne'
  <2>1. \A g, h \in Files : g # f /\ h # f /\ InLine(g, h) => InLine(g, h)'
    BY AfterKept DEF EndState, InLine
  <2> QED
    BY <2>1 DEF EndState, Inv, TurnsInv, OneByOne
<1> QED
  BY <1>1, <1>2, <1>3, <1>4, <1>5, <1>6, <1>7, <1>8, <1>9

\* Who uploads to what another file works on still waits, or is to be taken over.
LEMMA EndsSeatFirst ==
  ASSUME Sound, NEW f \in Files, EndState(f), NEW g \in Files, NEW h \in Files, g # h, h # f,
         Seated(g)', ~Out(g)', NEW l \in LinkOrNone, NEW n \in Names, Aims(h, l, n)',
         g # f => l = node[g] /\ n = name[g],
         g = f => Aims(f, l, n) \/ (l = node[f] /\ n = name[f] /\ ~Relocating(f))
  PROVE  (Aims(g, l, n) \/ Behind(h, g) \/ Takes(h, g) \/ Relocating(g))'
<1> USE DEF Sound
<1>1. Seated(g) /\ ~Out(g) /\ Aims(h, l, n)
  BY DEF EndState
<1>2. Behind(h, g) \/ Takes(h, g) => (Behind(h, g) \/ Takes(h, g))'
  BY DEF EndState
<1>3. CASE g # f
  BY <1>1, <1>2, <1>3 DEF EndState, Inv, TurnsInv, SeatFirst
<1>4. CASE g = f /\ ~Aims(f, l, n)
  BY <1>1, <1>2, <1>4 DEF Inv, TurnsInv, SeatFirst
<1>5. CASE g = f /\ Aims(f, l, n)
  <2>1. InLine(h, f) \/ InLine(f, h)
    BY <1>1, <1>5 DEF Inv, TurnsInv, OneByOne
  <2>2. InLine(f, h) => Takes(h, f)
    BY <1>1, <1>5 DEF InLine, Behind, Inv, FileInv, GoneRight, Replaced, Out, Takes
  <2> QED
    BY <2>1, <2>2, <1>2, <1>5 DEF InLine
<1> QED
  BY <1>3, <1>4, <1>5

LEMMA EndsKeeps ==
  ASSUME Sound, NEW f \in Files, Ends(f), DriveKept(f), UNCHANGED <<node, name, replaces>>,
         ~Landing(f), ~Relocating(f),
         rel[f].pc = "patch" => rel[f].up = None /\ ~HasBuf(f)',
         rel[f].up = None \/ rel[f].existing # None \/ node[f] # rel[f].up
  PROVE  Inv'
<1> USE DEF Sound
<1>e. EndState(f)
  BY EndsFacts
<1>l. \A g \in Files : node[g] # None => SameLink(node[g])
  BY DEF DriveKept, Used, TypeOK, NodesOK, LinkOrNone
<1>k. \A g \in Files, l \in Links : g # f /\ Has(g, l) => SameLink(l)
  BY DEF DriveKept, Used
<1>m. \A n \in Names : listing[n] # None => SameLink(listing[n]) /\ listing'[n] = listing[n]
  BY OpFiles DEF DriveKept, Used, LinkOrNone
<1>1. DriveInv'
  <2>1. \A l : l \in LinkOrNone /\ InUse(l) => InUse(l)'
    BY DEF DriveKept, InUse, LinkOrNone
  <2>2. InUse(op.link)'
    BY <2>1, <1>e, OpFiles DEF EndState, Inv, DriveInv, LinksUsed, NoOp, InUse
  <2>3. \A g \in Files : node[g] \in LinkOrNone /\ rel[g].existing \in LinkOrNone /\ rel[g].up \in LinkOrNone
    BY FileTypes DEF Releases
  <2>4. \A g \in Files : InUse(node[g])' /\ InUse(rel[g].existing)' /\ InUse(rel[g].up)'
    <3>1. InUse(rel[f].existing)' /\ InUse(rel[f].up)'
      BY <1>e DEF EndState, InUse
    <3> QED
      BY <1>e, <2>1, <2>3, <3>1 DEF EndState, Inv, DriveInv, LinksUsed
  <2> QED
    BY <2>2, <2>4 DEF DriveKept, DriveInv, LinksUsed
<1>2. /\ ReleaseShape' /\ GoneRight' /\ BufferShown' /\ DestGone' /\ ReplacedGone'
      /\ ChainGone' /\ GoneStays' /\ LandsRight' /\ WorksOnNode'
      /\ RenameShape' /\ MovedGone' /\ MovedUpload' /\ OneByOne'
  BY <1>e, EndsMost
<1>3. NameShown'
  BY <1>e, FileTypes DEF EndState, Inv, FileInv, NameShown
<1>6. NodeNamed'
  BY <1>e, <1>l DEF EndState, Inv, NodeInv, NodeNamed, SameLink
<1>7. UploadNamed'
  <2>1. \A g \in Files : rel[g].up # None => Has(g, rel[g].up) /\ rel[g].up \in Links /\ rel[g].name \in Names
    BY FileTypes DEF Inv, FileInv, ReleaseShape, ShapeOf, Uploaded, Has, Live, HoldsMu, Started, RelSteps, Releases, LinkOrNone
  <2>2. \A g \in Files : rel'[g].up # None => /\ g # f /\ rel'[g] = rel[g] /\ handle'[g].gone = handle[g].gone
                                              /\ Seated(g)' => Seated(g)
    BY <1>e DEF EndState
  <2> QED
    BY <2>1, <2>2, <1>k DEF Inv, NodeInv, UploadNamed, SameLink
<1>8. NodeAlive'
  BY <1>e, <1>l DEF EndState, Inv, NodeInv, NodeAlive, SameLink, Landing
<1>9. NodeListed'
  BY <1>e, <1>l, <1>m DEF EndState, Inv, NodeInv, NodeListed, SameLink
<1>10. LinkHeld'
  <2>1. \A l : \A n \in Names : Held(l, n) => Held(l, n)'
    BY <1>e DEF EndState, Held
  <2>2. Moving => op' = op
    BY <1>e DEF EndState
  <2> SUFFICES ASSUME NEW g \in Files, NEW l \in Links, NEW n \in Names, Has(g, l)', Named(l, n)'
               PROVE  (\/ rel[g].existing = None /\ rel[g].name = n
                       \/ Moving /\ op.link = l
                       \/ listing[n] = l /\ Held(l, n))'
    BY DEF LinkHeld
  <2>3. g # f /\ Has(g, l) /\ Named(l, n) /\ l # None
    BY <1>e, <1>k, WriteBufferAssumption DEF EndState, SameLink, Links
  <2>4. \/ rel[g].existing = None /\ rel[g].name = n
        \/ Moving /\ op.link = l
        \/ listing[n] = l /\ Held(l, n)
    BY <2>3 DEF Inv, NodeInv, LinkHeld
  <2> QED
    BY <2>1, <2>2, <2>3, <2>4, <1>e, <1>m DEF EndState
<1>11. SourceRight' /\ MovedRight'
  <2>2. SourceRight'
    BY <1>e, OpFiles, WriteBufferAssumption DEF EndState, LinkOrNone, Inv, RenameInv, RenameShape, SourceRight, SameLink, DriveKept, Linked
  <2>3. Moving => op.link # None /\ op' = op
    BY <1>e DEF EndState, Inv, RenameInv, RenameShape, Linked, Moving
  <2>4. MovedRight'
    BY <2>3, <1>e, <1>m, OpFiles DEF EndState, Inv, RenameInv, MovedRight, SameLink
  <2> QED
    BY <2>2, <2>4
<1>12. MovedOwn' /\ MovedPending'
  BY <1>e, OpFiles DEF EndState, Inv, RenameInv, MovedOwn, MovedPending
<1>13. OthersMake'
  BY <1>e, <1>k, OpFiles DEF EndState, Inv, RenameInv, OthersMake, SameLink
<1>14. PendingOwn'
  BY <1>e, <1>l, OpFiles DEF EndState, Inv, RenameInv, PendingOwn, SameLink
<1>15. RetargetWaits'
  BY <1>e, OpFiles DEF EndState, Inv, RenameInv, RetargetWaits
<1>16. SeatFirst'
  <2> SUFFICES ASSUME NEW h \in Files, NEW g \in Files, h # g, Seated(g)', ~Out(g)',
                      Aims(h, node[g], name[g])'
               PROVE  (Aims(g, node[g], name[g]) \/ Behind(h, g) \/ Takes(h, g) \/ Relocating(g))'
    BY DEF SeatFirst
  <2> QED
    BY <1>e, FileTypes, EndsSeatFirst DEF EndState
<1> QED
  BY <1>1, <1>2, <1>3, <1>6, <1>7, <1>8, <1>9, <1>10, <1>11, <1>12, <1>13,
     <1>14, <1>15, <1>16 DEF Inv, FileInv, NodeInv, RenameInv, TurnsInv

(***************************************************************************)
(* The steps of a Release that only change its locals.                      *)
(***************************************************************************)

\* What they leave alone.
Still == UNCHANGED <<tree, listing, drive, node, name, replaces, op>>

LEMMA BufferOfRelease ==
  ASSUME Sound, NEW f \in Files, rel[f].pc # "idle"
  PROVE  HasBuf(f) /\ handle[f].phase = "releasing"
BY DEF Sound, OwnedByRelease, HasBuf

LEMMA LocalsShape ==
  ASSUME Sound, NEW f \in Files
  PROVE  ShapeOf(f)
BY DEF Sound, Inv, FileInv, ReleaseShape

LEMMA DecideProceeds ==
  ASSUME Sound, NEW f \in Files, Decide(f), PhaseForName(f) = "releasing"
  PROVE  Proceeds(f) /\ Still
<1>1. /\ rel[f].pc = "decide" /\ Park(f, "releasing", handle[f].failed)
      /\ rel' = [rel EXCEPT ![f].pc = "await", ![f].chain = replaces[f]]
  BY DEF Decide
<1>2. /\ \A g \in Files : g # f => rel'[g] = rel[g]
      /\ rel'[f].pc = "await" /\ rel'[f].chain = replaces[f]
      /\ rel'[f].existing = rel[f].existing /\ rel'[f].up = rel[f].up
      /\ rel'[f].name = rel[f].name /\ rel'[f].upName = rel[f].upName
  <2>1. rel[f] \in Releases /\ rel \in [Files -> Releases]
    BY FileTypes DEF Sound, TypeOK, ReleaseOK
  <2> QED
    BY <1>1, <2>1 DEF Releases
<1>3. rel[f] \in Releases
  BY FileTypes DEF Sound
<1>4. \A g \in Files : handle'[g].gone = handle[g].gone /\ (HasBuf(g)' <=> HasBuf(g))
  BY <1>1, BufferOfRelease DEF Park, HasBuf, Sound, TypeOK, BuffersOK, Buffers
<1>5. Still
  BY DEF Decide, nodeVars, Still, Park
<1>6. \A x \in Files : InLine(x, f) => After(rel[f].chain, x)'
  BY <1>1, <1>2, <1>3, <1>5, AfterKept DEF InLine, Behind, Still
<1>7. ShapeOf(f)' /\ node' = node
  BY <1>1, <1>2, <1>3, <1>5, LocalsShape DEF ShapeOf, Started, Landing, Uploaded, Still
<1> QED
  BY <1>1, <1>2, <1>3, <1>4, <1>5, <1>6, <1>7
     DEF Proceeds, Started, HoldsMu, Live, Relocating, Landing, RelSteps

LEMMA AwaitReplacedProceeds ==
  ASSUME Sound, NEW f \in Files, AwaitReplaced(f)
  PROVE  Proceeds(f) /\ Still
<1>1. /\ rel[f].pc = "await" /\ rel[f].chain # None /\ ~HoldsMu(rel[f].chain)
      /\ rel' = [rel EXCEPT ![f].chain = replaces[rel[f].chain]]
  BY DEF AwaitReplaced
<1>2. /\ \A g \in Files : g # f => rel'[g] = rel[g]
      /\ rel'[f].pc = "await" /\ rel'[f].chain = replaces[rel[f].chain]
      /\ rel'[f].existing = rel[f].existing /\ rel'[f].up = rel[f].up
      /\ rel'[f].name = rel[f].name /\ rel'[f].upName = rel[f].upName
  <2>1. rel[f] \in Releases /\ rel \in [Files -> Releases]
    BY FileTypes DEF Sound, TypeOK, ReleaseOK
  <2> QED
    BY <1>1, <2>1 DEF Releases
<1>3. rel[f] \in Releases /\ rel[f].chain \in Files
  BY <1>1, FileTypes DEF Sound, Releases, FileOrNone
<1>4. Still /\ handle' = handle
  BY DEF AwaitReplaced, nodeVars, treeVars, Still
<1>5. \A x \in Files : InLine(x, f) => After(rel[f].chain, x)'
  <2> SUFFICES ASSUME NEW x \in Files, InLine(x, f) PROVE After(rel[f].chain, x)'
    OBVIOUS
  <2>1. After(rel[f].chain, x) /\ x # rel[f].chain
    BY <1>1 DEF InLine, Behind
  <2>2. After(replaces[rel[f].chain], x)
    BY <2>1, <1>3, AfterNext DEF Sound
  <2> QED
    BY <2>2, <1>2, <1>3, <1>4, AfterKept DEF Still
<1>6. ShapeOf(f)' /\ node' = node
  BY <1>1, <1>2, <1>3, <1>4, LocalsShape DEF ShapeOf, Started, Landing, Uploaded, Still
<1> QED
  BY <1>1, <1>2, <1>3, <1>4, <1>5, <1>6
     DEF Proceeds, Started, HoldsMu, Live, HasBuf, Relocating, Landing, RelSteps

LEMMA LockUploadProceeds ==
  ASSUME Sound, NEW f \in Files, LockUpload(f), ~handle[f].gone
  PROVE  Proceeds(f) /\ Still
<1>1. rel[f].pc = "await" /\ rel[f].chain = None /\ rel' = [rel EXCEPT ![f].pc = "queued"]
  BY DEF LockUpload, Step
<1>2. /\ \A g \in Files : g # f => rel'[g] = rel[g]
      /\ rel'[f].pc = "queued" /\ rel'[f].chain = rel[f].chain
      /\ rel'[f].existing = rel[f].existing /\ rel'[f].up = rel[f].up
      /\ rel'[f].name = rel[f].name /\ rel'[f].upName = rel[f].upName
  <2>1. rel[f] \in Releases /\ rel \in [Files -> Releases]
    BY FileTypes DEF Sound, TypeOK, ReleaseOK
  <2> QED
    BY <1>1, <2>1 DEF Releases
<1>3. Still /\ handle' = handle
  BY DEF LockUpload, nodeVars, Still
<1>4. ShapeOf(f)' /\ node' = node
  BY <1>1, <1>2, <1>3, LocalsShape DEF ShapeOf, Started, Landing, Uploaded, Still
<1> QED
  BY <1>1, <1>2, <1>3, <1>4
     DEF Proceeds, Started, HoldsMu, Live, HasBuf, Relocating, Landing, RelSteps, InLine, After

LEMMA AcquireSlotProceeds ==
  ASSUME Sound, NEW f \in Files, AcquireSlot(f)
  PROVE  Proceeds(f) /\ Still
<1>1. rel[f].pc = "queued" /\ rel' = [rel EXCEPT ![f].pc = "upload", ![f].ver = handle[f].ver]
  BY DEF AcquireSlot
<1>2. /\ \A g \in Files : g # f => rel'[g] = rel[g]
      /\ rel'[f].pc = "upload" /\ rel'[f].chain = rel[f].chain
      /\ rel'[f].existing = rel[f].existing /\ rel'[f].up = rel[f].up
      /\ rel'[f].name = rel[f].name /\ rel'[f].upName = rel[f].upName
  <2>1. rel[f] \in Releases /\ rel \in [Files -> Releases]
    BY FileTypes DEF Sound, TypeOK, ReleaseOK
  <2> QED
    BY <1>1, <2>1 DEF Releases
<1>3. Still /\ handle' = handle
  BY DEF AcquireSlot, nodeVars, treeVars, Still
<1>4. ShapeOf(f)' /\ node' = node
  BY <1>1, <1>2, <1>3, LocalsShape DEF ShapeOf, Started, Landing, Uploaded, Still
<1> QED
  BY <1>1, <1>2, <1>3, <1>4
     DEF Proceeds, Started, HoldsMu, Live, HasBuf, Relocating, Landing, RelSteps, InLine

\* The upload of a buffer marked gone is to be trashed.
LEMMA ClaimProceeds ==
  ASSUME Sound, NEW f \in Files, Claim(f), handle[f].gone, rel[f].existing = None, rel[f].up # None
  PROVE  Proceeds(f) /\ Still
<1>1. rel[f].pc = "claim" /\ rel' = [rel EXCEPT ![f].pc = "trash"]
  BY DEF Claim, Step
<1>2. /\ \A g \in Files : g # f => rel'[g] = rel[g]
      /\ rel'[f].pc = "trash" /\ rel'[f].chain = rel[f].chain
      /\ rel'[f].existing = rel[f].existing /\ rel'[f].up = rel[f].up
      /\ rel'[f].name = rel[f].name /\ rel'[f].upName = rel[f].upName
  <2>1. rel[f] \in Releases /\ rel \in [Files -> Releases]
    BY FileTypes DEF Sound, TypeOK, ReleaseOK
  <2> QED
    BY <1>1, <2>1 DEF Releases
<1>3. Still /\ handle' = handle
  BY DEF Claim, nodeVars, Still
<1>4. ShapeOf(f)' /\ node' = node
  BY <1>1, <1>2, <1>3, LocalsShape DEF ShapeOf, Started, Landing, Uploaded, Still
<1> QED
  BY <1>1, <1>2, <1>3, <1>4
     DEF Proceeds, Started, HoldsMu, Live, HasBuf, Relocating, Landing, RelSteps, InLine

LEMMA PatchProceeds ==
  ASSUME Sound, NEW f \in Files, Patch(f), rel[f].up # None
  PROVE  Proceeds(f) /\ Still
<1>0. PICK pc \in {"publish", "moveTrash"} :
        /\ pc = "publish" <=> name[f] = rel[f].name
        /\ rel' = [rel EXCEPT ![f].pc = pc, ![f].to = name[f]]
  BY DEF Patch
<1>1. rel[f].pc = "patch"
  BY DEF Patch
<1>2. /\ \A g \in Files : g # f => rel'[g] = rel[g]
      /\ rel'[f].pc = pc /\ rel'[f].chain = rel[f].chain /\ rel'[f].to = name[f]
      /\ rel'[f].existing = rel[f].existing /\ rel'[f].up = rel[f].up
      /\ rel'[f].name = rel[f].name /\ rel'[f].upName = rel[f].upName
  <2>1. rel[f] \in Releases /\ rel \in [Files -> Releases]
    BY FileTypes DEF Sound, TypeOK, ReleaseOK
  <2> QED
    BY <1>0, <2>1 DEF Releases
<1>3. Still /\ handle' = handle
  BY DEF Patch, nodeVars, Still
<1>4. ShapeOf(f)' /\ node' = node /\ name' = name /\ node[f] # None
  BY <1>0, <1>1, <1>2, <1>3, LocalsShape DEF ShapeOf, Started, Landing, Uploaded, Still
<1>5. Relocating(f)' <=> Relocating(f)
  BY <1>0, <1>1, <1>2, <1>4 DEF Relocating
<1> QED
  BY <1>0, <1>1, <1>2, <1>3, <1>4, <1>5
     DEF Proceeds, Started, HoldsMu, Live, HasBuf, Landing, RelSteps, InLine

(***************************************************************************)
(* The steps that end a Release.                                            *)
(***************************************************************************)

\* What becomes of its buffer.
BufferLeft(f) ==
  /\ \A g \in Files : g # f => handle'[g].gone = handle[g].gone /\ (HasBuf(g)' <=> HasBuf(g))
  /\ handle'[f].gone => HasBuf(f)'
  /\ HasBuf(f)' => handle'[f].gone = handle[f].gone

LEMMA DropLeaves == ASSUME Sound, NEW f \in Files, Drop(f) PROVE BufferLeft(f) /\ ~HasBuf(f)'
BY DEF Drop, BufferLeft, HasBuf, NoHandle, Sound, TypeOK, BuffersOK

LEMMA DiscardLeaves == ASSUME Sound, NEW f \in Files, Discard(f) PROVE BufferLeft(f)
BY DropLeaves DEF Discard, KeepUnsaved, BufferLeft, HasBuf, NoHandle, Sound, TypeOK, BuffersOK

LEMMA ParkLeaves ==
  ASSUME Sound, NEW f \in Files, NEW phase \in Phases \ {"none"}, NEW failed, Park(f, phase, failed)
  PROVE  BufferLeft(f)
BY DEF Park, BufferLeft, HasBuf, Sound, TypeOK, BuffersOK, Buffers

LEMMA KeepForRetryLeaves ==
  ASSUME Sound, NEW f \in Files, NEW permanent \in BOOLEAN, KeepForRetry(f, permanent)
  PROVE  BufferLeft(f)
<1>1. CASE handle[f].gone
  BY <1>1, DiscardLeaves DEF KeepForRetry
<1>2. CASE ~handle[f].gone /\ Closing
  BY <1>2, DiscardLeaves DEF KeepForRetry, KeepUnsaved, BufferLeft, HasBuf, NoHandle, Sound, TypeOK, BuffersOK
<1>3. CASE ~handle[f].gone /\ ~Closing
  <2>1. (\E phase \in Phases \ {"none"}, failed \in BOOLEAN : Park(f, phase, failed))
    <3>1. handle[f].failed \in BOOLEAN
      BY FileTypes DEF Sound, Buffers
    <3> QED
      BY <1>3, <3>1 DEF KeepForRetry, Phases
  <2> QED
    BY <2>1, ParkLeaves
<1> QED
  BY <1>1, <1>2, <1>3

LEMMA ReturnEnds ==
  ASSUME NEW f \in Files, NEW ok, Return(f, ok), ok \/ ~RunByRename(f), rel[f].pc # "idle",
         BufferLeft(f)
  PROVE  Ends(f)
BY DEF Return, Ends, SeatsAfter, BufferLeft

\* A reload of the listing forgets nothing the drive still has.
LEMMA FetchedRight ==
  ASSUME Sound
  PROVE  /\ \A n \in Names : listing[n] # None => Fetched(drive)[n] = listing[n]
         /\ \A n \in Names : Fetched(drive)[n] # None => Named(Fetched(drive)[n], n)
<1>1. \A n \in Names : Active(drive, n) # {} =>
        Fetched(drive)[n] \in Links /\ Named(Fetched(drive)[n], n)
  BY DEF Fetched, Active, Named
<1>2. \A n \in Names : listing[n] # None => listing[n] \in Links /\ listing[n] \in Active(drive, n)
  BY OpFiles DEF Sound, Inv, DriveInv, ListedRight, Named, Active, LinkOrNone
<1> QED
  BY <1>1, <1>2 DEF Sound, Inv, DriveInv, OneActive, ListedRight, Fetched

LEMMA DriveStays ==
  ASSUME Sound, NEW f \in Files, drive' = drive, listing' = listing \/ listing' = Fetched(drive)
  PROVE  DriveKept(f)
<1>1. OneActive' /\ \A l : SameLink(l) /\ (InUse(l)' <=> InUse(l))
  BY SameDrive DEF OneActive, SameLink, Sound, Inv, DriveInv
<1>2. ListedRight' /\ \A n \in Names : listing[n] # None => listing'[n] = listing[n]
  BY <1>1, FetchedRight DEF ListedRight, SameLink, Sound, Inv, DriveInv
<1> QED
  BY <1>1, <1>2 DEF DriveKept

\* What a Release holds when it has uploaded nothing.
LEMMA NothingUploaded ==
  ASSUME Sound, NEW f \in Files, rel[f].pc \notin Uploaded
  PROVE  rel[f].up = None /\ ~Landing(f) /\ ~Relocating(f) /\ rel[f].pc # "patch"
BY LocalsShape DEF ShapeOf, Uploaded, Landing, Relocating

LEMMA EndsBeforeUpload ==
  ASSUME Sound, NEW f \in Files, rel[f].pc \notin Uploaded, Ends(f), DriveKept(f),
         UNCHANGED <<node, name, replaces>>
  PROVE  Inv'
BY NothingUploaded, EndsKeeps

LEMMA ReadReleaseDrops ==
  ASSUME Sound, NEW f \in Files, ReadRelease(f), handle[f].gone \/ ~handle[f].dirty
  PROVE  Inv'
<1>1. Ends(f) /\ rel[f].pc \notin Uploaded
  BY DropLeaves, DiscardLeaves, ReturnEnds DEF ReadRelease, Uploaded
<1>2. DriveKept(f) /\ UNCHANGED <<node, name, replaces>>
  BY DriveStays DEF ReadRelease, nodeVars
<1> QED
  BY <1>1, <1>2, EndsBeforeUpload

LEMMA DecideParks ==
  ASSUME Sound, NEW f \in Files, Decide(f), PhaseForName(f) # "releasing"
  PROVE  Inv'
<1>1. PhaseForName(f) \in Phases \ {"none"}
  BY DEF PhaseForName, Phases
<1>2. Ends(f) /\ rel[f].pc \notin Uploaded
  BY <1>1, ParkLeaves, ReturnEnds DEF Decide, Uploaded
<1>3. DriveKept(f) /\ UNCHANGED <<node, name, replaces>>
  BY DriveStays DEF Decide, nodeVars
<1> QED
  BY <1>2, <1>3, EndsBeforeUpload

LEMMA LockUploadDrops ==
  ASSUME Sound, NEW f \in Files, LockUpload(f), handle[f].gone
  PROVE  Inv'
<1>1. Ends(f) /\ rel[f].pc \notin Uploaded
  BY DiscardLeaves, ReturnEnds DEF LockUpload, Uploaded
<1>2. DriveKept(f) /\ UNCHANGED <<node, name, replaces>>
  BY DriveStays DEF LockUpload, nodeVars
<1> QED
  BY <1>1, <1>2, EndsBeforeUpload

LEMMA QueueCancelledKeeps ==
  ASSUME Sound, NEW f \in Files, QueueCancelled(f), races' = {}
  PROVE  Inv'
<1>1. Ends(f) /\ rel[f].pc \notin Uploaded
  BY KeepForRetryLeaves, ReturnEnds DEF QueueCancelled, Uploaded, Raced
<1>2. DriveKept(f) /\ UNCHANGED <<node, name, replaces>>
  BY DriveStays DEF QueueCancelled, nodeVars
<1> QED
  BY <1>1, <1>2, EndsBeforeUpload

LEMMA UploadFailsKeeps ==
  ASSUME Sound, NEW f \in Files, UploadFails(f), races' = {}
  PROVE  Inv'
<1>1. Ends(f) /\ rel[f].pc \notin Uploaded
  BY KeepForRetryLeaves, ReturnEnds DEF UploadFails, Uploaded, Raced
<1>2. DriveKept(f) /\ UNCHANGED <<node, name, replaces>>
  BY DriveStays DEF UploadFails, nodeVars
<1> QED
  BY <1>1, <1>2, EndsBeforeUpload

\* An answer that is lost leaves a link that nobody knows of.
LEMMA CommitDrive ==
  ASSUME Sound, NEW f \in Files, NEW l \in Links, NEW v, Committed(f, l, v)
  PROVE  /\ \A k \in Links : k # l => drive'[k] = drive[k]
         /\ rel[f].existing # None => /\ l = rel[f].existing /\ SameLink(l)
                                      /\ InUse(l)' <=> InUse(l)
         /\ rel[f].existing = None => /\ drive[l].st = "free" /\ ~InUse(l)
                                      /\ drive'[l].st = "active" /\ drive'[l].name = rel[f].name
                                      /\ InUse(l)' /\ ~Trashed(l)'
                                      /\ \A k \in Links : ~Named(k, rel[f].name)
<1>1. drive \in [Links -> DriveLinks] /\ None \notin Links
  BY WriteBufferAssumption DEF Sound, TypeOK, FolderOK, Links
<1>2. \A k \in Links : k # l => drive'[k] = drive[k]
  BY <1>1 DEF Committed
<1>3. CASE rel[f].existing # None
  <2>1. l = rel[f].existing /\ drive' = [drive EXCEPT ![l] = [@ EXCEPT !.ver = v]]
    BY <1>3 DEF Committed
  <2>2. drive'[l].st = drive[l].st /\ drive'[l].name = drive[l].name
    BY <1>1, <2>1 DEF DriveLinks
  <2> QED
    BY <1>2, <1>3, <2>1, <2>2 DEF SameLink, Named, Trashed, InUse
<1>4. CASE rel[f].existing = None
  <2>1. /\ drive' = [drive EXCEPT ![l] = [st |-> "active", name |-> rel[f].name, ver |-> v]]
        /\ l \in FreeLinks /\ Active(drive, rel[f].name) = {}
    BY <1>4 DEF Committed, NameTaken
  <2>2. drive[l].st = "free" /\ drive'[l].st = "active" /\ drive'[l].name = rel[f].name
    BY <1>1, <2>1 DEF FreeLinks
  <2>3. \A k \in Links : ~Named(k, rel[f].name)
    BY <2>1 DEF Active, Named
  <2> QED
    BY <1>1, <1>2, <1>4, <2>2, <2>3 DEF Named, Trashed, InUse
<1> QED
  BY <1>3, <1>4

LEMMA UploadLateKeeps ==
  ASSUME Sound, NEW f \in Files, UploadLate(f), races' = {}
  PROVE  Inv'
<1>1. Ends(f) /\ rel[f].pc \notin Uploaded
  BY KeepForRetryLeaves, ReturnEnds DEF UploadLate, Uploaded, Raced
<1>2. PICK l \in Links, v \in Saves : Committed(f, l, v)
  BY DEF UploadLate
<1>3. UNCHANGED <<node, name, replaces, listing>>
  BY DEF UploadLate, nodeVars
<1>4. \A k \in Links : k # l => SameLink(k) /\ (InUse(k)' <=> InUse(k))
  BY <1>2, CommitDrive DEF SameLink, Named, Trashed, InUse
<1>5. DriveKept(f)
  <2>1. \A k \in Links : Used(f, k) \/ op.link = k => InUse(k)
    BY OpFiles DEF Used, Has, Sound, Inv, DriveInv, LinksUsed, ListedRight, InUse, Named
  <2>2. \A k \in Links : (InUse(k) => InUse(k)') /\ (Used(f, k) \/ op.link = k => SameLink(k))
    BY <2>1, <1>2, <1>4, CommitDrive
  <2>3. OneActive'
    BY <1>2, <1>4, CommitDrive DEF OneActive, SameLink, Sound, Inv, DriveInv, Named
  <2>4. ListedRight'
    BY <2>2, <1>3, OpFiles DEF Sound, Inv, DriveInv, ListedRight, Used, SameLink, LinkOrNone
  <2> QED
    BY <2>2, <2>3, <2>4, <1>3, OpFiles DEF DriveKept, LinkOrNone, Sound
<1> QED
  BY <1>1, <1>3, <1>5, EndsBeforeUpload

LEMMA ClaimDrops ==
  ASSUME Sound, NEW f \in Files, Claim(f), handle[f].gone, rel[f].existing # None \/ rel[f].up = None
  PROVE  Inv'
<1>1. Ends(f) /\ ~Landing(f) /\ ~Relocating(f) /\ rel[f].pc # "patch"
  BY DropLeaves, ReturnEnds DEF Claim, Landing, Relocating
<1>2. DriveKept(f) /\ UNCHANGED <<node, name, replaces>>
  BY DriveStays DEF Claim, nodeVars
<1> QED
  BY <1>1, <1>2, EndsKeeps

LEMMA PatchDrops ==
  ASSUME Sound, NEW f \in Files, Patch(f), rel[f].up = None, races' = {}
  PROVE  Inv'
<1>1. Ends(f) /\ ~Landing(f) /\ ~HasBuf(f)'
  BY DropLeaves, ReturnEnds DEF Patch, Landing
<1>2. DriveKept(f) /\ UNCHANGED <<node, name, replaces>>
  BY DriveStays DEF Patch, nodeVars
<1>3. ~Relocating(f)
  BY DEF Patch, Relocating, Raced
<1> QED
  BY <1>1, <1>2, <1>3, EndsKeeps

\* Nothing else of the mount uses the link that is trashed.
LEMMA TrashGoneKeeps ==
  ASSUME Sound, NEW f \in Files, TrashGone(f), races' = {}
  PROVE  Inv'
<1>1. Ends(f) /\ ~Landing(f) /\ ~Relocating(f) /\ rel[f].pc = "trash"
  BY DropLeaves, ReturnEnds DEF TrashGone, Landing, Relocating
<1>0. PICK l \in Links : l = rel[f].up
  BY <1>1, LocalsShape, FileTypes DEF ShapeOf, Sound, Releases, LinkOrNone
<1>2. /\ UNCHANGED <<node, name, replaces, listing>> /\ node[f] # l
      /\ \A n \in Names : listing[n] # l
      /\ \A g \in Files : node[g] # l
      /\ drive' = drive \/ drive' = [drive EXCEPT ![l].st = "trashed"]
  BY <1>0 DEF TrashGone, nodeVars, Raced
<1>3. CASE drive' = drive
  BY <1>0, <1>1, <1>2, <1>3, DriveStays, EndsKeeps
<1>4. CASE drive' = [drive EXCEPT ![l].st = "trashed"]
  <2>1. l \in Links /\ handle[f].gone
    BY <1>1, LocalsShape DEF ShapeOf
  <2>2. /\ \A k \in Links : k # l => SameLink(k) /\ (InUse(k)' <=> InUse(k))
        /\ Trashed(l)' /\ InUse(l)' /\ \A n : ~Named(l, n)'
    <3>1. drive'[l].st = "trashed" /\ \A k \in Links : k # l => drive'[k] = drive[k]
      BY <1>4, <2>1 DEF Sound, TypeOK, FolderOK, DriveLinks
    <3> QED
      BY <3>1, <2>1 DEF SameLink, Named, Trashed, InUse
  <2>3. ASSUME NEW g \in Files, g # f, Has(g, l) PROVE FALSE
    <3>1. Has(f, l) /\ Aims(f, l, name[f]) /\ Aims(g, l, name[f]) /\ name[f] \in Names
      BY <2>1, <2>3, <1>0, <1>1, FileTypes, WriteBufferAssumption DEF Has, Live, Started, HoldsMu, RelSteps, Aims, Sound, LinkOrNone, Links
    <3>2. InLine(f, g)
      BY <3>1, <2>3, <2>1, <1>1 DEF Sound, Inv, TurnsInv, OneByOne, InLine, LinkOrNone
    <3>3. rel[g].pc \in {"decide", "await"} /\ ~HoldsMu(g)
      BY <3>2 DEF InLine, HoldsMu, RelSteps
    <3>4. rel[g].existing = l /\ ~handle[g].gone /\ Started(g) /\ HasBuf(g)
      BY <3>3, <2>3, BufferOfRelease, LocalsShape DEF ShapeOf, Uploaded, Has, Live
    <3>5. Seated(g) /\ node[g] = l
      BY <3>4, <2>3 DEF Sound, Inv, FileInv, BufferShown, NodeInv, WorksOnNode, Has
    <3> QED
      BY <3>5, <1>2
  <2>4. \A k \in Links : Used(f, k) => k # l
    BY <2>3, <1>2 DEF Used
  <2>5. OneActive' /\ ListedRight'
    <3>1. \A k \in Links, n \in Names : Named(k, n)' => Named(k, n)
      BY <2>2 DEF SameLink
    <3>2. \A n \in Names : listing[n] # None => listing[n] \in Links /\ SameLink(listing[n])
      BY <2>2, <1>2, OpFiles DEF Sound, LinkOrNone
    <3> QED
      BY <3>1, <3>2, <1>2 DEF Sound, Inv, DriveInv, OneActive, ListedRight, SameLink
  <2>6. DriveKept(f)
    BY <2>2, <2>4, <2>5, <1>2 DEF DriveKept
  <2> QED
    BY <2>6, <1>0, <1>1, <1>2, EndsKeeps
<1> QED
  BY <1>2, <1>3, <1>4

(***************************************************************************)
(* An upload succeeds.                                                      *)
(***************************************************************************)

LEMMA UploadSucceedsKeeps ==
  ASSUME Sound, NEW f \in Files, UploadSucceeds(f)
  PROVE  Inv'
<1> USE DEF Sound
<1>0. PICK l \in Links, v \in Saves, up \in LinkOrNone :
        /\ up \in {None, l} /\ Committed(f, l, v) /\ rel[f].pc = "upload"
        /\ rel' = [rel EXCEPT ![f].pc = "claim", ![f].up = up, ![f].upName = drive'[l].name]
  BY DEF UploadSucceeds, LinkOrNone
<1>c. UNCHANGED <<tree, listing, node, name, replaces, op, handle>>
  BY DEF UploadSucceeds, treeVars, nodeVars
<1>f. /\ \A g \in Files : g # f => rel'[g] = rel[g]
      /\ rel'[f].existing = rel[f].existing /\ rel'[f].name = rel[f].name
      /\ rel'[f].chain = rel[f].chain /\ rel'[f].pc = "claim" /\ rel'[f].up = up
      /\ rel'[f].upName = drive'[l].name
  <2>1. rel[f] \in Releases /\ rel \in [Files -> Releases]
    BY FileTypes DEF TypeOK, ReleaseOK
  <2> QED
    BY <1>0, <2>1 DEF Releases
<1>u. rel[f].up = None /\ (rel[f].existing # None => l = rel[f].existing)
  BY <1>0, NothingUploaded, CommitDrive DEF Uploaded
<1>s. \A g \in Files : /\ Started(g)' <=> Started(g)
                       /\ HoldsMu(g)' <=> HoldsMu(g)
                       /\ Landing(g)' <=> Landing(g)
                       /\ Live(g)' <=> Live(g)
                       /\ Relocating(g)' <=> Relocating(g)
                       /\ HasBuf(g)' <=> HasBuf(g)
  BY <1>0, <1>c, <1>f DEF Started, HoldsMu, Landing, Live, Relocating, HasBuf, RelSteps
<1>t. /\ (Linked' <=> Linked) /\ (Moving' <=> Moving)
      /\ \A g : /\ Seated(g)' <=> Seated(g)
                /\ Replaced(g)' <=> Replaced(g)
                /\ Out(g)' <=> Out(g)
                /\ \A n : Place(g, n)' <=> Place(g, n)
                /\ \A h : Takes(g, h)' <=> Takes(g, h)
  BY <1>c, SameSeats
<1>d. \A k \in Links : InUse(k) => InUse(k)' /\ SameLink(k)
  <2>1. \A k \in Links : k # l => SameLink(k) /\ (InUse(k)' <=> InUse(k))
    BY <1>0, CommitDrive DEF SameLink, Named, Trashed, InUse
  <2> QED
    BY <2>1, <1>0, CommitDrive
<1>e. rel[f].existing = None => /\ ~InUse(l) /\ InUse(l)' /\ ~Trashed(l)'
                                /\ drive'[l].st = "active" /\ drive'[l].name = rel[f].name
                                /\ \A k \in Links : k # l => ~Named(k, rel[f].name)'
  <2>1. \A k \in Links : k # l => drive'[k] = drive[k]
    BY <1>0, CommitDrive
  <2> QED
    BY <1>0, <1>f, <2>1, CommitDrive DEF Named
<1>g. \A g \in Files : /\ node[g] # None => node[g] \in Links /\ InUse(node[g])
                       /\ \A k \in Links : Has(g, k) => InUse(k)
  BY FileTypes DEF Inv, DriveInv, LinksUsed, Has, Releases, LinkOrNone
<1>o. op.link \in LinkOrNone /\ InUse(op.link)
  BY OpFiles DEF Inv, DriveInv, LinksUsed
<1>a. \A g \in Files : /\ \A k : Has(g, k) => Has(g, k)'
                       /\ \A k \in Links : Has(g, k)' => Has(g, k) \/ (g = f /\ k = l /\ rel[f].existing = None)
                       /\ \A n : Makes(g, n)' <=> Makes(g, n)
  <2>1. \A g \in Files : g # f => /\ \A k : Has(g, k)' <=> Has(g, k)
                                  /\ \A n : Makes(g, n)' <=> Makes(g, n)
    BY <1>c, <1>f, SameAims
  <2>2. \A n : Makes(f, n)' <=> Makes(f, n)
    BY <1>f, <1>s DEF Makes
  <2>3. \A k : Has(f, k) <=> Live(f) /\ k # None /\ k = rel[f].existing
    BY <1>u DEF Has
  <2>4. \A k : Has(f, k)' <=> Live(f) /\ k # None /\ k \in {rel[f].existing, up}
    BY <1>f, <1>s DEF Has
  <2> QED
    BY <2>1, <2>2, <2>3, <2>4, <1>0, <1>u
<1>A. \A g \in Files : /\ \A k \in LinkOrNone : \A n : Aims(g, k, n) => Aims(g, k, n)'
                       /\ \A k \in LinkOrNone : \A n : Aims(g, k, n)' =>
                            Aims(g, k, n) \/ (g = f /\ k = l /\ rel[f].existing = None)
  BY <1>a DEF Aims, LinkOrNone
<1>p. \A h, x : After(h, x) => After(h, x)'
  BY <1>c, AfterKept
<1>b. \A g, h \in Files : Behind(g, h) => Behind(g, h)'
  BY <1>c, <1>s, <1>t, <1>p DEF Behind
<1>l. \A g, h \in Files : InLine(g, h) => InLine(g, h)'
  BY <1>0, <1>f, <1>b, <1>p DEF InLine
<1>1. DriveInv'
  <2>1. OneActive'
    <3>1. CASE rel[f].existing = None
      BY <1>0, <1>e, <3>1, CommitDrive DEF Inv, DriveInv, OneActive, Named
    <3>2. CASE rel[f].existing # None
      <4>1. \A k \in Links : SameLink(k)
        BY <1>0, <3>2, CommitDrive DEF SameLink, Named, Trashed
      <4> QED
        BY <4>1 DEF Inv, DriveInv, OneActive, SameLink
    <3> QED
      BY <3>1, <3>2
  <2>2. ListedRight'
    BY <1>c, <1>d, OpFiles DEF Inv, DriveInv, ListedRight, SameLink, InUse, Named, LinkOrNone
  <2>3. LinksUsed'
    <3>1. \A k \in LinkOrNone : InUse(k) => InUse(k)'
      BY <1>d DEF InUse, LinkOrNone
    <3>2. \A g \in Files : node[g] \in LinkOrNone /\ rel[g].existing \in LinkOrNone /\ rel[g].up \in LinkOrNone
      BY FileTypes DEF Releases
    <3>3. InUse(l)'
      BY <1>0, <1>e, <1>u, <1>d DEF Inv, DriveInv, LinksUsed
    <3>4. InUse(rel[f].up)'
      BY <1>0, <3>3, <1>f DEF InUse
    <3> QED
      BY <1>c, <1>f, <1>o, <3>1, <3>2, <3>4 DEF Inv, DriveInv, LinksUsed
  <2> QED
    BY <2>1, <2>2, <2>3 DEF DriveInv
<1>2. ReleaseShape'
  <2>1. ShapeOf(f)'
    BY <1>0, <1>f, <1>s, <1>u, <1>e, LocalsShape DEF ShapeOf, Uploaded, Landing, Started
  <2> QED
    BY <1>c, <1>f, <1>s, <2>1 DEF Inv, FileInv, ReleaseShape, ShapeOf
<1>3. NameShown' /\ GoneRight' /\ BufferShown' /\ DestGone' /\ ReplacedGone'
  BY <1>c, <1>s, <1>t DEF Inv, FileInv, NameShown, GoneRight, BufferShown, DestGone, ReplacedGone
<1>4. ChainGone' /\ GoneStays' /\ LandsRight'
  <2>1. ChainGone'
    BY <1>c, <1>f, <1>s, <1>t DEF Inv, FileInv, ChainGone
  <2>2. GoneStays'
    <3>1. ~Relocating(f)
      BY <1>0 DEF Relocating
    <3> QED
      BY <3>1, <1>c, <1>f, <1>s, <1>t DEF Inv, FileInv, GoneStays
  <2>3. LandsRight'
    BY <1>c, <1>f DEF Inv, FileInv, LandsRight
  <2> QED
    BY <2>1, <2>2, <2>3
<1>5. WorksOnNode'
  BY <1>c, <1>f, <1>s, <1>t DEF Inv, NodeInv, WorksOnNode
<1>6. UploadNamed'
  <2>1. up # None /\ rel[f].existing = None => Named(up, rel[f].name)'
    BY <1>0, <1>f, <1>e DEF Named
  <2>2. \A g \in Files : rel[g].up # None => rel[g].up \in Links /\ InUse(rel[g].up) /\ rel[g].name \in Names
    BY FileTypes DEF Inv, DriveInv, LinksUsed, Releases, LinkOrNone
  <2>3. ASSUME NEW g \in Files, g # f, ~handle[g].gone \/ Seated(g), rel[g].existing = None, rel[g].up # None
        PROVE  Trashed(rel[g].up)' \/ Named(rel[g].up, rel[g].name)'
    BY <2>2, <2>3, <1>d, <1>f DEF Inv, NodeInv, UploadNamed, SameLink
  <2> QED
    BY <1>c, <1>f, <1>t, <2>1, <2>3 DEF UploadNamed
<1>7. NodeNamed' /\ NodeListed'
  BY <1>c, <1>d, <1>f, <1>g, <1>s, <1>t, <1>u, FileTypes
     DEF Inv, NodeInv, NodeNamed, NodeListed, SameLink, Relocating
<1>8. NodeAlive'
  <2>1. ~Landing(f) /\ rel[f].pc \notin {"patch", "move"}
    BY <1>0 DEF Landing
  <2>2. \A g \in Files : node[g] # None /\ Trashed(node[g])' => Trashed(node[g])
    BY <1>c, <1>d, <1>g DEF SameLink
  <2> QED
    BY <2>1, <2>2, <1>c, <1>f, <1>s, <1>t DEF Inv, NodeInv, NodeAlive
<1>9. LinkHeld'
  <2>1. \A k : \A n \in Names : Held(k, n) => Held(k, n)'
    BY ZenonT(30), <1>0, <1>c, <1>f, <1>s, <1>t DEF Held, Relocating
  <2> SUFFICES ASSUME NEW g \in Files, NEW k \in Links, NEW n \in Names, Has(g, k)', Named(k, n)'
               PROVE  (\/ rel[g].existing = None /\ rel[g].name = n
                       \/ Moving /\ op.link = k
                       \/ listing[n] = k /\ Held(k, n))'
    BY DEF LinkHeld
  <2>2. CASE Has(g, k)
    BY <2>1, <2>2, <1>c, <1>d, <1>f, <1>g, <1>t DEF Inv, NodeInv, LinkHeld, SameLink
  <2>3. CASE ~Has(g, k)
    BY <2>3, <1>a, <1>e, <1>f DEF Named
  <2> QED
    BY <2>2, <2>3
<1>10. RenameShape' /\ SourceRight' /\ MovedRight'
  BY <1>c, <1>d, <1>o, <1>t, OpFiles
     DEF Inv, RenameInv, RenameShape, SourceRight, MovedRight, SameLink, Linked, Moving, LinkOrNone
<1>11. MovedOwn' /\ MovedUpload'
  <2>1. MovedOwn'
    BY <1>c, <1>t DEF Inv, RenameInv, MovedOwn
  <2>2. Linked => op.link # None /\ op.file \in Files /\ (op.link = l => rel[f].existing = l)
    BY <1>e, <1>o, <1>u, OpFiles DEF Inv, RenameInv, RenameShape
  <2>3. MovedUpload'
    BY ZenonT(30), <2>2, <1>0, <1>c, <1>f, <1>t DEF Inv, RenameInv, MovedUpload
  <2> QED
    BY <2>1, <2>3
<1>12. MovedGone' /\ MovedPending'
  <2>1. \A g \in Files : op.link # None => (Has(g, op.link)' <=> Has(g, op.link))
    BY <1>a, <1>c, <1>e, <1>o DEF LinkOrNone
  <2> QED
    BY <2>1, <1>a, <1>c, <1>t DEF Inv, RenameInv, MovedGone, MovedPending, RenameShape
<1>13. OthersMake'
  <2> SUFFICES ASSUME (op.pc \in {"renamePending", "retarget"} \/ Moving)', NEW g \in Files \ {op.file},
                      NEW k \in Links, Has(g, k)', Named(k, op.from)'
               PROVE  (rel[g].existing = None /\ rel[g].name = op.from)'
    BY <1>c DEF OthersMake
  <2>1. CASE Has(g, k)
    BY <2>1, <1>c, <1>d, <1>f, <1>g, <1>t, OpFiles DEF Inv, RenameInv, OthersMake, SameLink
  <2>2. CASE ~Has(g, k)
    BY <2>2, <1>a, <1>c, <1>e, <1>f DEF Named
  <2> QED
    BY <2>1, <2>2
<1>14. PendingOwn'
  BY <1>c, <1>d, <1>f, <1>g, <1>s, <1>u, OpFiles DEF Inv, RenameInv, PendingOwn, SameLink
<1>15. RetargetWaits'
  BY <1>0, <1>c, <1>f, <1>s, OpFiles DEF Inv, RenameInv, RetargetWaits
<1>16. SeatFirst'
  <2>1. \A g, h \in Files : Aims(g, node[h], name[h])' => Aims(g, node[h], name[h])
    <3>1. \A h \in Files : rel[f].existing = None => node[h] # l
      BY <1>e, <1>g, WriteBufferAssumption DEF Links
    <3>2. \A h \in Files : node[h] \in LinkOrNone
      BY FileTypes
    <3> QED
      BY <3>1, <3>2, <1>A, <1>c
  <2> QED
    BY <2>1, <1>A, <1>b, <1>c, <1>s, <1>t, FileTypes DEF Inv, TurnsInv, SeatFirst
<1>17. OneByOne'
  <2>1. \A g, h \in Files, k \in LinkOrNone, n \in Names :
          g # h /\ Aims(g, k, n)' /\ Aims(h, k, n)' => Aims(g, k, n) /\ Aims(h, k, n)
    BY <1>A, <1>e, <1>g, WriteBufferAssumption DEF Aims, Links
  <2> QED
    BY <2>1, <1>l DEF Inv, TurnsInv, OneByOne
<1> QED
  BY <1>1, <1>2, <1>3, <1>4, <1>5, <1>6, <1>7, <1>8, <1>9, <1>10, <1>11, <1>12, <1>13,
     <1>14, <1>15, <1>16, <1>17 DEF Inv, FileInv, NodeInv, RenameInv, TurnsInv

(***************************************************************************)
(* A Release reads the name and the link of its file.                       *)
(***************************************************************************)

\* Two files are not shown at one place, but for the two that a rename is about.
LEMMA OnePlace ==
  ASSUME Sound, NEW g \in Files, NEW h \in Files, g # h, NEW n \in Names, Place(g, n), Place(h, n)
  PROVE  /\ op.pc # "idle" /\ n = op.to
         /\ \/ op.file = g /\ tree[op.to] = h /\ (Moving \/ op.pc = "renameWait")
            \/ op.file = h /\ tree[op.to] = g /\ (Moving \/ op.pc = "renameWait")
BY DEF Place, Moving

\* The place a file is shown at is the one it works at.
LEMMA NamedPlace ==
  ASSUME Sound, NEW f \in Files, Seated(f), node[f] # None, ~Relocating(f), NEW n \in Names,
         Named(node[f], n)
  PROVE  Place(f, n)
BY DEF Sound, Inv, NodeInv, NodeNamed, Named, Trashed

LEMMA ReadReleaseKeeps ==
  ASSUME Sound, NEW f \in Files, ReadRelease(f), ~handle[f].gone, handle[f].dirty
  PROVE  Inv'
<1> USE DEF Sound
<1>0. /\ rel[f].pc = "start"
      /\ rel' = [rel EXCEPT ![f].pc = "decide", ![f].name = name[f], ![f].existing = node[f]]
  BY DEF ReadRelease
<1>c. UNCHANGED <<tree, listing, drive, node, name, replaces, op, handle>>
  BY DEF ReadRelease, nodeVars
<1>f. /\ \A g \in Files : g # f => rel'[g] = rel[g]
      /\ rel'[f].existing = node[f] /\ rel'[f].name = name[f]
      /\ rel'[f].chain = rel[f].chain /\ rel'[f].pc = "decide" /\ rel'[f].up = rel[f].up
  <2>1. rel[f] \in Releases /\ rel \in [Files -> Releases]
    BY FileTypes DEF TypeOK, ReleaseOK
  <2> QED
    BY <1>0, <2>1 DEF Releases
<1>u. /\ rel[f].up = None /\ rel[f].existing = None /\ rel[f].chain = None
      /\ ~Started(f) /\ ~HoldsMu(f) /\ ~Landing(f) /\ ~Relocating(f) /\ ~Live(f)
      /\ \A n, l : ~Aims(f, l, n)
  BY <1>0, LocalsShape DEF ShapeOf, Started, Uploaded, HoldsMu, Landing, Relocating, Live, Aims, Has, Makes
<1>n. /\ Started(f)' /\ ~Landing(f)' /\ ~Relocating(f)' /\ Live(f)' /\ ~HoldsMu(f)'
      /\ \A l : Has(f, l)' <=> (l # None /\ l = node[f])
      /\ \A n : Makes(f, n)' <=> (node[f] = None /\ n = name[f])
  <2>1. Started(f)' /\ ~Landing(f)' /\ ~Relocating(f)' /\ Live(f)' /\ ~HoldsMu(f)'
    BY <1>c, <1>f DEF Started, Landing, Relocating, Live, HoldsMu
  <2> QED
    BY <2>1, <1>f, <1>u DEF Has, Makes
<1>s. \A g \in Files : g # f => /\ Started(g)' <=> Started(g)
                                /\ HoldsMu(g)' <=> HoldsMu(g)
                                /\ Landing(g)' <=> Landing(g)
                                /\ Live(g)' <=> Live(g)
                                /\ Relocating(g)' <=> Relocating(g)
                                /\ \A l : Has(g, l)' <=> Has(g, l)
                                /\ \A n : Makes(g, n)' <=> Makes(g, n)
                                /\ \A l, n : Aims(g, l, n)' <=> Aims(g, l, n)
  BY <1>c, <1>f, SameAims DEF Relocating, Aims
<1>h. \A g \in Files : HasBuf(g)' <=> HasBuf(g)
  BY <1>c DEF HasBuf
<1>t. /\ (Linked' <=> Linked) /\ (Moving' <=> Moving)
      /\ \A g : /\ Seated(g)' <=> Seated(g)
                /\ Replaced(g)' <=> Replaced(g)
                /\ Out(g)' <=> Out(g)
                /\ \A n : Place(g, n)' <=> Place(g, n)
                /\ \A h : Takes(g, h)' <=> Takes(g, h)
  BY <1>c, SameSeats
<1>d. \A l : /\ Trashed(l)' <=> Trashed(l)
             /\ InUse(l)' <=> InUse(l)
             /\ \A n : Named(l, n)' <=> Named(l, n)
  BY <1>c, SameDrive
<1>p. \A h, x : After(h, x) => After(h, x)'
  BY <1>c, AfterKept
<1>b. \A g, h \in Files : Behind(g, h) => Behind(g, h)'
  BY <1>c, <1>u, <1>s, <1>t, <1>p DEF Behind
<1>l. \A g, h \in Files : InLine(g, h) => InLine(g, h)'
  BY <1>0, <1>f, <1>b, <1>p DEF InLine
\* The file is shown, and nothing takes its place.
<1>v. Seated(f) /\ ~Replaced(f) /\ ~Out(f) /\ HasBuf(f)
  BY <1>0, BufferOfRelease DEF Inv, FileInv, BufferShown, DestGone, Out, Replaced
<1>w. /\ node[f] # None => node[f] \in Links /\ \A n \in Names : Named(node[f], n) => Place(f, n)
      /\ Place(f, name[f]) /\ name[f] \in Names
  BY <1>u, <1>v, FileTypes, NamedPlace DEF LinkOrNone, Inv, FileInv, NameShown
<1>x. ASSUME op.pc # "idle", f # op.file, Place(f, op.from) PROVE FALSE
  BY <1>x, OpFiles DEF Place, TreeInv, OpFile
<1>y. ASSUME Linked, f # op.file, Has(f, op.link)' PROVE FALSE
  BY <1>n, <1>v, <1>y, <1>c DEF Inv, RenameInv, MovedOwn
<1>1. DriveInv'
  BY <1>c, <1>d, <1>f DEF Inv, DriveInv, OneActive, ListedRight, LinksUsed
<1>2. ReleaseShape'
  BY <1>c, <1>f, <1>u, <1>n, <1>s DEF Inv, FileInv, ReleaseShape, ShapeOf
<1>3. NameShown' /\ GoneRight' /\ BufferShown' /\ DestGone' /\ ReplacedGone'
  BY <1>c, <1>h, <1>t DEF Inv, FileInv, NameShown, GoneRight, BufferShown, DestGone, ReplacedGone
<1>4. ChainGone' /\ GoneStays' /\ LandsRight'
  BY <1>c, <1>h, <1>f, <1>n, <1>s, <1>t DEF Inv, FileInv, ChainGone, GoneStays, LandsRight
<1>5. WorksOnNode' /\ UploadNamed'
  BY <1>c, <1>d, <1>f, <1>s, <1>t, <1>u DEF Inv, NodeInv, WorksOnNode, UploadNamed
<1>6. NodeNamed' /\ NodeListed'
  BY <1>c, <1>d, <1>f, <1>n, <1>s, <1>t, <1>u DEF Inv, NodeInv, NodeNamed, NodeListed
<1>7. NodeAlive'
  <2>1. rel[f].pc \notin {"patch", "move"}
    BY <1>0
  <2> QED
    BY <2>1, <1>c, <1>d, <1>f, <1>s, <1>t, <1>u DEF Inv, NodeInv, NodeAlive
<1>8. LinkHeld'
  <2>1. \A k : \A n \in Names : Held(k, n) => Held(k, n)'
    BY <1>c, <1>f, <1>u, <1>s, <1>t DEF Held
  <2> SUFFICES ASSUME NEW g \in Files, NEW k \in Links, NEW n \in Names, Has(g, k)', Named(k, n)'
               PROVE  (\/ rel[g].existing = None /\ rel[g].name = n
                       \/ Moving /\ op.link = k
                       \/ listing[n] = k /\ Held(k, n))'
    BY DEF LinkHeld
  <2>2. CASE g # f
    BY <2>1, <2>2, <1>c, <1>d, <1>f, <1>s, <1>t DEF Inv, NodeInv, LinkHeld
  <2>3. CASE g = f
    <3>1. k = node[f] /\ k # None /\ Named(k, n) /\ Place(f, n)
      BY <2>3, <1>d, <1>n, <1>w
    <3>2. listing[n] = k /\ Held(k, n)
      BY <3>1, <1>u, <1>v DEF Inv, NodeInv, NodeListed, Held
    <3> QED
      BY <3>2, <2>1, <1>c
  <2> QED
    BY <2>2, <2>3
<1>9. RenameShape' /\ SourceRight' /\ MovedRight' /\ MovedOwn'
  BY <1>c, <1>d, <1>t DEF Inv, RenameInv, RenameShape, SourceRight, MovedRight, MovedOwn
<1>10. MovedUpload'
  BY <1>c, <1>f, <1>t, <1>u, OpFiles DEF Inv, RenameInv, MovedUpload, RenameShape
<1>11. MovedGone' /\ MovedPending'
  BY <1>c, <1>s, <1>t, <1>y DEF Inv, RenameInv, MovedGone, MovedPending
<1>12. OthersMake'
  <2>1. ASSUME NEW l \in Links, f # op.file, op.pc # "idle", Has(f, l)', Named(l, op.from)
        PROVE  FALSE
    BY <2>1, <1>n, <1>w, <1>x, OpFiles
  <2> QED
    BY <2>1, <1>c, <1>d, <1>f, <1>s, <1>t, OpFiles DEF Inv, RenameInv, OthersMake, Moving
<1>13. PendingOwn'
  BY <1>c, <1>d, <1>f, <1>s, OpFiles DEF Inv, RenameInv, PendingOwn
<1>14. RetargetWaits'
  BY ZenonT(30), <1>0, <1>c, <1>f, <1>h, OpFiles DEF Inv, RenameInv, RetargetWaits
<1>15. SeatFirst'
  <2> SUFFICES ASSUME NEW h \in Files, NEW g \in Files, h # g, Seated(g), ~Out(g),
                      Aims(h, node[g], name[g])'
               PROVE  (Aims(g, node[g], name[g]) \/ Behind(h, g) \/ Takes(h, g) \/ Relocating(g))'
    BY <1>t DEF SeatFirst
  <2>1. CASE g = f
    BY <2>1, <1>c, <1>n DEF Aims
  <2>2. CASE h # f /\ g # f
    BY <2>2, <1>b, <1>c, <1>s, <1>t DEF Inv, TurnsInv, SeatFirst
  <2>3. CASE h = f
    <3>1. (node[g] = None /\ node[f] = None /\ name[g] = name[f]) \/ (node[g] # None /\ node[g] = node[f])
      BY <2>3, <1>c, <1>n DEF Aims
    <3>2. CASE node[g] = None
      <4>1. Place(g, name[f]) /\ Place(f, name[f])
        BY <3>1, <3>2, <1>w DEF Inv, FileInv, NameShown
      <4> QED
        <5>1. /\ name[f] = op.to /\ (Moving \/ op.pc = "renameWait")
              /\ (op.file = f /\ tree[op.to] = g) \/ (op.file = g /\ tree[op.to] = f)
          BY <4>1, <2>3, <1>w, OnePlace
        <5>2. Moving
          BY <5>1, <1>v DEF Out, Replaced
        <5> QED
          BY <5>1, <5>2, <3>1, <3>2, <1>v DEF Inv, FileInv, NameShown
    <3>3. CASE node[g] # None /\ ~Relocating(g)
      <4>1. node[g] = node[f] /\ node[g] \in Links
        BY <3>1, <3>3, FileTypes DEF LinkOrNone
      <4>2. CASE Trashed(node[g])
        <5>1. op.pc \in {"renameMove", "renameReplace"} /\ tree[op.to] = f
          BY <4>1, <4>2, <1>0, <1>u, <1>v, <3>3 DEF Inv, NodeInv, NodeAlive
        <5>2. /\ rel[g].existing = None /\ (Landing(g) \/ rel[g].pc = "patch")
              /\ rel[g].up = node[g] \/ rel[g].pc = "move"
          BY <5>1, <4>2, <3>3, <2>3 DEF Inv, NodeInv, NodeAlive
        <5>3. rel[g].pc # "move" /\ rel[g].up = node[g] /\ Live(g)
          BY <5>2, <3>3 DEF Relocating, Live, Started, HoldsMu, Landing, RelSteps
        <5>4. Aims(g, node[g], name[g])
          BY <5>3, <3>3 DEF Aims, Has
        <5> QED
          BY <5>4, <2>3, <1>c, <1>s
      <4>3. CASE ~Trashed(node[g])
        <5>1. PICK n \in Names : Place(g, n) /\ Named(node[g], n)
          BY <4>3, <3>3 DEF Inv, NodeInv, NodeNamed
        <5>2. Place(f, n)
          BY <5>1, <4>1, <3>3, <1>w
        <5>3. n = op.to /\ op.pc # "idle" /\ (Moving \/ op.pc = "renameWait")
          BY <5>1, <5>2, <2>3, OnePlace
        <5>4. op.pc = "renameReplace" /\ (op.file # f \/ op.file # g)
          BY <5>1, <5>2, <5>3, <2>3, <1>v, OnePlace DEF Out, Replaced, Moving
        <5>5. op.link = node[g]
          BY <5>1, <5>3, <5>4, <4>1, <3>3, OpFiles, WriteBufferAssumption
             DEF Inv, RenameInv, MovedRight, DriveInv, OneActive, Moving, RenameShape, Linked, LinkOrNone
        <5> QED
          BY <5>4, <5>5, <4>1, <1>v DEF Inv, RenameInv, MovedOwn, Linked
      <4> QED
        BY <4>2, <4>3
    <3> QED
      BY <3>2, <3>3, <2>3, <1>s
  <2> QED
    BY <2>1, <2>2, <2>3
<1>16. OneByOne'
  <2>1. ASSUME NEW g \in Files, g # f, NEW l \in LinkOrNone, NEW n \in Names, Aims(f, l, n)', Aims(g, l, n)
        PROVE  InLine(g, f)'
    <3>1. Aims(g, node[f], name[f])
      BY <2>1, <1>n DEF Aims
    <3>2. Behind(g, f)
      BY <3>1, <2>1, <1>u, <1>v DEF Inv, TurnsInv, SeatFirst, Takes, Replaced
    <3> QED
      BY <3>2, <1>b, <1>f DEF InLine
  <2> QED
    BY <2>1, <1>l, <1>s DEF Inv, TurnsInv, OneByOne
<1> QED
  BY <1>1, <1>2, <1>3, <1>4, <1>5, <1>6, <1>7, <1>8, <1>9, <1>10, <1>11, <1>12, <1>13,
     <1>14, <1>15, <1>16 DEF Inv, FileInv, NodeInv, RenameInv, TurnsInv

(***************************************************************************)
(* A file takes the link that its Release uploaded to.                      *)
(***************************************************************************)

\* A buffer that is released, and not marked gone, is the one the tree shows.
LEMMA ReleasedSeat ==
  ASSUME Sound, NEW f \in Files, rel[f].pc # "idle", ~handle[f].gone
  PROVE  Seated(f) /\ ~Replaced(f) /\ ~Out(f) /\ HasBuf(f)
BY BufferOfRelease DEF Sound, Inv, FileInv, BufferShown, DestGone, Out, Replaced

LEMMA ClaimKeeps ==
  ASSUME Sound, NEW f \in Files, Claim(f), ~handle[f].gone, races' = {}
  PROVE  Inv'
<1> USE DEF Sound
<1>0. /\ rel[f].pc = "claim" /\ rel' = [rel EXCEPT ![f].pc = "patch"]
      /\ node' = [node EXCEPT ![f] = IF rel[f].up = None THEN @ ELSE rel[f].up]
      /\ replaces' = [replaces EXCEPT ![f] = None]
      /\ rel[f].up = None => node[f] = rel[f].existing \/ replaces[f] = None
      /\ rel[f].up # None => ~Trashed(rel[f].up)
  BY DEF Claim, Step, Races, Trashed
<1>c. UNCHANGED <<tree, listing, drive, name, op, handle>>
  BY DEF Claim
<1>f. /\ \A g \in Files : g # f => rel'[g] = rel[g] /\ node'[g] = node[g] /\ replaces'[g] = replaces[g]
      /\ rel'[f].existing = rel[f].existing /\ rel'[f].name = rel[f].name
      /\ rel'[f].chain = rel[f].chain /\ rel'[f].pc = "patch" /\ rel'[f].up = rel[f].up
      /\ rel'[f].upName = rel[f].upName /\ replaces'[f] = None
      /\ node'[f] = IF rel[f].up = None THEN node[f] ELSE rel[f].up
  <2>1. rel[f] \in Releases /\ rel \in [Files -> Releases] /\ node \in [Files -> LinkOrNone]
        /\ replaces \in [Files -> FileOrNone]
    BY FileTypes DEF TypeOK, ReleaseOK, NodesOK
  <2> QED
    BY <1>0, <2>1 DEF Releases
<1>u. /\ Started(f) /\ HoldsMu(f) /\ ~Landing(f) /\ ~Relocating(f) /\ Live(f)
      /\ Started(f)' /\ HoldsMu(f)' /\ ~Landing(f)' /\ Live(f)'
      /\ Relocating(f)' <=> name[f] # rel[f].name
  BY <1>0, <1>c, <1>f DEF Started, HoldsMu, Landing, Relocating, Live, RelSteps
<1>v. Seated(f) /\ ~Replaced(f) /\ ~Out(f) /\ HasBuf(f)
  BY <1>0, ReleasedSeat
<1>N. \/ node' = node
      \/ /\ node'[f] = rel[f].up /\ rel[f].up # None /\ rel[f].up \in Links /\ rel[f].existing = None
         /\ Named(rel[f].up, rel[f].name)
  <2>1. CASE rel[f].up = None \/ rel[f].existing # None
    <3>1. rel[f].up # None => rel[f].up = node[f]
      BY <2>1, <1>u, <1>v, LocalsShape DEF ShapeOf, Inv, NodeInv, WorksOnNode
    <3>2. node \in [Files -> LinkOrNone]
      BY DEF TypeOK, NodesOK
    <3> QED
      BY <3>1, <3>2, <1>0
  <2>2. CASE rel[f].up # None /\ rel[f].existing = None
    BY <2>2, <1>0, <1>f, <1>v, FileTypes DEF Inv, NodeInv, UploadNamed, Releases, LinkOrNone
  <2> QED
    BY <2>1, <2>2
<1>s. \A g \in Files : /\ Started(g)' <=> Started(g)
                       /\ HoldsMu(g)' <=> HoldsMu(g)
                       /\ Landing(g)' <=> Landing(g)
                       /\ Live(g)' <=> Live(g)
                       /\ Relocating(g) => Relocating(g)'
                       /\ HasBuf(g)' <=> HasBuf(g)
  BY <1>c, <1>f, <1>u, SameAims DEF Relocating, HasBuf
<1>q. \A g \in Files : g # f => (Relocating(g)' <=> Relocating(g))
  BY <1>c, <1>f DEF Relocating
<1>a. \A g \in Files : /\ \A l : Has(g, l)' <=> Has(g, l)
                       /\ \A n : Makes(g, n)' <=> Makes(g, n)
                       /\ \A l, n : Aims(g, l, n)' <=> Aims(g, l, n)
  BY <1>f, <1>s DEF Has, Makes, Aims
<1>t. /\ (Linked' <=> Linked) /\ (Moving' <=> Moving)
      /\ \A g : /\ Seated(g)' <=> Seated(g)
                /\ Replaced(g)' <=> Replaced(g)
                /\ Out(g)' <=> Out(g)
                /\ \A n : Place(g, n)' <=> Place(g, n)
                /\ \A h : Takes(g, h)' <=> Takes(g, h)
  BY <1>c, SameSeats
<1>d. \A l : /\ Trashed(l)' <=> Trashed(l)
             /\ InUse(l)' <=> InUse(l)
             /\ \A n : Named(l, n)' <=> Named(l, n)
  BY <1>c, SameDrive
<1>r. \A g \in Files : replaces[g] # f /\ rel[g].chain # f
  BY <1>v DEF Inv, FileInv, ReplacedGone, ChainGone
<1>p. \A h, x : h \in FileOrNone /\ h # f /\ After(h, x) => After(h, x)'
  BY <1>f, <1>r, AfterReset
<1>b. \A g, h \in Files : h # f /\ Behind(g, h) => Behind(g, h)'
  <2>1. \A h \in Files : replaces[h] \in FileOrNone
    BY FileTypes
  <2> QED
    BY <2>1, <1>c, <1>f, <1>r, <1>s, <1>t, <1>p DEF Behind
<1>l. \A g, h \in Files : InLine(g, h) => InLine(g, h)'
  <2>1. \A h \in Files : rel[h].chain \in FileOrNone
    BY FileTypes DEF Releases
  <2> QED
    BY <2>1, <1>0, <1>f, <1>r, <1>b, <1>p DEF InLine
<1>1. DriveInv'
  <2>1. InUse(node[f])'
    BY <1>d, <1>f DEF Inv, DriveInv, LinksUsed, InUse
  <2> QED
    BY <2>1, <1>c, <1>d, <1>f DEF Inv, DriveInv, OneActive, ListedRight, LinksUsed
<1>2. ReleaseShape'
  <2>1. ShapeOf(f)'
    BY <1>0, <1>c, <1>f, <1>u, LocalsShape DEF ShapeOf, Uploaded
  <2> QED
    BY <2>1, <1>c, <1>f, <1>s DEF Inv, FileInv, ReleaseShape, ShapeOf
<1>3. NameShown' /\ GoneRight' /\ BufferShown' /\ DestGone'
  BY <1>c, <1>f, <1>s, <1>t DEF Inv, FileInv, NameShown, GoneRight, BufferShown, DestGone
<1>4. ReplacedGone' /\ ChainGone'
  BY <1>c, <1>f, <1>s, <1>t, WriteBufferAssumption DEF Inv, FileInv, ReplacedGone, ChainGone
<1>5. GoneStays' /\ LandsRight'
  BY <1>0, <1>c, <1>f, <1>q, <1>t DEF Inv, FileInv, GoneStays, LandsRight
<1>6. WorksOnNode' /\ UploadNamed'
  BY <1>c, <1>d, <1>f, <1>s, <1>t, LocalsShape DEF Inv, NodeInv, WorksOnNode, UploadNamed, ShapeOf
<1>7. NodeNamed'
  <2>1. Place(f, name[f]) /\ name[f] \in Names
    BY <1>v, FileTypes DEF Inv, FileInv, NameShown
  <2>2. node[f]' # None => (\/ Trashed(node[f])
                            \/ \E n \in Names : Place(f, n) /\ Named(node[f], n)
                            \/ Relocating(f) /\ rel[f].existing = None /\ rel[f].up = node[f])'
    BY <2>1, <1>N, <1>c, <1>d, <1>f, <1>t, <1>u, <1>v DEF Inv, NodeInv, NodeNamed
  <2> QED
    BY <2>2, <1>d, <1>f, <1>s, <1>t DEF Inv, NodeInv, NodeNamed
<1>8. NodeAlive'
  <2>1. rel[f].pc \notin {"patch", "move"} /\ (node'[f] = node[f] \/ ~Trashed(node'[f]))
    BY <1>0, <1>N DEF Named, Trashed
  <2> QED
    BY <2>1, <1>c, <1>d, <1>f, <1>s, <1>t, <1>u DEF Inv, NodeInv, NodeAlive
<1>9. NodeListed'
  BY ZenonT(30), <1>N, <1>c, <1>d, <1>f, <1>t DEF Inv, NodeInv, NodeListed
<1>10. LinkHeld'
  <2> SUFFICES ASSUME NEW g \in Files, NEW l \in Links, NEW n \in Names, Has(g, l), Named(l, n),
                      listing[n] = l, Held(l, n), ~(Moving /\ op.link = l)
               PROVE  Held(l, n)'
    BY <1>a, <1>c, <1>d, <1>f, <1>t DEF Inv, NodeInv, LinkHeld
  <2>1. PICK k \in Files : /\ Place(k, n) /\ ~Out(k)
                           /\ node[k] = l \/ (Relocating(k) /\ rel[k].up # None)
    BY DEF Held
  <2>2. CASE k # f \/ node' = node
    BY <2>1, <2>2, <1>f, <1>s, <1>t DEF Held
  <2>3. CASE k = f /\ node' # node
    <3>1. /\ node[f] = l /\ node'[f] = rel[f].up /\ rel[f].up # None /\ rel[f].up \in Links
          /\ rel[f].existing = None /\ Named(rel[f].up, rel[f].name)
      BY <2>1, <2>3, <1>N, <1>u
    <3>2. CASE name[f] # rel[f].name
      BY <3>1, <3>2, <2>1, <2>3, <1>f, <1>t, <1>u DEF Held
    <3>3. CASE name[f] = n /\ name[f] = rel[f].name
      <4>1. rel[f].up = l
        BY <3>1, <3>3 DEF Inv, DriveInv, OneActive
      <4> QED
        BY <4>1, <3>1, <2>1, <2>3, <1>t DEF Held
    <3>4. CASE name[f] # n /\ name[f] = rel[f].name
      <4>1. Place(f, name[f]) /\ Place(f, n) /\ name[f] \in Names
        BY <2>1, <2>3, <1>v, FileTypes DEF Inv, FileInv, NameShown
      <4>2. Moving /\ op.file = f /\ op.to \in {n, name[f]}
        BY <4>1, <3>4, WriteBufferAssumption DEF Place, TreeInv, OneName
      <4>3. Linked /\ op.link # None /\ op.link \in Links /\ Named(op.link, op.to)
        BY <4>2, OpFiles DEF Linked, Moving, Inv, RenameInv, RenameShape, MovedRight, LinkOrNone
      <4>4. op.to # n
        BY <4>2, <4>3 DEF Inv, DriveInv, OneActive
      <4>5. rel[f].up = op.link
        BY <4>2, <4>3, <4>4, <3>1, <3>4, <4>1 DEF Inv, DriveInv, OneActive
      <4> QED
        BY <4>2, <4>3, <4>5, <3>1 DEF Inv, RenameInv, MovedUpload
    <3> QED
      BY <3>2, <3>3, <3>4
  <2> QED
    BY <2>2, <2>3
<1>11. RenameShape' /\ SourceRight' /\ MovedRight'
  BY <1>c, <1>d, <1>t DEF Inv, RenameInv, RenameShape, SourceRight, MovedRight
<1>12. MovedOwn'
  <2>1. Linked /\ f # op.file /\ rel[f].up # None => rel[f].up # op.link
    BY <1>u DEF Inv, RenameInv, MovedGone, Has
  <2> QED
    BY <2>1, <1>c, <1>f, <1>t DEF Inv, RenameInv, MovedOwn
<1>13. MovedGone' /\ MovedUpload' /\ MovedPending'
  BY <1>a, <1>c, <1>f, <1>t, OpFiles DEF Inv, RenameInv, MovedGone, MovedUpload, MovedPending
<1>14. OthersMake'
  BY ZenonT(30), <1>a, <1>c, <1>d, <1>f, <1>t DEF Inv, RenameInv, OthersMake
<1>15. PendingOwn'
  BY <1>N, <1>c, <1>d, <1>f, <1>s, OpFiles DEF Inv, RenameInv, PendingOwn
<1>16. RetargetWaits'
  BY <1>c, <1>f, <1>s, OpFiles DEF Inv, RenameInv, RetargetWaits
<1>17. SeatFirst'
  <2> SUFFICES ASSUME NEW h \in Files, NEW g \in Files, h # g, Seated(g), ~Out(g),
                      Aims(h, node[g], name[g])'
               PROVE  (Aims(g, node[g], name[g]) \/ Behind(h, g) \/ Takes(h, g) \/ Relocating(g))'
    BY <1>t DEF SeatFirst
  <2>1. CASE g # f
    BY <2>1, <1>a, <1>b, <1>c, <1>f, <1>s, <1>t DEF Inv, TurnsInv, SeatFirst
  <2>2. CASE g = f /\ rel[f].up # None
    BY <2>2, <1>a, <1>c, <1>f, <1>u DEF Aims, Has
  <2>3. CASE g = f /\ rel[f].up = None
    <3>1. Aims(h, node[f], name[f])
      BY <2>3, <1>a, <1>c, <1>f
    <3>2. CASE Behind(h, f)
      <4>1. replaces[f] # None
        BY <3>2 DEF Behind, After
      <4>2. node[f] = rel[f].existing
        BY <4>1, <2>3, <1>0
      <4>3. Aims(f, node[f], name[f]) \/ name[f] # rel[f].name
        BY <4>2, <1>u DEF Aims, Has, Makes
      <4> QED
        BY <4>3, <2>3, <1>a, <1>c, <1>f, <1>u
    <3> QED
      BY <3>1, <3>2, <2>3, <1>a, <1>c, <1>f, <1>s, <1>t, <1>v DEF Inv, TurnsInv, SeatFirst
  <2> QED
    BY <2>1, <2>2, <2>3
<1>18. OneByOne'
  BY <1>a, <1>l DEF Inv, TurnsInv, OneByOne
<1> QED
  BY <1>1, <1>2, <1>3, <1>4, <1>5, <1>6, <1>7, <1>8, <1>9, <1>10, <1>11, <1>12, <1>13,
     <1>14, <1>15, <1>16, <1>17, <1>18 DEF Inv, FileInv, NodeInv, RenameInv, TurnsInv

(***************************************************************************)
(* A Release lands: the file and the listing show what it uploaded.         *)
(***************************************************************************)

\* u is what it uploaded, m the name under which the drive has it in the end.
Lands(f, u, m) ==
  /\ rel[f].up = u /\ Landing(f) /\ replaces' = replaces
  /\ \A g \in Files : g # f => node'[g] = node[g] /\ name'[g] = name[g]
  /\ node'[f] = u /\ name'[f] = m
  /\ \A n \in Names : listing'[n] = IF n = m THEN u ELSE IF listing[n] = u THEN None ELSE listing[n]
  /\ \A k \in Links : k # u => drive'[k] = drive[k] /\ ~Named(k, m)
  /\ drive[u].st = "active" /\ drive'[u].st = "active" /\ drive'[u].name = m
  /\ \/ rel[f].pc = "publish" /\ drive[u].name = m /\ (rel[f].existing = None => name[f] = m)
     \/ /\ rel[f].pc = "move" /\ name[f] = m /\ op.file # f
        /\ \A g \in Files : g # f => node[g] # u

LEMMA LandsKeeps ==
  ASSUME Sound, NEW f \in Files, Ends(f), NEW u \in Links, NEW m \in Names, Lands(f, u, m)
  PROVE  Inv'
<1> USE DEF Sound
<1>e. EndState(f)
  BY EndsFacts DEF Lands
<1>0. /\ rel[f].up = u /\ Landing(f) /\ Live(f) /\ Has(f, u) /\ u # None
      /\ \A g \in Files : g # f => node'[g] = node[g] /\ name'[g] = name[g]
      /\ node'[f] = u /\ name'[f] = m /\ replaces' = replaces
      /\ rel[f].pc \in {"publish", "move"}
      /\ rel[f].pc # "publish" => Relocating(f)
  BY WriteBufferAssumption DEF Lands, Landing, Relocating, Live, Started, HoldsMu, RelSteps, Has, Links
<1>k. /\ \A k \in Links : /\ k # u => SameLink(k) /\ ~Named(k, m) /\ ~Named(k, m)'
                          /\ InUse(k)' <=> InUse(k)
                          /\ Trashed(k)' <=> Trashed(k)
      /\ \A n \in Names : Named(u, n)' <=> n = m
      /\ ~Trashed(u)
  BY DEF Lands, SameLink, Named, Trashed, InUse
<1>p. rel[f].pc = "publish" => /\ \A k \in Links : SameLink(k)
                               /\ rel[f].existing = None => name[f] = m
  BY <1>k DEF Lands, SameLink, Named, Trashed
<1>v. rel[f].pc = "move" => name[f] = m /\ op.file # f /\ \A g \in Files : g # f => node[g] # u
  BY DEF Lands
<1>m. /\ listing'[m] = u
      /\ \A n \in Names : listing[n] # None => listing[n] \in Links /\ Named(listing[n], n)
      /\ \A n \in Names : n # m /\ listing'[n] # None => listing'[n] = listing[n] /\ listing[n] # u
      /\ \A n \in Names : listing[n] # None /\ listing[n] # u => n # m /\ listing'[n] = listing[n]
  BY OpFiles, <1>k DEF Lands, Inv, DriveInv, ListedRight, LinkOrNone
<1>n. \A g \in Files : node[g] # None => node[g] \in Links
  BY FileTypes DEF LinkOrNone
\* Who else uploads to the link has found it there, and still waits.
<1>w. \A g \in Files : g # f /\ Has(g, u) =>
        /\ rel[f].pc = "publish" /\ node[g] = u /\ rel[g].existing = u /\ rel[g].up = None
        /\ Seated(g) /\ ~Out(g) /\ Place(g, m) /\ InLine(f, g)
  <2> SUFFICES ASSUME NEW g \in Files, g # f, Has(g, u)
               PROVE  /\ rel[f].pc = "publish" /\ node[g] = u /\ rel[g].existing = u /\ rel[g].up = None
                      /\ Seated(g) /\ ~Out(g) /\ Place(g, m) /\ InLine(f, g)
    OBVIOUS
  <2>1. InLine(f, g)
    <3>1. Aims(f, u, m) /\ Aims(g, u, m)
      BY <1>0 DEF Aims
    <3> QED
      BY <3>1, <1>0 DEF Inv, TurnsInv, OneByOne, InLine, LinkOrNone
  <2>2. rel[g].pc \in {"decide", "await"} /\ ~HoldsMu(g) /\ ~Relocating(g)
    BY <2>1 DEF InLine, HoldsMu, RelSteps, Relocating
  <2>3. rel[g].existing = u /\ rel[g].up = None /\ ~handle[g].gone /\ Started(g)
    BY <2>2, LocalsShape DEF ShapeOf, Uploaded, Has, Live
  <2>4. Seated(g) /\ ~Out(g) /\ node[g] = u
    BY <2>2, <2>3, <1>0, ReleasedSeat DEF Inv, NodeInv, WorksOnNode
  <2>5. rel[f].pc = "publish" /\ Named(u, m)
    BY <2>4, <1>0, <1>k, <1>p, <1>v DEF SameLink
  <2>6. Place(g, m)
    BY <2>2, <2>4, <2>5, <1>0, NamedPlace
  <2> QED
    BY <2>1, <2>3, <2>4, <2>5, <2>6
\* Where the file is shown, if it is.
<1>s. Seated(f) => Place(f, m)
  <2>1. CASE rel[f].pc = "publish" /\ rel[f].existing # None
    <3>1. Started(f) /\ rel[f].existing = u /\ ~Relocating(f)
      BY <2>1, <1>0, LocalsShape DEF ShapeOf, Live, Relocating
    <3>2. Named(u, m)
      BY <2>1, <1>k, <1>p DEF SameLink
    <3> QED
      BY <2>1, <3>1, <3>2, <1>0, NamedPlace DEF Inv, NodeInv, WorksOnNode
  <2>2. CASE ~(rel[f].pc = "publish" /\ rel[f].existing # None)
    BY <2>2, <1>0, <1>p, <1>v DEF Inv, FileInv, NameShown
  <2> QED
    BY <2>1, <2>2
<1>1. DriveInv'
  <2>1. OneActive'
    BY <1>k DEF Inv, DriveInv, OneActive, SameLink
  <2>2. ListedRight'
    BY <1>k, <1>m DEF ListedRight, SameLink
  <2>3. LinksUsed'
    <3>1. \A l : l \in LinkOrNone /\ InUse(l) => InUse(l)'
      BY <1>k DEF InUse, LinkOrNone
    <3>2. InUse(op.link)'
      BY <3>1, <1>e, OpFiles DEF EndState, Inv, DriveInv, LinksUsed, NoOp, InUse
    <3>3. \A g \in Files : node[g] \in LinkOrNone /\ rel[g].existing \in LinkOrNone /\ rel[g].up \in LinkOrNone
      BY FileTypes DEF Releases
    <3>4. InUse(rel[f].existing)' /\ InUse(rel[f].up)' /\ InUse(u)'
      BY <1>0, <1>e, <3>1 DEF EndState, InUse, Inv, DriveInv, LinksUsed, LinkOrNone
    <3>5. \A g \in Files : InUse(node[g])' /\ InUse(rel[g].existing)' /\ InUse(rel[g].up)'
      BY <1>0, <1>e, <3>1, <3>3, <3>4 DEF EndState, Inv, DriveInv, LinksUsed
    <3> QED
      BY <3>2, <3>5 DEF LinksUsed
  <2> QED
    BY <2>1, <2>2, <2>3 DEF DriveInv
<1>2. /\ ReleaseShape' /\ GoneRight' /\ BufferShown' /\ DestGone' /\ ReplacedGone'
      /\ ChainGone' /\ GoneStays' /\ LandsRight' /\ WorksOnNode'
      /\ RenameShape' /\ MovedGone' /\ MovedUpload' /\ OneByOne'
  BY <1>0, <1>e, EndsMost
<1>3. NameShown'
  <2>1. \A g \in Files : g # f /\ Seated(g)' => /\ Place(g, name[g])'
                                               /\ (Moving /\ op.file = g /\ name[g] = op.to => node[g] # None)'
    BY <1>0, <1>e, FileTypes DEF EndState, Inv, FileInv, NameShown
  <2>2. Seated(f)' => Place(f, name[f])'
    BY <1>0, <1>e, <1>s DEF EndState
  <2> QED
    BY <2>1, <2>2, <1>0 DEF NameShown
<1>4. UploadNamed'
  <2>1. \A g \in Files : g # f /\ rel[g].up # None => rel[g].up \in Links /\ rel[g].up # u
    <3>1. ASSUME NEW g \in Files, g # f, rel[g].up = u PROVE FALSE
      BY <3>1, <1>0, <1>w, LocalsShape DEF ShapeOf, Uploaded, Has, Live, Started, HoldsMu, RelSteps
    <3> QED
      BY <3>1, FileTypes DEF Releases, LinkOrNone
  <2>2. \A g \in Files : rel'[g].up # None => /\ g # f /\ rel'[g] = rel[g] /\ handle'[g].gone = handle[g].gone
                                              /\ Seated(g)' => Seated(g)
    BY <1>e DEF EndState
  <2>3. \A g \in Files : rel[g].name \in Names
    BY LinkTypes
  <2> QED
    BY <2>1, <2>2, <2>3, <1>k DEF Inv, NodeInv, UploadNamed, SameLink
<1>5. NodeNamed'
  <2>1. Seated(f)' => (Place(f, m) /\ Named(u, m))'
    BY <1>e, <1>k, <1>s DEF EndState
  <2>2. \A g \in Files : g # f /\ node[g] # None => SameLink(node[g])
    BY <1>0, <1>k, <1>n, <1>p, <1>v
  <2>3. \A g \in Files : g # f /\ Seated(g)' /\ node[g] # None =>
          (\/ Trashed(node[g])
           \/ \E n \in Names : Place(g, n) /\ Named(node[g], n)
           \/ Relocating(g) /\ rel[g].existing = None /\ rel[g].up = node[g])'
    BY <2>2, <1>0, <1>e DEF EndState, Inv, NodeInv, NodeNamed, SameLink
  <2> QED
    BY <2>1, <2>3, <1>0 DEF NodeNamed
<1>6. NodeAlive'
  <2>1. \A g \in Files : node'[g] # None /\ Trashed(node[g])' => g # f /\ Trashed(node[g])
    BY <1>0, <1>k, <1>n
  <2> QED
    BY <2>1, <1>0, <1>e DEF EndState, Inv, NodeInv, NodeAlive, Landing
<1>7. NodeListed'
  <2> SUFFICES ASSUME NEW g \in Files, NEW n \in Names, Place(g, n)', node'[g] # None, Named(node[g], n)'
               PROVE  listing'[n] = node'[g] \/ (rel'[g].up = node'[g] /\ rel'[g].existing = None)
    BY DEF NodeListed
  <2>1. CASE node'[g] = u
    BY <2>1, <1>k, <1>m
  <2>2. CASE node'[g] # u
    <3>1. g # f /\ node'[g] = node[g] /\ node[g] \in Links /\ SameLink(node[g]) /\ rel'[g] = rel[g]
      BY <2>2, <1>0, <1>e, <1>k, <1>n DEF EndState
    <3>2. Place(g, n) /\ Named(node[g], n)
      BY <3>1, <1>e DEF EndState, SameLink
    <3> QED
      BY <3>1, <3>2, <2>2, <1>m DEF Inv, NodeInv, NodeListed
  <2> QED
    BY <2>1, <2>2
<1>8. LinkHeld'
  <2> SUFFICES ASSUME NEW g \in Files, NEW l \in Links, NEW n \in Names, Has(g, l)', Named(l, n)',
                      ~(rel'[g].existing = None /\ rel'[g].name = n), ~(Moving' /\ op'.link = l)
               PROVE  listing'[n] = l /\ Held(l, n)'
    BY DEF LinkHeld
  <2>1. /\ g # f /\ Has(g, l) /\ rel'[g] = rel[g] /\ (Moving' <=> Moving)
        /\ Moving => op' = op
    BY <1>e DEF EndState
  <2>2. CASE l = u
    <3>1. n = m /\ listing'[n] = l
      BY <2>2, <1>k, <1>m
    <3>2. node[g] = u /\ Place(g, m) /\ ~Out(g) /\ Seated(g)
      BY <2>1, <2>2, <1>w
    <3> QED
      BY <3>1, <3>2, <2>1, <2>2, <1>0, <1>e DEF EndState, Held
  <2>3. CASE l # u
    <3>1. Named(l, n) /\ n # m /\ l # None
      BY <2>3, <1>k, WriteBufferAssumption DEF SameLink, Links
    <3>2. listing[n] = l /\ Held(l, n)
      BY <3>1, <2>1 DEF Inv, NodeInv, LinkHeld
    <3>3. PICK k \in Files : /\ Place(k, n) /\ ~Out(k)
                             /\ node[k] = l \/ (Relocating(k) /\ rel[k].up # None)
      BY <3>2 DEF Held
    <3>4. CASE k # f
      <4>1. Place(k, n)' /\ ~Out(k)' /\ node'[k] = node[k] /\ rel'[k] = rel[k] /\ (Relocating(k)' <=> Relocating(k))
        BY <3>3, <3>4, <1>0, <1>e DEF EndState
      <4>2. Held(l, n)'
        BY <4>1, <3>3 DEF Held
      <4> QED
        BY <4>2, <3>1, <3>2, <2>3, <1>m
    <3>5. CASE k = f
      <4>1. Place(f, m) /\ Place(f, n) /\ Seated(f)
        BY <3>3, <3>5, <1>e, <1>s DEF EndState
      <4>2. Moving /\ op.file = f /\ op.to \in {n, m}
        BY <4>1, <3>1, WriteBufferAssumption DEF Place, TreeInv, OneName
      <4>3. Linked /\ op.link # None /\ op.link \in Links /\ Named(op.link, op.to)
        BY <4>2, OpFiles DEF Linked, Moving, Inv, RenameInv, RenameShape, MovedRight, LinkOrNone
      <4>4. op.to # n
        BY <4>2, <4>3, <3>1, <2>1 DEF Inv, DriveInv, OneActive
      <4>5. u = op.link /\ rel[f].pc = "publish"
        BY <4>2, <4>3, <4>4, <1>0, <1>k, <1>v
      <4>6. rel[f].existing = u /\ ~Relocating(f) /\ Started(f)
        BY <4>2, <4>3, <4>5, <1>0 DEF Inv, RenameInv, MovedUpload, Relocating, Live
      <4> QED
        BY <4>1, <4>6, <3>3, <3>5, <2>3, <1>0 DEF Inv, NodeInv, WorksOnNode
    <3> QED
      BY <3>4, <3>5
  <2> QED
    BY <2>2, <2>3
\* A rename is not about the link, when the Release moves it.
<1>o. Linked => /\ op' = op /\ tree' = tree /\ op.link # None /\ op.link \in Links /\ op.file \in Files
                /\ SameLink(op.link)
  <2>1. Linked => /\ op' = op /\ tree' = tree /\ op.link # None /\ op.link \in Links /\ op.file \in Files
    BY <1>e, OpFiles DEF EndState, Inv, RenameInv, RenameShape, LinkOrNone
  <2>2. ASSUME Linked, op.link = u, rel[f].pc = "move" PROVE FALSE
    BY <2>1, <2>2, <1>0, <1>v DEF Inv, RenameInv, MovedGone, FileInv, GoneStays
  <2> QED
    BY <2>1, <2>2, <1>0, <1>k, <1>p
<1>9. SourceRight' /\ MovedRight'
  <2>1. Linked' <=> Linked
    BY <1>e DEF EndState
  <2>2. SourceRight'
    BY <2>1, <1>o, OpFiles DEF Inv, RenameInv, SourceRight, SameLink, Linked
  <2>3. Moving' => Moving /\ Linked /\ Linked'
    BY <1>e DEF EndState, Moving, Linked
  <2>4. MovedRight'
    <3>1. Moving => Linked
      BY DEF Moving, Linked
    <3>2. ASSUME Moving PROVE (Named(op.link, op.to) /\ listing[op.to] = op.link)'
      <4>1. Named(op.link, op.to)' /\ op.to \in Names /\ listing[op.to] = op.link /\ op' = op
        BY <3>1, <3>2, <1>o, OpFiles DEF Inv, RenameInv, MovedRight, SameLink
      <4> QED
        BY <4>1, <3>1, <3>2, <1>o, <1>k, <1>m
    <3> QED
      BY <3>2, <2>3 DEF MovedRight
  <2> QED
    BY <2>2, <2>4
<1>10. MovedOwn'
  <2>1. ASSUME Linked, f # op.file, Seated(f), ~Out(f), u = op.link PROVE FALSE
    <3>1. handle[f].gone
      BY <2>1, <1>0 DEF Inv, RenameInv, MovedGone
    <3> QED
      BY <3>1, <2>1 DEF Inv, FileInv, GoneRight, Replaced, Out, Linked
  <2> QED
    BY <2>1, <1>0, <1>e, <1>o DEF EndState, Inv, RenameInv, MovedOwn
<1>11. MovedPending'
  BY <1>0, <1>e, <1>o DEF EndState, Inv, RenameInv, MovedPending
<1>12. OthersMake'
  <2> SUFFICES ASSUME (op.pc \in {"renamePending", "retarget"} \/ Moving)', NEW g \in Files \ {op'.file},
                      NEW l \in Links, Has(g, l)', Named(l, op.from)'
               PROVE  (rel[g].existing = None /\ rel[g].name = op.from)'
    BY DEF OthersMake
  <2>1. op' = op /\ g # f /\ Has(g, l) /\ rel'[g] = rel[g] /\ op.from \in Names /\ (Moving' => Moving)
    BY <1>e, OpFiles DEF EndState
  <2>2. SameLink(l)
    BY <2>1, <1>0, <1>k, <1>p, <1>w
  <2> QED
    BY <2>1, <2>2 DEF Inv, RenameInv, OthersMake, SameLink
<1>13. PendingOwn'
  <2> SUFFICES ASSUME op'.pc \in {"renamePending", "retarget"}, node'[op'.file] # None,
                      Named(node[op.file], op.from)', op'.file # f
               PROVE  (\/ rel[op.file].up = node[op.file] \/ ~Started(op.file)
                       \/ rel[op.file].existing # None)'
    BY <1>e DEF EndState, PendingOwn
  <2>1. op' = op /\ op.file \in Files /\ op.from \in Names /\ node'[op.file] = node[op.file]
        /\ rel'[op.file] = rel[op.file] /\ (Started(op.file)' <=> Started(op.file))
    BY <1>0, <1>e, OpFiles DEF EndState
  <2>2. SameLink(node[op.file])
    BY <2>1, <1>0, <1>k, <1>n, <1>p, <1>v
  <2> QED
    BY <2>1, <2>2 DEF Inv, RenameInv, PendingOwn, SameLink
<1>14. RetargetWaits'
  BY <1>0, <1>e, OpFiles DEF EndState, Inv, RenameInv, RetargetWaits
<1>15. SeatFirst'
  <2> SUFFICES ASSUME NEW h \in Files, NEW g \in Files, h # g, Seated(g)', ~Out(g)',
                      Aims(h, node[g], name[g])'
               PROVE  (Aims(g, node[g], name[g]) \/ Behind(h, g) \/ Takes(h, g) \/ Relocating(g))'
    BY DEF SeatFirst
  <2>1. h # f
    BY <1>e DEF EndState
  <2>2. g = f => Aims(f, u, m) /\ u \in LinkOrNone
    BY <1>0 DEF Aims, LinkOrNone
  <2> QED
    BY <2>1, <2>2, <1>0, <1>e, FileTypes, EndsSeatFirst
<1> QED
  BY <1>1, <1>2, <1>3, <1>4, <1>5, <1>6, <1>7, <1>8, <1>9, <1>10, <1>11, <1>12, <1>13,
     <1>14, <1>15 DEF Inv, FileInv, NodeInv, RenameInv, TurnsInv

LEMMA PublishLands ==
  ASSUME Sound, NEW f \in Files, Publish(f), races' = {}
  PROVE  Ends(f) /\ \E u \in Links, m \in Names : Lands(f, u, m)
<1> USE DEF Sound
<1>1. PICK u \in Links, m \in Names : u = rel[f].up /\ m = rel[f].upName
  BY LocalsShape, FileTypes DEF Publish, ShapeOf, Landing, Releases, LinkOrNone
<1>2. Ends(f) /\ Landing(f) /\ rel[f].pc = "publish"
  BY DropLeaves, ReturnEnds DEF Publish, Landing
<1>3. /\ node' = [node EXCEPT ![f] = u] /\ name' = [name EXCEPT ![f] = m]
      /\ listing' = Upsert(listing, u, m) /\ drive' = drive /\ replaces' = replaces
  BY <1>1 DEF Publish
<1>4. drive[u].st = "active" /\ drive[u].name = m
  <2>1. drive[u].st # "trashed" /\ drive[u].name = m
    BY <1>1 DEF Publish, Raced
  <2>2. drive[u].st # "free"
    BY <1>1, WriteBufferAssumption DEF Inv, DriveInv, LinksUsed, InUse, Links
  <2> QED
    BY <2>1, <2>2 DEF TypeOK, FolderOK, DriveLinks
<1>5. rel[f].existing = None => name[f] = m
  BY <1>1, <1>2, LocalsShape DEF ShapeOf, Inv, FileInv, LandsRight
<1>6. \A k \in Links : k # u => ~Named(k, m)
  BY <1>4 DEF Inv, DriveInv, OneActive, Named
<1>7. Lands(f, u, m)
  BY <1>1, <1>2, <1>3, <1>4, <1>5, <1>6 DEF Lands, Upsert, TypeOK, NodesOK
<1> QED
  BY <1>2, <1>7

LEMMA PublishKeeps == ASSUME Sound, NEW f \in Files, Publish(f), races' = {} PROVE Inv'
BY PublishLands, LandsKeeps

LEMMA ReleaseMoveLands ==
  ASSUME Sound, NEW f \in Files, ReleaseMove(f), races' = {}
  PROVE  Ends(f) /\ \E u \in Links, m \in Names : Lands(f, u, m)
<1> USE DEF Sound
<1>1. PICK u \in Links, m \in Names : u = rel[f].up /\ m = rel[f].to
  BY LocalsShape, FileTypes DEF ReleaseMove, ShapeOf, Landing, Releases, LinkOrNone
<1>2. /\ rel[f].pc = "move" /\ Drop(f) /\ MoveDone(u, rel[f].name, m) /\ Return(f, TRUE)
      /\ node' = [node EXCEPT ![f] = u] /\ name' = [name EXCEPT ![f] = m]
      /\ op.file # f /\ (\A g \in Files \ {f} : node[g] # u)
      /\ listing[rel[f].name] \in {None, u} /\ replaces' = replaces
  BY <1>1 DEF ReleaseMove, Raced, Races
<1>3. Ends(f) /\ Landing(f)
  BY <1>2, DropLeaves, ReturnEnds DEF Landing
<1>4. name[f] = m
  BY <1>1, <1>2 DEF Inv, FileInv, LandsRight
<1>5. /\ drive[u].st = "active" /\ drive'[u].st = "active" /\ drive'[u].name = m
      /\ \A k \in Links : k # u => drive'[k] = drive[k] /\ ~Named(k, m)
  <2>1. drive \in [Links -> DriveLinks]
    BY DEF TypeOK, FolderOK
  <2>2. drive[u].st = "active" /\ Active(drive, m) \subseteq {u} /\ drive' = [drive EXCEPT ![u].name = m]
    BY <1>2 DEF MoveDone, CanMove
  <2>3. drive'[u] = [drive[u] EXCEPT !.name = m] /\ \A k \in Links : k # u => drive'[k] = drive[k]
    BY <2>1, <2>2
  <2>4. drive'[u].st = "active" /\ drive'[u].name = m
    BY <2>1, <2>2, <2>3 DEF DriveLinks
  <2> QED
    BY <2>2, <2>3, <2>4 DEF Active, Named
<1>6. \A n \in Names : listing'[n] = IF n = m THEN u ELSE IF listing[n] = u THEN None ELSE listing[n]
  <2>1. listing \in [Names -> LinkOrNone] /\ rel[f].name \in Names /\ None \notin Links
    BY LinkTypes, WriteBufferAssumption DEF TypeOK, FolderOK, Links
  <2>2. listing' = Upsert(Removed(listing, rel[f].name), u, m)
    BY <1>2 DEF MoveDone
  <2> QED
    BY <2>1, <2>2, <1>2 DEF Upsert, Removed
<1>7. Lands(f, u, m)
  BY <1>1, <1>2, <1>3, <1>4, <1>5, <1>6 DEF Lands, TypeOK, NodesOK
<1> QED
  BY <1>3, <1>7

LEMMA ReleaseMoveKeeps == ASSUME Sound, NEW f \in Files, ReleaseMove(f), races' = {} PROVE Inv'
BY ReleaseMoveLands, LandsKeeps

(***************************************************************************)
(* A link is trashed, and taken off the listing.                            *)
(***************************************************************************)

Trashes(d, m) ==
  /\ Named(d, m) /\ listing[m] = d
  /\ drive' = [drive EXCEPT ![d].st = "trashed"] /\ listing' = Removed(listing, m)

LEMMA TrashFacts ==
  ASSUME Sound, NEW d \in Links, NEW m \in Names, Trashes(d, m)
  PROVE  /\ OneActive' /\ ListedRight' /\ Trashed(d)'
         /\ \A k \in Links : /\ k # d => SameLink(k)
                             /\ InUse(k)' <=> InUse(k)
                             /\ Trashed(k)' <=> Trashed(k) \/ k = d
                             /\ \A n \in Names : Named(k, n)' <=> Named(k, n) /\ k # d
         /\ \A n \in Names : listing'[n] = IF n = m THEN None ELSE listing[n]
         /\ \A n \in Names : listing[n] = d => n = m
<1> USE DEF Sound
<1>1. drive'[d].st = "trashed" /\ \A k \in Links : k # d => drive'[k] = drive[k]
  BY DEF Trashes, TypeOK, FolderOK, DriveLinks
<1>2. \A n \in Names : listing'[n] = IF n = m THEN None ELSE listing[n]
  BY DEF Trashes, Removed, TypeOK, FolderOK
<1>3. \A k \in Links : /\ k # d => SameLink(k)
                       /\ InUse(k)' <=> InUse(k)
                       /\ Trashed(k)' <=> Trashed(k) \/ k = d
                       /\ \A n \in Names : Named(k, n)' <=> Named(k, n) /\ k # d
  BY <1>1 DEF SameLink, InUse, Trashed, Named, Trashes
<1>4. \A n \in Names : listing[n] # None => listing[n] \in Links /\ Named(listing[n], n)
  BY OpFiles DEF Inv, DriveInv, ListedRight, LinkOrNone
<1>5. \A n \in Names : listing[n] = d => n = m
  BY <1>4, WriteBufferAssumption DEF Trashes, Named, Links
<1>6. OneActive'
  BY <1>3 DEF Inv, DriveInv, OneActive
<1>7. ListedRight'
  BY <1>2, <1>3, <1>4, <1>5 DEF ListedRight
<1>8. Trashed(d)'
  BY <1>3
<1> QED
  BY <1>2, <1>3, <1>5, <1>6, <1>7, <1>8

LEMMA ReleaseMoveTrashKeeps ==
  ASSUME Sound, NEW f \in Files, ReleaseMoveTrash(f), races' = {}
  PROVE  Inv'
<1> USE DEF Sound
<1>0. PICK u \in Links, m \in Names, trashed \in LinkOrNone :
        /\ rel[f].pc = "moveTrash" /\ rel[f].up = u /\ rel[f].to = m /\ name[f] = m
        /\ MoveTrash(u, m)
        /\ rel' = [rel EXCEPT ![f].pc = "move", ![f].trashed = trashed]
        /\ op.pc \in {"renameReplace", "renameApply"} /\ op.link # u => listing[m] # op.link
        /\ UNCHANGED <<tree, node, name, replaces, op, handle>>
  <2>1. rel[f].up \in Links /\ rel[f].to \in Names /\ name[f] = rel[f].to
    BY LocalsShape, FileTypes, LinkTypes DEF ReleaseMoveTrash, ShapeOf, Landing, Releases, LinkOrNone, Inv, FileInv, LandsRight
  <2>2. MoveTrashed(rel[f].up, rel[f].to) \in LinkOrNone
    BY <2>1, OpFiles DEF MoveTrashed, LinkOrNone
  <2> QED
    BY <2>1, <2>2 DEF ReleaseMoveTrash, nodeVars, Raced
<1>f. /\ \A g \in Files : g # f => rel'[g] = rel[g]
      /\ rel'[f].existing = rel[f].existing /\ rel'[f].name = rel[f].name
      /\ rel'[f].chain = rel[f].chain /\ rel'[f].pc = "move" /\ rel'[f].up = rel[f].up
      /\ rel'[f].upName = rel[f].upName /\ rel'[f].to = rel[f].to
  <2>1. rel[f] \in Releases /\ rel \in [Files -> Releases]
    BY FileTypes DEF TypeOK, ReleaseOK
  <2> QED
    BY <1>0, <2>1 DEF Releases
<1>c. UNCHANGED <<tree, node, name, replaces, op, handle>>
  BY <1>0
<1>s. \A g \in Files : /\ Started(g)' <=> Started(g)
                       /\ HoldsMu(g)' <=> HoldsMu(g)
                       /\ Landing(g)' <=> Landing(g)
                       /\ Live(g)' <=> Live(g)
                       /\ Relocating(g)' <=> Relocating(g)
                       /\ HasBuf(g)' <=> HasBuf(g)
  BY <1>0, <1>c, <1>f DEF Started, HoldsMu, Landing, Live, Relocating, HasBuf, RelSteps
<1>z. ShapeOf(f)'
  BY <1>0, <1>c, <1>f, <1>s, LocalsShape DEF ShapeOf, Landing, Uploaded
<1>1. CASE UNCHANGED <<drive, listing>>
  <2>1. Started(f) /\ Started(f)' /\ HoldsMu(f)' /\ Landing(f)'
    BY <1>0, <1>f DEF Started, HoldsMu, Landing, RelSteps
  <2>2. \A x \in Files : ~InLine(x, f)
    BY <1>0 DEF InLine
  <2>3. \A g \in Files : handle'[g].gone = handle[g].gone /\ (HasBuf(g)' <=> HasBuf(g))
    BY <1>c, <1>s
  <2>4. Proceeds(f)
    BY <1>0, <1>c, <1>f, <1>s, <1>z, <2>1, <2>2, <2>3 DEF Proceeds
  <2> QED
    BY <2>4, <1>1, <1>c, ProceedsKeeps
<1>2. CASE ~UNCHANGED <<drive, listing>>
  <2>d. PICK d \in Links : d # u /\ listing[m] = d /\ Trashes(d, m)
    <3>1. listing[m] \notin {None, u} /\ listing[m] \in Links
      BY <1>0, <1>2, OpFiles DEF MoveTrash, LinkOrNone
    <3> QED
      BY <3>1, <1>0 DEF MoveTrash, Trashes, Inv, DriveInv, ListedRight
  <2>k. /\ OneActive' /\ ListedRight' /\ Trashed(d)'
        /\ \A k \in Links : /\ k # d => SameLink(k)
                            /\ InUse(k)' <=> InUse(k)
                            /\ Trashed(k)' <=> Trashed(k) \/ k = d
                            /\ \A n \in Names : Named(k, n)' <=> Named(k, n) /\ k # d
        /\ \A n \in Names : listing'[n] = IF n = m THEN None ELSE listing[n]
        /\ \A n \in Names : listing[n] = d => n = m
    BY <2>d, TrashFacts
  <2>a. \A g \in Files : /\ \A l : Has(g, l)' <=> Has(g, l)
                         /\ \A n : Makes(g, n)' <=> Makes(g, n)
                         /\ \A l, n : Aims(g, l, n)' <=> Aims(g, l, n)
    BY <1>f, <1>s DEF Has, Makes, Aims
  <2>t. /\ (Linked' <=> Linked) /\ (Moving' <=> Moving)
        /\ \A g : /\ Seated(g)' <=> Seated(g)
                  /\ Replaced(g)' <=> Replaced(g)
                  /\ Out(g)' <=> Out(g)
                  /\ \A n : Place(g, n)' <=> Place(g, n)
                  /\ \A h : Takes(g, h)' <=> Takes(g, h)
    BY <1>c, SameSeats
  <2>b. \A g, h \in Files : Behind(g, h) => Behind(g, h)'
    BY <1>c, <1>s, <2>t, AfterKept DEF Behind
  <2>l. \A g, h \in Files : InLine(g, h) => InLine(g, h)'
    BY <1>0, <1>c, <1>f, <2>b, AfterKept DEF InLine
  <2>n. \A g \in Files : node[g] # None => node[g] \in Links
    BY FileTypes DEF LinkOrNone
  <2>v. Seated(f) /\ ~Replaced(f) /\ ~Out(f) /\ Place(f, m)
    <3>1. ~handle[f].gone
      BY <1>0, WriteBufferAssumption DEF Inv, FileInv, GoneStays, Relocating, Links
    <3> QED
      BY <3>1, <1>0, ReleasedSeat DEF Inv, FileInv, NameShown
  <2>1. DriveInv'
    <3>1. \A l : l \in LinkOrNone /\ InUse(l) => InUse(l)'
      BY <2>k DEF InUse, LinkOrNone
    <3>2. \A g \in Files : node[g] \in LinkOrNone /\ rel[g].existing \in LinkOrNone /\ rel[g].up \in LinkOrNone
      BY FileTypes DEF Releases
    <3> QED
      BY <2>k, <3>1, <3>2, <1>c, <1>f, OpFiles DEF Inv, DriveInv, LinksUsed
  <2>2. ReleaseShape'
    BY <1>c, <1>f, <1>s, <1>z DEF Inv, FileInv, ReleaseShape, ShapeOf
  <2>3. NameShown' /\ GoneRight' /\ BufferShown' /\ DestGone' /\ ReplacedGone'
    BY <1>c, <1>s, <2>t DEF Inv, FileInv, NameShown, GoneRight, BufferShown, DestGone, ReplacedGone
  <2>4. ChainGone' /\ GoneStays' /\ LandsRight'
    <3>1. \A g \in Files : rel'[g].chain = rel[g].chain /\ rel'[g].up = rel[g].up
      BY <1>f
    <3>2. ChainGone'
      BY <3>1, <1>c, <1>s, <2>t DEF Inv, FileInv, ChainGone
    <3>3. GoneStays'
      BY <3>1, <1>c, <1>s, <2>t DEF Inv, FileInv, GoneStays
    <3>4. LandsRight'
      BY <1>0, <1>c, <1>f DEF Inv, FileInv, LandsRight
    <3> QED
      BY <3>2, <3>3, <3>4
  <2>5. WorksOnNode' /\ NodeNamed'
    BY <1>c, <1>f, <1>s, <2>t, <2>k, <2>n DEF Inv, NodeInv, WorksOnNode, NodeNamed
  <2>6. UploadNamed'
    BY <1>c, <1>f, <2>t, <2>k, FileTypes DEF Inv, NodeInv, UploadNamed, Releases, LinkOrNone
  <2>7. NodeAlive'
    <3> SUFFICES ASSUME NEW g \in Files, Seated(g), ~Out(g), node[g] # None, Trashed(node[g])'
                 PROVE  (\/ op.pc \in {"renameMove", "renameReplace"} /\ tree[op.to] = g
                         \/ /\ rel[g].existing = None /\ (Landing(g) \/ rel[g].pc = "patch")
                            /\ rel[g].up = node[g] \/ rel[g].pc = "move")'
      BY <1>c, <2>t DEF NodeAlive
    <3>1. CASE node[g] # d
      <4>1. Trashed(node[g])
        BY <3>1, <1>c, <2>k, <2>n
      <4>2. \/ op.pc \in {"renameMove", "renameReplace"} /\ tree[op.to] = g
            \/ /\ rel[g].existing = None /\ (Landing(g) \/ rel[g].pc = "patch")
               /\ rel[g].up = node[g] \/ rel[g].pc = "move"
        BY <4>1, <1>c DEF Inv, NodeInv, NodeAlive
      <4>3. rel[g].pc = "patch" => g # f
        BY <1>0
      <4>4. rel[g].pc = "move" => rel'[g].pc = "move"
        BY <1>f
      <4> QED
        BY <4>2, <4>3, <4>4, <1>c, <1>f, <1>s
    <3>2. CASE node[g] = d /\ g # f
      <4>1. Place(g, m) => FALSE
        <5> SUFFICES ASSUME Place(g, m) PROVE FALSE
          OBVIOUS
        <5>1. m = op.to /\ (Moving \/ op.pc = "renameWait")
              /\ (tree[op.to] = f \/ (op.file = f /\ tree[op.to] = g))
          BY <3>2, <2>v, OnePlace
        <5>2. Moving
          BY <5>1, <2>v, <3>2 DEF Out, Replaced
        <5> QED
          BY <3>2, <5>1, <5>2, <1>0, <2>d DEF Moving, Inv, RenameInv, MovedRight
      <4>2. Named(d, m) /\ d \in Links
        BY <2>d DEF Trashes
      <4>3. rel[g].existing = None /\ rel[g].up = node[g] /\ Relocating(g)
        BY <3>2, <4>1, <4>2 DEF Inv, NodeInv, NodeNamed, Named, Trashed
      <4> QED
        BY <4>3, <3>2, <1>c, <1>f, <1>s DEF Relocating, Landing
    <3>3. CASE node[g] = d /\ g = f
      <4>1. rel[f].existing = None
        BY <3>3, <1>0, <2>d, <2>v, LocalsShape DEF ShapeOf, Landing, Started, Inv, NodeInv, WorksOnNode
      <4>2. Landing(f)'
        BY <1>f DEF Landing
      <4> QED
        BY <3>3, <4>1, <4>2, <1>f
    <3> QED
      BY <3>1, <3>2, <3>3
  <2>8. NodeListed'
    <3> SUFFICES ASSUME NEW g \in Files, NEW n \in Names, Place(g, n)', node[g] # None, Named(node[g], n)'
                 PROVE  listing'[n] = node[g] \/ (rel[g].up = node[g] /\ rel[g].existing = None)
      BY <1>c, <1>f DEF NodeListed
    <3>1. Place(g, n) /\ node[g] \in Links
      BY <2>t, <2>n
    <3>2. node[g] # d /\ Named(node[g], n)
      BY <3>1, <1>c, <2>k DEF Named, Trashed
    <3>3. n # m
      BY <3>1, <3>2, <2>d DEF Trashes, Inv, DriveInv, OneActive
    <3> QED
      BY <3>1, <3>2, <3>3, <2>k DEF Inv, NodeInv, NodeListed
  <2>9. LinkHeld'
    <3>1. \A l : \A n \in Names : Held(l, n) => Held(l, n)'
      BY <1>c, <1>f, <1>s, <2>t DEF Held
    <3> SUFFICES ASSUME NEW g \in Files, NEW l \in Links, NEW n \in Names, Has(g, l)', Named(l, n)',
                        ~(rel'[g].existing = None /\ rel'[g].name = n), ~(Moving' /\ op'.link = l)
                 PROVE  listing'[n] = l /\ Held(l, n)'
      BY DEF LinkHeld
    <3>2. l # d /\ Named(l, n) /\ Has(g, l)
      BY <2>a, <2>k DEF Named, Trashed
    <3>3. listing[n] = l /\ Held(l, n)
      BY <3>2, <1>c, <1>f, <2>t DEF Inv, NodeInv, LinkHeld
    <3>4. n # m
      BY <3>2, <3>3, <2>d
    <3> QED
      BY <3>1, <3>3, <3>4, <2>k
  <2>10. RenameShape' /\ SourceRight'
    BY <1>c, <2>t, <2>k, OpFiles DEF Inv, RenameInv, RenameShape, SourceRight, Linked, LinkOrNone
  <2>11. MovedRight'
    <3>1. Moving => op.link \in Links /\ op.link # d /\ op.to \in Names
      BY <1>0, <2>d, <2>k, OpFiles DEF Inv, RenameInv, RenameShape, MovedRight, Linked, Moving, LinkOrNone
    <3> QED
      BY <3>1, <1>c, <2>t, <2>k, <2>d DEF Inv, RenameInv, MovedRight
  <2>12. MovedOwn' /\ MovedGone' /\ MovedUpload' /\ MovedPending'
    BY <1>c, <1>f, <2>a, <2>t, OpFiles DEF Inv, RenameInv, MovedOwn, MovedGone, MovedUpload, MovedPending
  <2>13. OthersMake'
    BY <1>c, <1>f, <2>a, <2>t, <2>k, OpFiles DEF Inv, RenameInv, OthersMake
  <2>14. PendingOwn' /\ RetargetWaits'
    <3>1. RetargetWaits'
      <4>1. \A g \in Files : rel'[g].pc = "patch" <=> rel[g].pc = "patch"
        BY <1>0, <1>f
      <4> QED
        BY <4>1, <1>c, <1>s, OpFiles DEF Inv, RenameInv, RetargetWaits
    <3>2. ASSUME op.pc \in {"renamePending", "retarget"}, node[op.file] # None, Named(node[op.file], op.from)'
          PROVE  (\/ rel[op.file].up = node[op.file] \/ ~Started(op.file)
                  \/ rel[op.file].existing # None)'
      <4>1. op.file \in Files /\ op.from \in Names
        BY <3>2, OpFiles
      <4>2. Named(node[op.file], op.from)
        BY <4>1, <3>2, <1>c, <2>k, <2>n DEF Named, Trashed
      <4>3. rel'[op.file].up = rel[op.file].up /\ rel'[op.file].existing = rel[op.file].existing
        BY <4>1, <1>f
      <4> QED
        BY <3>2, <4>1, <4>2, <4>3, <1>c, <1>s DEF Inv, RenameInv, PendingOwn
    <3> QED
      BY <3>1, <3>2, <1>c DEF PendingOwn
  <2>15. TurnsInv'
    BY <1>c, <1>s, <2>a, <2>t, <2>b, <2>l DEF Inv, TurnsInv, SeatFirst, OneByOne
  <2> QED
    BY <2>1, <2>2, <2>3, <2>4, <2>5, <2>6, <2>7, <2>8, <2>9, <2>10, <2>11, <2>12, <2>13, <2>14, <2>15
       DEF Inv, FileInv, NodeInv, RenameInv
<1> QED
  BY <1>1, <1>2

(***************************************************************************)
(* A buffer is opened, written, closed, settled or abandoned, and the       *)
(* listing refreshed, while the Releases stand where they are.              *)
(***************************************************************************)

\* What such a step may do to the buffer of g.
BufferMoves(g) ==
  \/ handle'[g].gone = handle[g].gone /\ (HasBuf(g)' <=> HasBuf(g))
  \/ ~Started(g) /\ ~handle'[g].gone /\ ~HasBuf(g)'
  \/ /\ ~Started(g) /\ ~handle[g].gone /\ ~handle'[g].gone
     /\ Seated(g) /\ ~Replaced(g) /\ node[g] # None
Rests ==
  /\ UNCHANGED <<tree, drive, node, name, replaces, op>>
  /\ listing' \in {listing, Fetched(drive)}
  /\ \A g \in Files : /\ BufferMoves(g)
                      /\ \/ rel'[g] = rel[g]
                         \/ /\ rel[g].pc \in {"idle", "start"} /\ rel'[g].pc \in {"idle", "start"}
                            /\ rel'[g].existing = rel[g].existing /\ rel'[g].up = rel[g].up
                            /\ rel'[g].chain = rel[g].chain

LEMMA RestsKeep ==
  ASSUME Sound, Rests
  PROVE  Inv'
<1> USE DEF Sound
<1>c. UNCHANGED <<tree, drive, node, name, replaces, op>>
  BY DEF Rests
<1>h. \A g \in Files : BufferMoves(g)
  BY DEF Rests
<1>r. \A g \in Files : /\ rel'[g].existing = rel[g].existing /\ rel'[g].up = rel[g].up
                       /\ rel'[g].chain = rel[g].chain
                       /\ Started(g)' <=> Started(g)
                       /\ Started(g) => rel'[g] = rel[g] /\ handle'[g].gone = handle[g].gone
                                        /\ (HasBuf(g)' <=> HasBuf(g))
                       /\ rel'[g].pc = rel[g].pc \/ ~Started(g)
                       /\ rel'[g].pc \notin {"idle", "start"} <=> rel[g].pc \notin {"idle", "start"}
  BY DEF Rests, BufferMoves, Started
<1>s. \A g \in Files : /\ HoldsMu(g)' <=> HoldsMu(g)
                       /\ Landing(g)' <=> Landing(g)
                       /\ Live(g)' <=> Live(g)
                       /\ Relocating(g)' <=> Relocating(g)
                       /\ rel[g].pc \notin {"idle", "start"} <=> Started(g)
  BY <1>c, <1>r DEF HoldsMu, Landing, Live, Relocating, Started
<1>a. \A g \in Files : /\ \A l : Has(g, l)' <=> Has(g, l)
                       /\ \A n : Makes(g, n)' <=> Makes(g, n)
                       /\ \A l, n : Aims(g, l, n)' <=> Aims(g, l, n)
  BY <1>r, <1>s DEF Has, Makes, Aims, Live
<1>t. /\ (Linked' <=> Linked) /\ (Moving' <=> Moving)
      /\ \A g : /\ Seated(g)' <=> Seated(g)
                /\ Replaced(g)' <=> Replaced(g)
                /\ Out(g)' <=> Out(g)
                /\ \A n : Place(g, n)' <=> Place(g, n)
                /\ \A h : Takes(g, h)' <=> Takes(g, h)
  BY <1>c, SameSeats
<1>d. \A l : /\ Trashed(l)' <=> Trashed(l)
             /\ InUse(l)' <=> InUse(l)
             /\ \A n : Named(l, n)' <=> Named(l, n)
  BY <1>c, SameDrive
<1>k. /\ ListedRight'
      /\ \A l \in Links, n \in Names : Named(l, n) /\ listing[n] = l => listing'[n] = l
  <2>1. CASE listing' = listing
    BY <2>1, <1>d DEF Inv, DriveInv, ListedRight
  <2>2. CASE listing' = Fetched(drive)
    BY <2>2, <1>c, FetchedRight, WriteBufferAssumption DEF ListedRight, Named, Links
  <2> QED
    BY <2>1, <2>2 DEF Rests
<1>p. \A h, x : After(h, x) => After(h, x)'
  BY <1>c, AfterKept
<1>b. \A g, h \in Files : Behind(g, h) => Behind(g, h)'
  BY <1>c, <1>r, <1>s, <1>t, <1>p DEF Behind, HoldsMu, Started, RelSteps
<1>l. \A g, h \in Files : InLine(g, h) => InLine(g, h)'
  BY <1>r, <1>s, <1>b, <1>p DEF InLine
<1>1. DriveInv'
  BY <1>c, <1>k, <1>r, <1>d DEF Inv, DriveInv, OneActive, LinksUsed
<1>2. ReleaseShape'
  BY <1>c, <1>r, <1>s DEF Inv, FileInv, ReleaseShape, ShapeOf, Landing, Uploaded, Started
<1>3. NameShown'
  BY <1>c, <1>t DEF Inv, FileInv, NameShown
<1>4. GoneRight' /\ BufferShown' /\ DestGone'
  BY <1>h, <1>t DEF BufferMoves, Inv, FileInv, GoneRight, BufferShown, DestGone
<1>5. ReplacedGone'
  BY <1>c, <1>h, <1>t DEF BufferMoves, Inv, FileInv, ReplacedGone
<1>6. ChainGone'
  BY <1>r, <1>h, <1>t DEF BufferMoves, Inv, FileInv, ChainGone
<1>7. GoneStays'
  BY <1>r, <1>h, <1>s, <1>t DEF BufferMoves, Inv, FileInv, GoneStays, Relocating, Started
<1>8. LandsRight'
  BY <1>c, <1>r, <1>s DEF Inv, FileInv, LandsRight
<1>9. WorksOnNode'
  BY <1>c, <1>r, <1>s, <1>t DEF Inv, NodeInv, WorksOnNode
<1>10. UploadNamed'
  <2>1. \A g \in Files : rel[g].up # None => Started(g)
    BY LocalsShape DEF ShapeOf
  <2> QED
    BY <2>1, <1>c, <1>r, <1>t, <1>d DEF Inv, NodeInv, UploadNamed
<1>11. NodeNamed'
  BY <1>c, <1>r, <1>s, <1>t, <1>d DEF Inv, NodeInv, NodeNamed
<1>12. NodeAlive'
  BY <1>c, <1>r, <1>s, <1>t, <1>d DEF Inv, NodeInv, NodeAlive
<1>13. NodeListed'
  <2> SUFFICES ASSUME NEW g \in Files, NEW n \in Names, Place(g, n)', node[g] # None, Named(node[g], n)'
               PROVE  listing'[n] = node[g] \/ (rel[g].up = node[g] /\ rel[g].existing = None)
    BY <1>c, <1>r DEF NodeListed
  <2>1. Place(g, n) /\ Named(node[g], n) /\ node[g] \in Links
    BY <1>c, <1>t, <1>d, FileTypes DEF LinkOrNone
  <2> QED
    BY <2>1, <1>k DEF Inv, NodeInv, NodeListed
<1>14. LinkHeld'
  <2>1. \A l, n : Held(l, n)' <=> Held(l, n)
    BY <1>c, <1>r, <1>s, <1>t DEF Held
  <2> SUFFICES ASSUME NEW g \in Files, NEW l \in Links, NEW n \in Names, Has(g, l)', Named(l, n)'
               PROVE  (\/ rel[g].existing = None /\ rel[g].name = n
                       \/ Moving /\ op.link = l
                       \/ listing[n] = l /\ Held(l, n))'
    BY DEF LinkHeld
  <2>2. Has(g, l) /\ Named(l, n) /\ rel'[g] = rel[g]
    BY <1>a, <1>d, <1>r DEF Has, Live
  <2> QED
    BY <2>1, <2>2, <1>c, <1>k, <1>t DEF Inv, NodeInv, LinkHeld
<1>15. RenameShape' /\ SourceRight'
  BY <1>c, <1>t, <1>d DEF Inv, RenameInv, RenameShape, SourceRight
<1>16. MovedRight'
  <2>1. Moving => op.link \in Links /\ op.to \in Names
    BY OpFiles DEF Inv, RenameInv, RenameShape, Linked, Moving, LinkOrNone
  <2> QED
    BY <2>1, <1>c, <1>k, <1>t, <1>d DEF Inv, RenameInv, MovedRight
<1>17. MovedOwn' /\ MovedUpload' /\ MovedPending'
  BY <1>c, <1>r, <1>a, <1>t, OpFiles DEF Inv, RenameInv, MovedOwn, MovedUpload, MovedPending
<1>18. MovedGone'
  BY <1>c, <1>r, <1>a, <1>t, OpFiles DEF Inv, RenameInv, MovedGone, Has, Live
<1>19. OthersMake'
  BY ZenonT(30), <1>c, <1>r, <1>a, <1>t, <1>d DEF Inv, RenameInv, OthersMake, Has, Live
<1>20. PendingOwn'
  BY <1>c, <1>r, <1>d, OpFiles DEF Inv, RenameInv, PendingOwn
<1>21. RetargetWaits'
  BY <1>c, <1>r, <1>h, <1>s, OpFiles DEF BufferMoves, Inv, RenameInv, RetargetWaits, Started
<1>22. TurnsInv'
  BY <1>c, <1>s, <1>a, <1>t, <1>b, <1>l DEF Inv, TurnsInv, SeatFirst, OneByOne
<1> QED
  BY <1>1, <1>2, <1>3, <1>4, <1>5, <1>6, <1>7, <1>8, <1>9, <1>10, <1>11, <1>12, <1>13,
     <1>14, <1>15, <1>16, <1>17, <1>18, <1>19, <1>20, <1>21, <1>22
     DEF Inv, FileInv, NodeInv, RenameInv

LEMMA SettleRests ==
  ASSUME Sound, NEW f \in Files, rel[f].pc = "idle", HasBuf(f)', HasBuf(f),
         \A g \in Files : g # f => rel'[g] = rel[g] /\ handle'[g] = handle[g],
         handle'[f].gone = handle[f].gone, rel'[f].pc = "start",
         rel'[f].existing = rel[f].existing, rel'[f].up = rel[f].up, rel'[f].chain = rel[f].chain,
         UNCHANGED <<treeVars, drive, nodeVars, op>>
  PROVE  Inv'
<1>1. \A g \in Files : handle'[g].gone = handle[g].gone /\ (HasBuf(g)' <=> HasBuf(g))
  BY DEF HasBuf
<1>2. Rests
  BY <1>1 DEF Rests, BufferMoves, treeVars, nodeVars
<1> QED
  BY <1>2, RestsKeep

LEMMA SettleKeeps ==
  ASSUME Sound, NEW f \in Files, NEW by, handle[f].phase = "waiting", Settle(f, by),
         UNCHANGED <<treeVars, drive, nodeVars, op>>
  PROVE  Inv'
<1>1. rel[f].pc = "idle" /\ HasBuf(f)
  BY DEF Sound, OwnedByRelease, HasBuf
<1>2. rel \in [Files -> Releases] /\ handle \in [Files -> Buffers] /\ rel[f] \in Releases /\ handle[f] \in Buffers
  BY FileTypes DEF Sound, TypeOK, ReleaseOK, BuffersOK
<1>3. /\ \A g \in Files : g # f => rel'[g] = rel[g] /\ handle'[g] = handle[g]
      /\ rel'[f] = [rel[f] EXCEPT !.pc = "start", !.by = by]
      /\ handle'[f] = [handle[f] EXCEPT !.phase = "releasing", !.dirty = TRUE, !.due = TRUE]
  BY <1>2 DEF Settle
<1>4. /\ handle'[f].gone = handle[f].gone /\ handle'[f].phase = "releasing" /\ rel'[f].pc = "start"
      /\ rel'[f].existing = rel[f].existing /\ rel'[f].up = rel[f].up /\ rel'[f].chain = rel[f].chain
  BY <1>2, <1>3 DEF Buffers, Releases
<1>5. HasBuf(f)'
  BY <1>4 DEF HasBuf
<1> QED
  BY <1>1, <1>3, <1>4, <1>5, SettleRests

LEMMA CloseKeeps == ASSUME Sound, NEW f \in Files, Close(f) PROVE Inv'
<1>1. rel[f].pc = "idle" /\ HasBuf(f)
  BY DEF Close, Sound, OwnedByRelease, HasBuf
<1>2. rel \in [Files -> Releases] /\ handle \in [Files -> Buffers] /\ rel[f] \in Releases /\ handle[f] \in Buffers
  BY FileTypes DEF Sound, TypeOK, ReleaseOK, BuffersOK
<1>3. /\ \A g \in Files : g # f => rel'[g] = rel[g] /\ handle'[g] = handle[g]
      /\ rel'[f] = [rel[f] EXCEPT !.pc = "start", !.by = "user"]
      /\ handle'[f] = [handle[f] EXCEPT !.phase = "releasing"]
  BY <1>2 DEF Close
<1>4. /\ handle'[f].gone = handle[f].gone /\ handle'[f].phase = "releasing" /\ rel'[f].pc = "start"
      /\ rel'[f].existing = rel[f].existing /\ rel'[f].up = rel[f].up /\ rel'[f].chain = rel[f].chain
  BY <1>2, <1>3 DEF Buffers, Releases
<1>5. HasBuf(f)'
  BY <1>4 DEF HasBuf
<1>6. UNCHANGED <<treeVars, drive, nodeVars, op>>
  BY DEF Close
<1> QED
  BY <1>1, <1>3, <1>4, <1>5, <1>6, SettleRests

\* A buffer is written to, or nothing here changes at all.
LEMMA StandsKeeps ==
  ASSUME Sound, UNCHANGED <<tree, drive, node, name, replaces, op, rel>>,
         listing' \in {listing, Fetched(drive)},
         \A g \in Files : handle'[g].gone = handle[g].gone /\ handle'[g].phase = handle[g].phase
  PROVE  Inv'
<1>1. Rests
  BY DEF Rests, BufferMoves, HasBuf
<1> QED
  BY <1>1, RestsKeep

LEMMA WriteKeeps == ASSUME Sound, NEW f \in Files, Write(f) \/ Truncate(f) PROVE Inv'
<1>1. handle \in [Files -> Buffers] /\ handle[f] \in Buffers
  BY FileTypes DEF Sound, TypeOK, BuffersOK
<1>2. handle' = [handle EXCEPT ![f].ver = saves + 1, ![f].dirty = TRUE]
  BY DEF Write, Truncate
<1>3. \A g \in Files : handle'[g].gone = handle[g].gone /\ handle'[g].phase = handle[g].phase
  BY <1>1, <1>2 DEF Buffers
<1> QED
  BY <1>3, StandsKeeps DEF Write, Truncate, treeVars, nodeVars

LEMMA OpenKeeps == ASSUME Sound, NEW n \in Names, Open(n), races' = {} PROVE Inv'
<1>0. PICK g \in Files : g = tree[n]
  BY OpFiles DEF Open, Sound, FileOrNone
<1>1. /\ \/ Parked(g) /\ handle' = TakenBack(g, "open")
         \/ /\ ~Pending(g) /\ ~HasBuf(g)
            /\ handle' = [handle EXCEPT ![g] = [NoHandle EXCEPT !.phase = "open"]]
      /\ ~(n = op.to /\ op.pc \in {"retarget", "renameApply", "renameWait"})
      /\ UNCHANGED <<treeVars, drive, nodeVars, rel, op>>
  BY <1>0 DEF Open, Raced
<1>2. handle \in [Files -> Buffers] /\ handle[g] \in Buffers
  BY FileTypes DEF Sound, TypeOK, BuffersOK
<1>3. Seated(g) /\ ~Replaced(g)
  BY <1>0, <1>1, OpFiles, WriteBufferAssumption DEF Sound, Seated, Replaced, TreeInv, OneName
<1>4. \A h \in Files : h # g => handle'[h] = handle[h]
  BY <1>1, <1>2 DEF TakenBack
<1>5. BufferMoves(g)
  <2>1. CASE Parked(g) /\ handle' = TakenBack(g, "open")
    BY <2>1, <1>2 DEF TakenBack, Buffers, BufferMoves, HasBuf, Parked
  <2>2. CASE /\ ~Pending(g) /\ ~HasBuf(g)
             /\ handle' = [handle EXCEPT ![g] = [NoHandle EXCEPT !.phase = "open"]]
    <3>1. ~Started(g) /\ ~handle[g].gone
      BY <2>2, BufferOfRelease DEF Sound, Inv, FileInv, GoneRight, Started
    <3>2. ~handle'[g].gone
      BY <2>2, <1>2 DEF NoHandle
    <3> QED
      BY <2>2, <3>1, <3>2, <1>3 DEF BufferMoves, Pending
  <2> QED
    BY <2>1, <2>2, <1>1
<1>6. \A h \in Files : BufferMoves(h)
  BY <1>4, <1>5 DEF BufferMoves, HasBuf
<1>7. Rests
  BY <1>1, <1>6 DEF Rests, treeVars, nodeVars
<1> QED
  BY <1>7, RestsKeep

LEMMA AbandonKeptKeeps == ASSUME Sound, AbandonKept PROVE Inv'
<1>1. \A g \in Files : handle'[g] = IF Parked(g) THEN NoHandle ELSE handle[g]
  BY DEF AbandonKept
<1>2. \A g \in Files : Parked(g) => ~Started(g)
  BY DEF Sound, OwnedByRelease, Parked, Started
<1>3. \A g \in Files : BufferMoves(g)
  BY <1>1, <1>2 DEF BufferMoves, HasBuf, NoHandle
<1>4. Rests
  BY <1>3 DEF AbandonKept, Rests, treeVars, nodeVars
<1> QED
  BY <1>4, RestsKeep

(***************************************************************************)
(* A name is looked up, or a file created under it.                         *)
(***************************************************************************)

\* No directory operation is in progress.
LEMMA IdleSeats ==
  ASSUME op.pc = "idle"
  PROVE  /\ ~Linked /\ ~Moving
         /\ \A g : /\ ~Replaced(g) /\ ~Out(g)
                   /\ \A h : ~Takes(g, h)
                   /\ \A n : Place(g, n) <=> tree[n] = g
BY DEF Linked, Moving, Replaced, Out, Takes, Place

\* The tree shows a file that no buffer, Release or other file knows of.
LEMMA FreshShown ==
  ASSUME Sound, op.pc = "idle", op' = op, rel' = rel, NEW f \in Files, Fresh(f), NEW n \in Names,
         tree[n] = None, tree' = [tree EXCEPT ![n] = f], replaces' = [replaces EXCEPT ![f] = None],
         \A g \in Files : g # f => handle'[g].gone = handle[g].gone
  PROVE  /\ ~Seated(f) /\ ~Started(f) /\ ~handle[f].gone /\ rel[f].pc = "idle"
         /\ rel[f].existing = None /\ rel[f].up = None /\ rel[f].chain = None
         /\ \A g \in Files : /\ Seated(g)' <=> Seated(g) \/ g = f
                             /\ \A m \in Names : tree'[m] = g <=> tree[m] = g \/ (g = f /\ m = n)
                             /\ g # f => replaces'[g] = replaces[g]
                             /\ replaces'[g] # f /\ rel[g].chain # f
         /\ replaces'[f] = None
         /\ \A g, h \in Files : h # f /\ Behind(g, h) => Behind(g, h)'
         /\ \A g, h \in Files : InLine(g, h) => InLine(g, h)'
<1> USE DEF Sound
<1>1. /\ ~Seated(f) /\ ~Started(f) /\ ~handle[f].gone /\ rel[f].pc = "idle"
      /\ \A g \in Files : replaces[g] # f /\ rel[g].chain # f
  BY DEF Fresh, Seated, Started, NoHandle
<1>2. rel[f].existing = None /\ rel[f].up = None /\ rel[f].chain = None
  BY <1>1, LocalsShape DEF ShapeOf
<1>3. \A m \in Names : tree'[m] = IF m = n THEN f ELSE tree[m]
  BY DEF TypeOK, TreeOK
<1>4. \A g \in Files : /\ Seated(g)' <=> Seated(g) \/ g = f
                       /\ \A m \in Names : tree'[m] = g <=> tree[m] = g \/ (g = f /\ m = n)
  BY <1>1, <1>3, WriteBufferAssumption DEF Seated
<1>5. replaces'[f] = None /\ \A g \in Files : g # f => replaces'[g] = replaces[g]
  BY DEF TypeOK, NodesOK
<1>6. \A h \in FileOrNone : \A x : h # f /\ After(h, x) => After(h, x)'
  BY <1>1, <1>5, AfterReset
<1>7. \A g, h \in Files : h # f /\ Behind(g, h) => Behind(g, h)'
  <2> SUFFICES ASSUME NEW g \in Files, NEW h \in Files, h # f, Behind(g, h) PROVE Behind(g, h)'
    OBVIOUS
  <2>1. g # f /\ HoldsMu(g)' /\ handle'[g].gone
    BY <1>1 DEF Behind, HoldsMu
  <2>3. After(replaces[h], g)'
    BY <1>1, <1>5, <1>6, FileTypes DEF Behind
  <2> QED
    BY <2>1, <2>3, <1>4 DEF Behind
<1>8. \A g, h \in Files : InLine(g, h) => InLine(g, h)'
  BY <1>1, <1>6, <1>7, FileTypes DEF InLine, Releases
<1> QED
  BY <1>1, <1>2, <1>4, <1>5, <1>7, <1>8, WriteBufferAssumption

LEMMA LookupKeeps ==
  ASSUME Sound, NEW n \in Names, Lookup(n), races' = {}
  PROVE  Inv'
<1> USE DEF Sound
<1>0. PICK f \in Files, l \in Links :
        /\ listing[n] = l /\ op.pc = "idle"
        /\ \/ tree[n] = None /\ Fresh(f) /\ replaces' = [replaces EXCEPT ![f] = None]
           \/ tree[n] = f /\ (node[f] # l \/ name[f] # n) /\ replaces' = replaces
        /\ tree' = [tree EXCEPT ![n] = f]
        /\ node' = [node EXCEPT ![f] = l] /\ name' = [name EXCEPT ![f] = n]
        /\ \A g \in Files : g # f => rel[g].up # l
  <2>1. op.pc = "idle" /\ listing[n] \in Links
    BY OpFiles DEF Lookup, DirIdle, LinkOrNone
  <2>2. PICK f \in Files :
          /\ IF tree[n] = None THEN Fresh(f)
             ELSE f = tree[n] /\ (node[f] # listing[n] \/ name[f] # n)
          /\ tree' = [tree EXCEPT ![n] = f]
          /\ node' = [node EXCEPT ![f] = listing[n]]
          /\ name' = [name EXCEPT ![f] = n]
          /\ replaces' = IF tree[n] = None THEN [replaces EXCEPT ![f] = None] ELSE replaces
          /\ Raced(\E g \in Files \ {f} : rel[g].up = listing[n], "lookedUpMidMove")
    BY DEF Lookup
  <2>3. \A g \in Files : g # f => rel[g].up # listing[n]
    BY <2>2 DEF Raced
  <2>4. \/ tree[n] = None /\ Fresh(f) /\ replaces' = [replaces EXCEPT ![f] = None]
        \/ tree[n] = f /\ (node[f] # listing[n] \/ name[f] # n) /\ replaces' = replaces
    BY <2>2
  <2> QED
    BY <2>1, <2>2, <2>3, <2>4
<1>c. UNCHANGED <<listing, drive, handle, rel, op>>
  BY DEF Lookup
<1>i. /\ ~Linked /\ ~Moving /\ op.pc = "idle"
      /\ \A g : /\ ~Replaced(g) /\ ~Out(g)
                /\ \A h : ~Takes(g, h)
                /\ \A m : Place(g, m) <=> tree[m] = g
  BY <1>0, IdleSeats
<1>j. /\ ~Linked' /\ ~Moving' /\ op'.pc = "idle"
      /\ \A g : /\ ~Replaced(g)' /\ ~Out(g)'
                /\ \A h : ~Takes(g, h)'
                /\ \A m : Place(g, m)' <=> tree'[m] = g
  BY <1>i, <1>c DEF Linked, Moving, Replaced, Out, Takes, Place
<1>n. /\ \A g \in Files : g # f => node'[g] = node[g] /\ name'[g] = name[g]
      /\ node'[f] = l /\ name'[f] = n /\ l # None
      /\ \A g \in Files : node[g] # None => node[g] \in Links
  BY <1>0, FileTypes, WriteBufferAssumption DEF TypeOK, NodesOK, LinkOrNone, Links
<1>d. /\ Named(l, n)
      /\ \A k : /\ Trashed(k)' <=> Trashed(k)
                /\ InUse(k)' <=> InUse(k)
                /\ \A m : Named(k, m)' <=> Named(k, m)
  BY <1>0, <1>c, <1>n, SameDrive DEF Inv, DriveInv, ListedRight
\* A file the tree shows already has the name, and not the link.
<1>o. tree[n] = f => /\ Seated(f) /\ name[f] = n /\ node[f] # l /\ tree' = tree
                     /\ \A m \in Names : tree[m] = f => m = n
  <2> SUFFICES ASSUME tree[n] = f PROVE /\ Seated(f) /\ name[f] = n /\ node[f] # l /\ tree' = tree
                                        /\ \A m \in Names : tree[m] = f => m = n
    OBVIOUS
  <2>1. Seated(f) /\ \A m \in Names : tree[m] = f => m = n
    BY WriteBufferAssumption DEF Seated, TreeInv, OneName
  <2>2. name[f] = n
    BY <2>1, <1>i, FileTypes DEF Inv, FileInv, NameShown
  <2>3. tree' = tree
    BY <1>0 DEF TypeOK, TreeOK
  <2> QED
    BY <2>1, <2>2, <2>3, <1>0, WriteBufferAssumption
<1>q. tree[n] # f => /\ ~Seated(f) /\ ~Started(f) /\ ~handle[f].gone /\ rel[f].pc = "idle"
                     /\ rel[f].existing = None /\ rel[f].up = None /\ tree[n] = None
  BY <1>0, <1>c, FreshShown
<1>m. \A m \in Names : tree[m] = f => m = n /\ tree[n] = f
  BY <1>o, <1>q DEF Seated
<1>r. tree[n] # f => /\ \A g \in Files : replaces[g] # f /\ rel[g].chain # f
                     /\ handle[f] = NoHandle /\ Fresh(f) /\ replaces' = [replaces EXCEPT ![f] = None]
                     /\ \A g \in Files : g # f => handle'[g].gone = handle[g].gone
  BY <1>0, <1>c DEF Fresh
<1>t. /\ \A g \in Files : /\ Seated(g)' <=> Seated(g) \/ g = f
                          /\ \A m \in Names : Place(g, m)' <=> Place(g, m) \/ (g = f /\ m = n)
                          /\ replaces'[g] \in {None, replaces[g]}
      /\ \A g, h \in Files : h # f \/ tree[n] = f => (Behind(g, h) => Behind(g, h)')
      /\ \A g, h \in Files : InLine(g, h) => InLine(g, h)'
  <2>1. CASE tree[n] = f
    <3>1. replaces' = replaces /\ tree' = tree /\ Seated(f) /\ Place(f, n)
      BY <2>1, <1>0, <1>o, <1>i, WriteBufferAssumption
    <3>2. \A g \in Files : /\ Seated(g)' <=> Seated(g)
                           /\ \A m \in Names : Place(g, m)' <=> Place(g, m)
      BY <3>1, <1>c, SameSeats
    <3>3. \A g, h \in Files : Behind(g, h) => Behind(g, h)'
      BY <3>1, <3>2, <1>c, AfterKept DEF Behind, HoldsMu
    <3>4. \A g, h \in Files : InLine(g, h) => InLine(g, h)'
      BY <3>1, <3>3, <1>c, AfterKept DEF InLine
    <3> QED
      BY <3>1, <3>2, <3>3, <3>4
  <2>2. CASE tree[n] # f
    <3>1. /\ \A g \in Files : /\ Seated(g)' <=> Seated(g) \/ g = f
                              /\ \A m \in Names : tree'[m] = g <=> tree[m] = g \/ (g = f /\ m = n)
                              /\ g # f => replaces'[g] = replaces[g]
          /\ replaces'[f] = None
          /\ \A g, h \in Files : h # f /\ Behind(g, h) => Behind(g, h)'
          /\ \A g, h \in Files : InLine(g, h) => InLine(g, h)'
      <4>1. /\ op.pc = "idle" /\ op' = op /\ rel' = rel /\ Fresh(f) /\ tree[n] = None
            /\ tree' = [tree EXCEPT ![n] = f] /\ replaces' = [replaces EXCEPT ![f] = None]
            /\ \A g \in Files : g # f => handle'[g].gone = handle[g].gone
        BY <2>2, <1>0, <1>c, <1>q, <1>r
      <4>2. \A g \in Files : /\ Seated(g)' <=> Seated(g) \/ g = f
                             /\ \A m \in Names : tree'[m] = g <=> tree[m] = g \/ (g = f /\ m = n)
        <5>1. \A m \in Names : tree'[m] = IF m = n THEN f ELSE tree[m]
          BY <4>1 DEF TypeOK, TreeOK
        <5> QED
          BY <4>1, <5>1, <1>q, WriteBufferAssumption DEF Seated
      <4>3. replaces'[f] = None /\ \A g \in Files : g # f => replaces'[g] = replaces[g]
        BY <4>1 DEF TypeOK, NodesOK
      <4>4. \A g, h \in Files : h # f /\ Behind(g, h) => Behind(g, h)'
        BY ZenonT(30), <4>1, FreshShown
      <4>5. \A g, h \in Files : InLine(g, h) => InLine(g, h)'
        BY <4>1, FreshShown
      <4> QED
        BY <4>2, <4>3, <4>4, <4>5
    <3>2. \A g \in Files : \A m \in Names : Place(g, m)' <=> Place(g, m) \/ (g = f /\ m = n)
      <4> SUFFICES ASSUME NEW g \in Files, NEW m \in Names
                   PROVE  Place(g, m)' <=> Place(g, m) \/ (g = f /\ m = n)
        OBVIOUS
      <4>1. (Place(g, m)' <=> tree'[m] = g) /\ (Place(g, m) <=> tree[m] = g)
        BY <1>i, <1>j
      <4> QED
        BY <3>1, <4>1
    <3>3. \A g \in Files : replaces'[g] \in {None, replaces[g]}
      BY <3>1
    <3> QED
      BY <2>2, <3>1, <3>2, <3>3
  <2> QED
    BY <2>1, <2>2
<1>s. \A g \in Files : /\ Started(g)' <=> Started(g)
                       /\ HoldsMu(g)' <=> HoldsMu(g)
                       /\ Landing(g)' <=> Landing(g)
                       /\ Live(g)' <=> Live(g)
                       /\ Relocating(g)' <=> Relocating(g)
                       /\ HasBuf(g)' <=> HasBuf(g)
  BY <1>c, <1>n, <1>o, <1>q DEF Started, HoldsMu, Landing, Live, Relocating, HasBuf
<1>a. \A g \in Files : /\ \A k : Has(g, k)' <=> Has(g, k)
                       /\ \A m : Makes(g, m)' <=> Makes(g, m)
                       /\ \A k, m : Aims(g, k, m)' <=> Aims(g, k, m)
  BY <1>c, <1>s DEF Has, Makes, Aims
<1>1. DriveInv'
  <2>1. InUse(l)'
    BY <1>d DEF InUse, Named
  <2> QED
    BY <2>1, <1>c, <1>d, <1>n DEF Inv, DriveInv, OneActive, ListedRight, LinksUsed
<1>2. ReleaseShape'
  BY <1>c, <1>n, <1>s DEF Inv, FileInv, ReleaseShape, ShapeOf
<1>3. NameShown'
  BY <1>n, <1>t, <1>j, FileTypes DEF Inv, FileInv, NameShown
<1>4. GoneRight' /\ BufferShown' /\ DestGone' /\ GoneStays'
  BY <1>c, <1>i, <1>j, <1>o, <1>q, <1>s, <1>t DEF Inv, FileInv, GoneRight, BufferShown, DestGone, GoneStays
<1>5. ReplacedGone' /\ ChainGone'
  <2>1. tree[n] # f => /\ ~HasBuf(f) /\ \A g \in Files : replaces'[g] # f /\ rel[g].chain # f
    <3>1. tree[n] # f => replaces'[f] = None /\ \A g \in Files : g # f => replaces'[g] = replaces[g]
      BY <1>r DEF TypeOK, NodesOK
    <3> QED
      BY <3>1, <1>r, WriteBufferAssumption DEF HasBuf, NoHandle
  <2> QED
    BY <2>1, <1>c, <1>i, <1>o, <1>s, <1>t, WriteBufferAssumption DEF Inv, FileInv, ReplacedGone, ChainGone
<1>6. LandsRight'
  BY <1>c, <1>n, <1>o, <1>q DEF Inv, FileInv, LandsRight
<1>7. WorksOnNode'
  <2>1. ASSUME Started(f), rel[f].existing # None PROVE l = rel[f].existing
    <3>1. tree[n] = f /\ Seated(f)
      BY <2>1, <1>o, <1>q
    <3>2. node[f] = rel[f].existing /\ node[f] \in Links
      BY <2>1, <3>1, <1>n DEF Inv, NodeInv, WorksOnNode
    <3>3. ~Trashed(node[f])
      BY <2>1, <3>1, <3>2, <1>i DEF Inv, NodeInv, NodeAlive
    <3>4. Named(node[f], n)
      <4>1. PICK m \in Names : Place(f, m) /\ Named(node[f], m)
        BY <2>1, <3>1, <3>2, <3>3 DEF Inv, NodeInv, NodeNamed
      <4>2. m = n
        BY <4>1, <1>i, <1>m
      <4> QED
        BY <4>1, <4>2
    <3> QED
      BY <3>2, <3>4, <1>d DEF Inv, DriveInv, OneActive
  <2> QED
    BY <2>1, <1>c, <1>n, <1>s, <1>t DEF Inv, NodeInv, WorksOnNode
<1>8. UploadNamed'
  BY <1>c, <1>d, <1>o, <1>q, <1>t DEF Inv, NodeInv, UploadNamed
<1>9. NodeNamed'
  <2>1. (Place(f, n) /\ Named(node[f], n))'
    BY <1>c, <1>d, <1>n, <1>t DEF Named
  <2> QED
    BY <2>1, <1>c, <1>d, <1>n, <1>s, <1>t DEF Inv, NodeInv, NodeNamed
<1>10. NodeAlive'
  <2>1. ~Trashed(l)
    BY <1>d DEF Named, Trashed
  <2> QED
    BY <2>1, <1>c, <1>d, <1>i, <1>j, <1>n, <1>s, <1>t DEF Inv, NodeInv, NodeAlive
<1>11. NodeListed'
  <2> SUFFICES ASSUME NEW g \in Files, NEW m \in Names, Place(g, m)', node'[g] # None, Named(node[g], m)'
               PROVE  listing[m] = node'[g] \/ (rel[g].up = node'[g] /\ rel[g].existing = None)
    BY <1>c DEF NodeListed
  <2>1. CASE g = f
    <3>1. m = n
      BY <2>1, <1>m, <1>t, <1>i
    <3> QED
      BY <2>1, <3>1, <1>0, <1>n
  <2>2. CASE g # f
    BY <2>2, <1>d, <1>n, <1>t DEF Inv, NodeInv, NodeListed
  <2> QED
    BY <2>1, <2>2
<1>12. LinkHeld'
  <2> SUFFICES ASSUME NEW g \in Files, NEW k \in Links, NEW m \in Names, Has(g, k)', Named(k, m)',
                      ~(rel[g].existing = None /\ rel[g].name = m)
               PROVE  listing[m] = k /\ Held(k, m)'
    BY <1>c DEF LinkHeld
  <2>1. listing[m] = k /\ Held(k, m)
    BY <1>a, <1>d, <1>i DEF Inv, NodeInv, LinkHeld
  <2>2. PICK h \in Files : /\ Place(h, m) /\ ~Out(h)
                           /\ node[h] = k \/ (Relocating(h) /\ rel[h].up # None)
    BY <2>1 DEF Held
  <2>3. h = f => m = n /\ k = l
    BY <2>1, <2>2, <1>0, <1>i, <1>o, <1>q DEF Seated
  <2>4. Place(h, m)' /\ ~Out(h)' /\ (node'[h] = k \/ (Relocating(h)' /\ rel'[h].up # None))
    BY <2>2, <2>3, <1>c, <1>j, <1>n, <1>s, <1>t
  <2> QED
    BY <2>1, <2>4 DEF Held
<1>13. RenameInv'
  BY <1>c, <1>i, <1>j DEF Inv, RenameInv, RenameShape, RetargetWaits, PendingOwn, OthersMake, SourceRight,
     MovedRight, MovedOwn, MovedGone, MovedUpload, MovedPending
<1>14. SeatFirst'
  <2> SUFFICES ASSUME NEW h \in Files, NEW g \in Files, h # g, Seated(g)', ~Out(g)',
                      Aims(h, node[g], name[g])'
               PROVE  (Aims(g, node[g], name[g]) \/ Behind(h, g) \/ Takes(h, g) \/ Relocating(g))'
    BY DEF SeatFirst
  <2>1. CASE g # f
    BY <2>1, <1>a, <1>i, <1>n, <1>s, <1>t DEF Inv, TurnsInv, SeatFirst
  <2>2. CASE g = f
    <3>1. Has(h, l) /\ rel[h].up # l
      BY <2>2, <1>0, <1>a, <1>n DEF Aims
    <3>2. rel[h].existing = l
      BY <3>1 DEF Has
    <3>3. Held(l, n)
      BY <3>1, <3>2, <1>d, <1>i, <1>n DEF Inv, NodeInv, LinkHeld
    <3>4. tree[n] = f /\ Relocating(f)
      BY <3>3, <1>0, <1>i, <1>o, WriteBufferAssumption DEF Held
    <3> QED
      BY <2>2, <3>4, <1>s
  <2> QED
    BY <2>1, <2>2
<1>15. OneByOne'
  BY <1>a, <1>t DEF Inv, TurnsInv, OneByOne
<1> QED
  BY <1>1, <1>2, <1>3, <1>4, <1>5, <1>6, <1>7, <1>8, <1>9, <1>10, <1>11, <1>12, <1>13,
     <1>14, <1>15 DEF Inv, FileInv, NodeInv, TurnsInv

LEMMA CreateKeeps ==
  ASSUME Sound, NEW n \in Names, Create(n), races' = {}
  PROVE  Inv'
<1> USE DEF Sound
<1>0. PICK f \in Files :
        /\ op.pc = "idle" /\ Fresh(f) /\ tree[n] = None /\ ~Leaving(n)
        /\ tree' = [tree EXCEPT ![n] = f] /\ node' = [node EXCEPT ![f] = None]
        /\ name' = [name EXCEPT ![f] = n] /\ replaces' = [replaces EXCEPT ![f] = None]
        /\ handle' = [handle EXCEPT ![f] =
             [NoHandle EXCEPT !.phase = "open", !.ver = saves + 1, !.dirty = TRUE]]
  BY DEF Create, DirIdle, Races, LosingRaces
<1>c. UNCHANGED <<listing, drive, rel, op>>
  BY DEF Create
<1>i. /\ ~Linked /\ ~Moving /\ op.pc = "idle"
      /\ \A g : /\ ~Replaced(g) /\ ~Out(g)
                /\ \A h : ~Takes(g, h)
                /\ \A m : Place(g, m) <=> tree[m] = g
  BY <1>0, IdleSeats
<1>j. /\ ~Linked' /\ ~Moving' /\ op'.pc = "idle"
      /\ \A g : /\ ~Replaced(g)' /\ ~Out(g)'
                /\ \A h : ~Takes(g, h)'
                /\ \A m : Place(g, m)' <=> tree'[m] = g
  BY <1>i, <1>c DEF Linked, Moving, Replaced, Out, Takes, Place
<1>n. /\ \A g \in Files : g # f => /\ node'[g] = node[g] /\ name'[g] = name[g]
                                   /\ replaces'[g] = replaces[g]
                                   /\ handle'[g] = handle[g]
      /\ node'[f] = None /\ name'[f] = n /\ replaces'[f] = None
      /\ handle'[f].gone = FALSE
  BY <1>0 DEF TypeOK, NodesOK, BuffersOK, NoHandle
<1>d. \A k : /\ Trashed(k)' <=> Trashed(k)
             /\ InUse(k)' <=> InUse(k)
             /\ \A m : Named(k, m)' <=> Named(k, m)
  BY <1>c, SameDrive
<1>q. /\ op.pc = "idle" /\ op' = op /\ rel' = rel /\ Fresh(f) /\ tree[n] = None
      /\ tree' = [tree EXCEPT ![n] = f] /\ replaces' = [replaces EXCEPT ![f] = None]
      /\ \A g \in Files : g # f => handle'[g].gone = handle[g].gone
  BY <1>0, <1>c, <1>n
<1>u. /\ ~Seated(f) /\ ~Started(f) /\ ~handle[f].gone /\ rel[f].pc = "idle"
      /\ rel[f].existing = None /\ rel[f].up = None /\ rel[f].chain = None
  BY <1>q, FreshShown
<1>r. \A g \in Files : replaces'[g] # f /\ rel[g].chain # f
  BY <1>0, <1>n, WriteBufferAssumption DEF Fresh
<1>t. /\ \A g \in Files : Seated(g)' <=> Seated(g) \/ g = f
      /\ \A g \in Files, m \in Names : Place(g, m)' <=> Place(g, m) \/ (g = f /\ m = n)
  <2>1. \A m \in Names : tree'[m] = IF m = n THEN f ELSE tree[m]
    BY <1>0 DEF TypeOK, TreeOK
  <2>2. \A g \in Files : Seated(g)' <=> Seated(g) \/ g = f
    BY <2>1, <1>0, WriteBufferAssumption DEF Seated
  <2> SUFFICES ASSUME NEW g \in Files, NEW m \in Names
               PROVE  Place(g, m)' <=> Place(g, m) \/ (g = f /\ m = n)
    BY <2>2
  <2>3. (Place(g, m)' <=> tree'[m] = g) /\ (Place(g, m) <=> tree[m] = g)
    BY <1>i, <1>j
  <2> QED
    BY <2>1, <2>3, <1>0, <1>u, WriteBufferAssumption DEF Seated
<1>b. \A g, h \in Files : h # f /\ Behind(g, h) => Behind(g, h)'
  BY <1>q, FreshShown
<1>l. \A g, h \in Files : InLine(g, h) => InLine(g, h)'
  BY <1>q, FreshShown
<1>s. \A g \in Files : /\ Started(g)' <=> Started(g)
                       /\ HoldsMu(g)' <=> HoldsMu(g)
                       /\ Landing(g)' <=> Landing(g)
                       /\ Live(g)' <=> Live(g)
                       /\ Relocating(g)' <=> Relocating(g)
                       /\ g # f => (HasBuf(g)' <=> HasBuf(g))
                       /\ handle'[g].gone => handle[g].gone /\ g # f
  BY <1>c, <1>n, <1>u DEF Started, HoldsMu, Landing, Live, Relocating, HasBuf
<1>a. \A g \in Files : /\ \A k : Has(g, k)' <=> Has(g, k)
                       /\ \A m : Makes(g, m)' <=> Makes(g, m)
                       /\ \A k, m : Aims(g, k, m)' <=> Aims(g, k, m)
  BY <1>c, <1>s DEF Has, Makes, Aims
<1>1. DriveInv'
  <2>1. InUse(None)'
    BY DEF InUse
  <2> QED
    BY <2>1, <1>c, <1>d, <1>n DEF Inv, DriveInv, OneActive, ListedRight, LinksUsed
<1>2. ReleaseShape'
  BY <1>c, <1>n, <1>s, <1>u DEF Inv, FileInv, ReleaseShape, ShapeOf
<1>3. NameShown'
  BY <1>n, <1>t, <1>j, FileTypes DEF Inv, FileInv, NameShown
<1>4. GoneRight' /\ BufferShown' /\ DestGone' /\ GoneStays'
  BY <1>c, <1>i, <1>j, <1>n, <1>s, <1>t, <1>u DEF Inv, FileInv, GoneRight, BufferShown, DestGone, GoneStays
<1>5. ReplacedGone' /\ ChainGone'
  BY <1>c, <1>i, <1>n, <1>r, <1>s, <1>t, WriteBufferAssumption DEF Inv, FileInv, ReplacedGone, ChainGone
<1>6. LandsRight'
  BY <1>c, <1>n, <1>u DEF Inv, FileInv, LandsRight
<1>7. WorksOnNode'
  BY <1>c, <1>n, <1>s, <1>t, <1>u DEF Inv, NodeInv, WorksOnNode
<1>8. UploadNamed'
  BY <1>c, <1>d, <1>n, <1>t, <1>u DEF Inv, NodeInv, UploadNamed
<1>9. NodeNamed' /\ NodeAlive'
  BY <1>c, <1>d, <1>i, <1>j, <1>n, <1>s, <1>t DEF Inv, NodeInv, NodeNamed, NodeAlive
<1>10. NodeListed'
  BY <1>c, <1>d, <1>n, <1>t DEF Inv, NodeInv, NodeListed
<1>11. LinkHeld'
  <2> SUFFICES ASSUME NEW g \in Files, NEW k \in Links, NEW m \in Names, Has(g, k)', Named(k, m)',
                      ~(rel[g].existing = None /\ rel[g].name = m)
               PROVE  listing[m] = k /\ Held(k, m)'
    BY <1>c DEF LinkHeld
  <2>1. listing[m] = k /\ Held(k, m)
    BY <1>a, <1>d, <1>i DEF Inv, NodeInv, LinkHeld
  <2>2. PICK h \in Files : /\ Place(h, m) /\ ~Out(h)
                           /\ node[h] = k \/ (Relocating(h) /\ rel[h].up # None)
    BY <2>1 DEF Held
  <2>3. h # f
    BY <2>2, <1>i, <1>u DEF Seated
  <2>4. Place(h, m)' /\ ~Out(h)' /\ (node'[h] = k \/ (Relocating(h)' /\ rel'[h].up # None))
    BY <2>2, <2>3, <1>c, <1>j, <1>n, <1>s, <1>t
  <2> QED
    BY <2>1, <2>4 DEF Held
<1>12. RenameInv'
  BY <1>c, <1>i, <1>j DEF Inv, RenameInv, RenameShape, RetargetWaits, PendingOwn, OthersMake, SourceRight,
     MovedRight, MovedOwn, MovedGone, MovedUpload, MovedPending
<1>13. SeatFirst'
  <2> SUFFICES ASSUME NEW h \in Files, NEW g \in Files, h # g, Seated(g)', ~Out(g)',
                      Aims(h, node[g], name[g])'
               PROVE  (Aims(g, node[g], name[g]) \/ Behind(h, g) \/ Takes(h, g) \/ Relocating(g))'
    BY DEF SeatFirst
  <2>1. CASE g # f
    BY <2>1, <1>a, <1>b, <1>i, <1>n, <1>s, <1>t DEF Inv, TurnsInv, SeatFirst
  <2>2. CASE g = f
    <3>1. Makes(h, n)
      BY <2>2, <1>a, <1>n DEF Aims
    <3>2. name[h] = n /\ ~handle[h].gone
      BY <3>1, <1>0 DEF Leaving, Makes, Live
    <3>3. Seated(h)
      BY <3>1, <3>2, ReleasedSeat DEF Makes, Live, Started
    <3>4. tree[n] = h
      BY <3>2, <3>3, <1>i DEF Inv, FileInv, NameShown
    <3> QED
      BY <3>4, <1>0, WriteBufferAssumption
  <2> QED
    BY <2>1, <2>2
<1>14. OneByOne'
  BY <1>a, <1>l DEF Inv, TurnsInv, OneByOne
<1> QED
  BY <1>1, <1>2, <1>3, <1>4, <1>5, <1>6, <1>7, <1>8, <1>9, <1>10, <1>11, <1>12, <1>13, <1>14
     DEF Inv, FileInv, NodeInv, TurnsInv

(***************************************************************************)
(* A file is deleted, or a directory operation fails.                       *)
(***************************************************************************)

\* Names go from the tree, and links from the drive, that nobody needs there.
NoMoves == {"idle", "unlinkPending", "unlinkTrash"}
Forgets ==
  /\ op.pc \in NoMoves \cup {"renameTrash"} /\ op'.pc \in NoMoves /\ op'.link \in {None, op.link}
  /\ UNCHANGED <<node, name, replaces, rel>>
  /\ \A n \in Names :
       \/ tree'[n] = tree[n]
       \/ tree'[n] = None /\ \A k \in Links : listing[n] = k => Trashed(k)'
       \/ tree'[n] = None /\ \A g \in Files : tree[n] = g => node[g] = None
  /\ \A g \in Files :
       /\ handle'[g].gone => HasBuf(g)' /\ (handle[g].gone \/ (~Seated(g)' /\ node[g] = None))
       /\ HasBuf(g)' => HasBuf(g) /\ (handle[g].gone => handle'[g].gone)
       /\ HasBuf(g)' /\ ~handle'[g].gone => Seated(g)'
       /\ Started(g) /\ handle[g].gone => handle'[g].gone
  /\ \A k \in Links :
       /\ InUse(k) => InUse(k)'
       /\ \/ SameLink(k)
          \/ /\ Trashed(k)'
             /\ \A g \in Files : Seated(g)' /\ node[g] = k =>
                  Relocating(g) /\ rel[g].existing = None /\ rel[g].up = node[g]
  /\ \A n \in Names, k \in Links : listing[n] = k => listing'[n] = k \/ Trashed(k)'
  /\ OneActive' /\ ListedRight'

LEMMA NoMovesSeats ==
  ASSUME op.pc \in NoMoves \cup {"renameTrash"}
  PROVE  /\ ~Moving
         /\ \A g : /\ ~Replaced(g) /\ ~Out(g)
                   /\ \A h : ~Takes(g, h)
                   /\ \A n : Place(g, n) <=> tree[n] = g
BY DEF NoMoves, Moving, Replaced, Out, Takes, Place

LEMMA ForgetsKeeps ==
  ASSUME Sound, Forgets
  PROVE  Inv'
<1> USE DEF Sound
<1>0. /\ op.pc \in NoMoves \cup {"renameTrash"} /\ op'.pc \in NoMoves /\ op'.link \in {None, op.link}
      /\ UNCHANGED <<node, name, replaces, rel>>
      /\ OneActive' /\ ListedRight'
  BY DEF Forgets
<1>i. /\ ~Moving
      /\ \A g : /\ ~Replaced(g) /\ ~Out(g)
                /\ \A h : ~Takes(g, h)
                /\ \A n : Place(g, n) <=> tree[n] = g
  BY <1>0, NoMovesSeats
<1>j. /\ ~Moving' /\ ~Linked'
      /\ \A g : /\ ~Replaced(g)' /\ ~Out(g)'
                /\ \A h : ~Takes(g, h)'
                /\ \A n : Place(g, n)' <=> tree'[n] = g
  BY <1>0 DEF NoMoves, Moving, Linked, Replaced, Out, Takes, Place
<1>h. \A g \in Files :
        /\ handle'[g].gone => HasBuf(g)' /\ (handle[g].gone \/ (~Seated(g)' /\ node[g] = None))
        /\ HasBuf(g)' => HasBuf(g) /\ (handle[g].gone => handle'[g].gone)
        /\ HasBuf(g)' /\ ~handle'[g].gone => Seated(g)'
        /\ Started(g) /\ handle[g].gone => handle'[g].gone
  BY DEF Forgets
<1>t. \A g \in Files : /\ Seated(g)' => Seated(g)
                       /\ \A n \in Names : Place(g, n)' => Place(g, n)
                       /\ Seated(g) => ~handle[g].gone
                       /\ \A n \in Names : tree[n] = g /\ Seated(g)' => tree'[n] = g
  <2> SUFFICES ASSUME NEW g \in Files
               PROVE  /\ Seated(g)' => Seated(g)
                      /\ \A n \in Names : Place(g, n)' => Place(g, n)
                      /\ Seated(g) => ~handle[g].gone
                      /\ \A n \in Names : tree[n] = g /\ Seated(g)' => tree'[n] = g
    OBVIOUS
  <2>1. \A n \in Names : tree'[n] = g => tree[n] = g
    BY WriteBufferAssumption DEF Forgets
  <2>2. Seated(g) => ~handle[g].gone
    BY <1>i DEF Inv, FileInv, GoneRight
  <2>3. \A n, m \in Names : tree[n] = g /\ tree[m] = g => n = m
    BY WriteBufferAssumption DEF TreeInv, OneName
  <2>4. \A n \in Names : Place(g, n)' => Place(g, n)
    <3> SUFFICES ASSUME NEW n \in Names, Place(g, n)' PROVE Place(g, n)
      OBVIOUS
    <3> QED
      BY <2>1, <1>i, <1>j
  <2> QED
    BY <2>1, <2>2, <2>3, <2>4 DEF Seated
<1>k. \A k \in Links :
        /\ InUse(k) => InUse(k)'
        /\ Trashed(k) => Trashed(k)'
        /\ \A n \in Names : Named(k, n)' => Named(k, n) /\ ~Trashed(k)'
        /\ \/ SameLink(k)
           \/ /\ Trashed(k)'
              /\ \A g \in Files : Seated(g)' /\ node[g] = k =>
                   Relocating(g) /\ rel[g].existing = None /\ rel[g].up = node[g]
  <2> SUFFICES ASSUME NEW k \in Links
               PROVE  /\ Trashed(k) => Trashed(k)'
                      /\ \A n \in Names : Named(k, n)' => Named(k, n) /\ ~Trashed(k)'
    BY DEF Forgets
  <2>1. SameLink(k) \/ Trashed(k)'
    BY DEF Forgets
  <2>2. \A n \in Names : Named(k, n)' => ~Trashed(k)'
    BY DEF Named, Trashed
  <2> QED
    BY <2>1, <2>2 DEF SameLink
<1>m. \A n \in Names, k \in Links : listing[n] = k => listing'[n] = k \/ Trashed(k)'
  BY DEF Forgets
<1>n. \A g \in Files : node[g] # None => node[g] \in Links
  BY FileTypes DEF LinkOrNone
<1>s. \A g \in Files : /\ Started(g)' <=> Started(g)
                       /\ HoldsMu(g)' <=> HoldsMu(g)
                       /\ Landing(g)' <=> Landing(g)
                       /\ Relocating(g)' <=> Relocating(g)
                       /\ Live(g)' => Live(g)
                       /\ Seated(g)' => (Live(g)' <=> Live(g))
  BY <1>0, <1>h, <1>t DEF Started, HoldsMu, Landing, Live, Relocating
<1>a. \A g \in Files : /\ \A l : Has(g, l)' => Has(g, l)
                       /\ \A n : Makes(g, n)' => Makes(g, n)
                       /\ \A l, n : Aims(g, l, n)' => Aims(g, l, n)
                       /\ \A l, n : Seated(g)' => (Aims(g, l, n)' <=> Aims(g, l, n))
  BY <1>0, <1>s DEF Has, Makes, Aims
<1>b. \A g, h \in Files : Behind(g, h) => Behind(g, h)'
  <2> SUFFICES ASSUME NEW g \in Files, NEW h \in Files, Behind(g, h) PROVE Behind(g, h)'
    OBVIOUS
  <2>1. ~Seated(g)' /\ handle'[g].gone
    BY <1>t, <1>h DEF Behind, HoldsMu, Started, RelSteps
  <2> QED
    BY <2>1, <1>0, <1>s, AfterKept DEF Behind
<1>l. \A g, h \in Files : InLine(g, h) => InLine(g, h)'
  BY <1>0, <1>b, AfterKept DEF InLine
<1>1. DriveInv'
  <2>1. \A l : l \in LinkOrNone /\ InUse(l) => InUse(l)'
    BY <1>k DEF InUse, LinkOrNone
  <2>2. InUse(op.link)'
    BY <2>1, <1>0, OpFiles DEF InUse, Inv, DriveInv, LinksUsed
  <2>3. \A g \in Files : node[g] \in LinkOrNone /\ rel[g].existing \in LinkOrNone /\ rel[g].up \in LinkOrNone
    BY FileTypes DEF Releases
  <2> QED
    BY <2>1, <2>2, <2>3, <1>0 DEF Inv, DriveInv, LinksUsed
<1>2. ReleaseShape'
  <2>1. \A g \in Files : Started(g) /\ handle[g].gone => handle'[g].gone
    BY <1>h
  <2>2. \A g \in Files : rel[g].pc = "trash" => Started(g)
    BY DEF Started
  <2> QED
    BY <1>0, <1>s, <2>1, <2>2 DEF Inv, FileInv, ReleaseShape, ShapeOf
<1>3. NameShown' /\ GoneRight' /\ BufferShown' /\ DestGone'
  <2>1. NameShown'
    <3> SUFFICES ASSUME NEW g \in Files, Seated(g)' PROVE Place(g, name[g])'
      BY <1>j DEF NameShown
    <3>1. PICK n \in Names : tree[n] = g /\ n = name[g]
      BY <1>t, <1>i, FileTypes DEF Inv, FileInv, NameShown
    <3>2. tree'[n] = g
      BY <3>1, <1>t
    <3> QED
      BY <3>1, <3>2, <1>0, <1>j
  <2> QED
    BY <2>1, <1>h, <1>t, <1>j DEF GoneRight, BufferShown, DestGone
<1>4. ReplacedGone' /\ ChainGone'
  BY <1>0, <1>h, <1>i, <1>t DEF Inv, FileInv, ReplacedGone, ChainGone
<1>5. GoneStays' /\ LandsRight'
  <2>1. \A g \in Files : rel[g].up # None /\ Relocating(g) => node[g] # None
    BY LocalsShape DEF ShapeOf, Relocating, Landing
  <2>2. GoneStays'
    BY <2>1, <1>0, <1>h, <1>s, <1>t DEF Inv, FileInv, GoneStays
  <2> QED
    BY <2>2, <1>0 DEF Inv, FileInv, LandsRight
<1>6. WorksOnNode'
  BY <1>0, <1>s, <1>t DEF Inv, NodeInv, WorksOnNode
<1>7. UploadNamed'
  <2> SUFFICES ASSUME NEW g \in Files, (~handle[g].gone \/ Seated(g))', rel[g].existing = None, rel[g].up # None
               PROVE  Trashed(rel[g].up)' \/ Named(rel[g].up, rel[g].name)'
    BY <1>0 DEF UploadNamed
  <2>1. rel[g].up \in Links /\ rel[g].name \in Names /\ Started(g)
    BY FileTypes, LocalsShape DEF Releases, LinkOrNone, ShapeOf
  <2>2. Trashed(rel[g].up) \/ Named(rel[g].up, rel[g].name)
    BY <2>1, <1>h, <1>t DEF Inv, NodeInv, UploadNamed
  <2> QED
    BY <2>1, <2>2, <1>0, <1>k DEF SameLink
<1>8. NodeNamed' /\ NodeAlive'
  <2> SUFFICES ASSUME NEW g \in Files, Seated(g)', node[g] # None
               PROVE  /\ (\/ Trashed(node[g])
                          \/ \E n \in Names : Place(g, n) /\ Named(node[g], n)
                          \/ Relocating(g) /\ rel[g].existing = None /\ rel[g].up = node[g])'
                      /\ Trashed(node[g])' => /\ rel[g].existing = None /\ (Landing(g) \/ rel[g].pc = "patch")
                                              /\ rel[g].up = node[g] \/ rel[g].pc = "move"
    BY <1>0, <1>s DEF NodeNamed, NodeAlive
  <2>1. node[g] \in Links /\ Seated(g) /\ ~Out(g)
    BY <1>n, <1>t, <1>i
  <2>2. CASE SameLink(node[g])
    <3>1. \/ Trashed(node[g])
          \/ \E n \in Names : Place(g, n) /\ Named(node[g], n)
          \/ Relocating(g) /\ rel[g].existing = None /\ rel[g].up = node[g]
      BY <2>1 DEF Inv, NodeInv, NodeNamed
    <3>2. \A n \in Names : Place(g, n) => Place(g, n)'
      BY <1>i, <1>j, <1>t
    <3>3. Trashed(node[g]) => /\ rel[g].existing = None /\ (Landing(g) \/ rel[g].pc = "patch")
                              /\ rel[g].up = node[g] \/ rel[g].pc = "move"
      BY <2>1, <1>0 DEF NoMoves, Inv, NodeInv, NodeAlive
    <3> QED
      BY <2>2, <3>1, <3>2, <3>3, <1>0, <1>s DEF SameLink
  <2>3. CASE ~SameLink(node[g])
    <3>1. Trashed(node[g])' /\ Relocating(g) /\ rel[g].existing = None /\ rel[g].up = node[g]
      BY <2>1, <2>3, <1>0, <1>k
    <3> QED
      BY <3>1, <1>0, <1>s DEF Relocating, Landing
  <2> QED
    BY <2>2, <2>3
<1>9. NodeListed'
  <2> SUFFICES ASSUME NEW g \in Files, NEW n \in Names, Place(g, n)', node[g] # None, Named(node[g], n)'
               PROVE  listing'[n] = node[g] \/ (rel[g].up = node[g] /\ rel[g].existing = None)
    BY <1>0 DEF NodeListed
  <2>1. Place(g, n) /\ node[g] \in Links /\ Named(node[g], n) /\ ~Trashed(node[g])'
    BY <1>0, <1>k, <1>n, <1>t
  <2>2. listing[n] = node[g] \/ (rel[g].up = node[g] /\ rel[g].existing = None)
    BY <2>1 DEF Inv, NodeInv, NodeListed
  <2> QED
    BY <2>1, <2>2, <1>0, <1>m
<1>10. LinkHeld'
  <2> SUFFICES ASSUME NEW g \in Files, NEW l \in Links, NEW n \in Names, Has(g, l)', Named(l, n)',
                      ~(rel[g].existing = None /\ rel[g].name = n)
               PROVE  listing'[n] = l /\ Held(l, n)'
    BY <1>0 DEF LinkHeld
  <2>1. Has(g, l) /\ Named(l, n) /\ ~Trashed(l)'
    BY <1>a, <1>k
  <2>2. listing[n] = l /\ Held(l, n) /\ l # None
    BY <2>1, <1>i, WriteBufferAssumption DEF Inv, NodeInv, LinkHeld, Links
  <2>3. PICK k \in Files : /\ Place(k, n) /\ ~Out(k)
                           /\ node[k] = l \/ (Relocating(k) /\ rel[k].up # None)
    BY <2>2 DEF Held
  <2>4. tree[n] = k /\ node[k] # None
    BY <2>2, <2>3, <1>i, LocalsShape DEF ShapeOf, Relocating, Landing
  <2>5. tree'[n] = k
    BY <2>1, <2>2, <2>4 DEF Forgets
  <2>6. Place(k, n)' /\ ~Out(k)' /\ (node'[k] = l \/ (Relocating(k)' /\ rel'[k].up # None))
    BY <2>3, <2>5, <1>0, <1>j, <1>s
  <2> QED
    BY <2>1, <2>2, <2>6, <1>m DEF Held
<1>11. RenameInv'
  BY <1>0, <1>j DEF NoMoves, RenameInv, RenameShape, RetargetWaits, PendingOwn, OthersMake, SourceRight,
     MovedRight, MovedOwn, MovedGone, MovedUpload, MovedPending
<1>12. SeatFirst'
  BY <1>0, <1>a, <1>b, <1>i, <1>s, <1>t DEF Inv, TurnsInv, SeatFirst
<1>13. OneByOne'
  BY <1>a, <1>l DEF Inv, TurnsInv, OneByOne
<1> QED
  BY <1>0, <1>1, <1>2, <1>3, <1>4, <1>5, <1>6, <1>7, <1>8, <1>9, <1>10, <1>11, <1>12, <1>13
     DEF Inv, FileInv, NodeInv, TurnsInv

LEMMA UnlinkKeeps ==
  ASSUME Sound, NEW n \in Names, Unlink(n)
  PROVE  Inv'
<1> USE DEF Sound
<1>0. PICK f \in Files :
        /\ tree[n] = f /\ op.pc = "idle"
        /\ \/ ~Parked(f) /\ handle' = handle
           \/ Parked(f) /\ handle' = [handle EXCEPT ![f] = NoHandle]
        /\ \/ Parked(f) /\ op' = NoOp /\ tree' = [tree EXCEPT ![n] = None] /\ node[f] = None
           \/ op'.pc = "unlinkPending" /\ op'.link = None /\ tree' = tree
  <2>1. PICK f \in Files : tree[n] = f
    BY OpFiles DEF Unlink, FileOrNone
  <2> QED
    BY <2>1 DEF Unlink, DirIdle, Discard, KeepUnsaved, Drop, UnlinkReturns, NoOp, Pending
<1>c. UNCHANGED <<listing, drive, node, name, replaces, rel>>
  BY DEF Unlink, nodeVars
<1>1. /\ op.pc \in NoMoves /\ op'.pc \in NoMoves /\ op'.link \in {None, op.link}
      /\ \A g : ~Replaced(g) /\ ~Out(g)
  BY <1>0, IdleSeats DEF NoMoves, NoOp
<1>2. /\ \A m \in Names : tree'[m] = tree[m] \/ (m = n /\ tree'[m] = None /\ node[f] = None)
      /\ \A g \in Files : g # f /\ Seated(g) => Seated(g)'
      /\ ~Parked(f) => tree' = tree
  <2>1. \A m \in Names : tree'[m] = tree[m] \/ (m = n /\ tree'[m] = None /\ node[f] = None)
    BY <1>0 DEF TypeOK, TreeOK
  <2>2. tree' = tree \/ Parked(f)
    BY <1>0
  <2> QED
    BY <2>1, <2>2, <1>0 DEF Seated
<1>3. \A g \in Files : \/ handle'[g] = handle[g] /\ (HasBuf(g)' <=> HasBuf(g)) /\ (g = f => ~Parked(f))
                       \/ ~handle'[g].gone /\ ~HasBuf(g)' /\ ~Started(g)
  <2>1. Parked(f) => ~Started(f)
    BY DEF OwnedByRelease, Parked, Started
  <2> QED
    BY <2>1, <1>0 DEF HasBuf, NoHandle, TypeOK, BuffersOK
<1>4. \A g \in Files :
        /\ handle'[g].gone => HasBuf(g)' /\ handle[g].gone
        /\ HasBuf(g)' => HasBuf(g) /\ (handle[g].gone => handle'[g].gone)
        /\ HasBuf(g)' /\ ~handle'[g].gone => Seated(g)'
        /\ Started(g) /\ handle[g].gone => handle'[g].gone
  <2>1. \A g \in Files : HasBuf(g) /\ ~handle[g].gone => Seated(g)
    BY DEF Inv, FileInv, BufferShown
  <2>2. tree' = tree => \A g \in Files : Seated(g)' <=> Seated(g)
    BY DEF Seated
  <2>3. \A g \in Files : handle[g].gone => HasBuf(g)
    BY DEF Inv, FileInv, GoneRight
  <2> QED
    BY <1>2, <1>3, <2>1, <2>2, <2>3
<1>5. \A k : SameLink(k) /\ (InUse(k)' <=> InUse(k))
  BY <1>c, SameDrive DEF SameLink
<1>6. OneActive' /\ ListedRight'
  BY <1>c, SameDrive DEF OneActive, ListedRight, Inv, DriveInv
<1>7. Forgets
  BY <1>0, <1>c, <1>1, <1>2, <1>4, <1>5, <1>6 DEF Forgets
<1> QED
  BY <1>7, ForgetsKeeps

LEMMA UnlinkPendingKeeps ==
  ASSUME Sound, UnlinkPending
  PROVE  Inv'
<1> USE DEF Sound
<1>0. PICK f \in Files : f = op.file /\ tree[op.from] = f /\ op.pc = "unlinkPending"
  BY OpFiles DEF UnlinkPending, TreeInv, OpFile
<1>c. UNCHANGED <<listing, drive, node, name, replaces, rel>>
  BY DEF UnlinkPending, nodeVars
<1>5. \A k : SameLink(k) /\ (InUse(k)' <=> InUse(k))
  BY <1>c, SameDrive DEF SameLink
<1>6. OneActive' /\ ListedRight'
  BY <1>c, SameDrive DEF OneActive, ListedRight, Inv, DriveInv
<1>7. \A g : ~Replaced(g)
  BY <1>0 DEF Replaced
<1>1. CASE node[f] = None /\ HasBuf(f)
  <2>1. /\ handle' = [handle EXCEPT ![f].gone = TRUE]
        /\ op' = NoOp /\ tree' = [tree EXCEPT ![op.from] = None]
    BY <1>0, <1>1 DEF UnlinkPending, UnlinkReturns, Pending
  <2>2. op.pc \in NoMoves /\ op'.pc \in NoMoves /\ op'.link \in {None, op.link}
    BY <1>0, <2>1 DEF NoMoves, NoOp
  <2>3. /\ \A m \in Names : tree'[m] = IF m = op.from THEN None ELSE tree[m]
        /\ \A g \in Files : g # f /\ Seated(g) => Seated(g)'
        /\ ~Seated(f)'
    <3>1. \A m \in Names : tree'[m] = IF m = op.from THEN None ELSE tree[m]
      BY <2>1 DEF TypeOK, TreeOK
    <3>2. \A m \in Names : tree[m] = f => m = op.from
      BY <1>0, OpFiles, WriteBufferAssumption DEF TreeInv, OneName
    <3> QED
      BY <3>1, <3>2, <1>0, WriteBufferAssumption DEF Seated
  <2>4. \A g \in Files : /\ g # f => handle'[g] = handle[g]
                         /\ HasBuf(g)' <=> HasBuf(g)
                         /\ handle'[f].gone
    BY <2>1, FileTypes DEF TypeOK, BuffersOK, Buffers, HasBuf
  <2>5. \A g \in Files :
          /\ handle'[g].gone => HasBuf(g)' /\ (handle[g].gone \/ (~Seated(g)' /\ node[g] = None))
          /\ HasBuf(g)' => HasBuf(g) /\ (handle[g].gone => handle'[g].gone)
          /\ HasBuf(g)' /\ ~handle'[g].gone => Seated(g)'
          /\ Started(g) /\ handle[g].gone => handle'[g].gone
    BY <1>1, <2>3, <2>4 DEF Inv, FileInv, GoneRight, BufferShown
  <2>6. Forgets
    BY <1>0, <1>1, <1>c, <1>5, <1>6, <2>2, <2>3, <2>5 DEF Forgets
  <2> QED
    BY <2>6, ForgetsKeeps
<1>2. CASE ~(node[f] = None /\ HasBuf(f))
  <2>1. op' = [op EXCEPT !.pc = "unlinkTrash"] /\ handle' = handle /\ tree' = tree
    BY <1>0, <1>2 DEF UnlinkPending, Pending
  <2>2. op.pc \in NoMoves /\ op'.pc \in NoMoves /\ op'.link \in {None, op.link}
    BY <1>0, <2>1 DEF NoMoves, TypeOK, OpOK, Operations
  <2>3. \A g \in Files : (HasBuf(g)' <=> HasBuf(g)) /\ (Seated(g)' <=> Seated(g))
    BY <2>1 DEF HasBuf, Seated
  <2>4. \A g \in Files : handle[g].gone => HasBuf(g) /\ handle'[g].gone
    BY <2>1 DEF Inv, FileInv, GoneRight
  <2>5. \A g \in Files : HasBuf(g) /\ ~handle[g].gone => Seated(g)
    BY DEF Inv, FileInv, BufferShown
  <2>6. Forgets
    BY <1>c, <1>5, <1>6, <2>1, <2>2, <2>3, <2>4, <2>5 DEF Forgets
  <2> QED
    BY <2>6, ForgetsKeeps
<1> QED
  BY <1>1, <1>2

\* A directory operation fails, and the folder is as it was.
LEMMA FailedOpKeeps ==
  ASSUME Sound, op.pc \in NoMoves \cup {"renameTrash"}, op' = NoOp,
         UNCHANGED <<tree, listing, drive, nodeVars, handle, rel>>
  PROVE  Inv'
<1> USE DEF Sound
<1>1. \A k : SameLink(k) /\ (InUse(k)' <=> InUse(k))
  BY SameDrive DEF SameLink
<1>2. OneActive' /\ ListedRight'
  BY SameDrive DEF OneActive, ListedRight, Inv, DriveInv
<1>3. \A g \in Files : (HasBuf(g)' <=> HasBuf(g)) /\ (Seated(g)' <=> Seated(g))
  BY DEF HasBuf, Seated
<1>4. \A g \in Files : handle[g].gone => HasBuf(g) /\ handle'[g].gone
  BY DEF Inv, FileInv, GoneRight
<1>5. \A g \in Files : HasBuf(g) /\ ~handle[g].gone => Seated(g)
  BY DEF Inv, FileInv, BufferShown
<1>6. Forgets
  BY <1>1, <1>2, <1>3, <1>4, <1>5 DEF Forgets, NoOp, NoMoves, nodeVars
<1> QED
  BY <1>6, ForgetsKeeps

LEMMA UnlinkTrashKeeps ==
  ASSUME Sound, UnlinkTrash, races' = {}
  PROVE  Inv'
<1> USE DEF Sound
<1>0. PICK f \in Files : f = op.file /\ tree[op.from] = f /\ op.pc = "unlinkTrash" /\ op.from \in Names
  BY OpFiles DEF UnlinkTrash, TreeInv, OpFile
<1>c. UNCHANGED <<node, name, replaces, handle, rel>>
  BY DEF UnlinkTrash, nodeVars
<1>1. CASE op' = NoOp /\ UNCHANGED <<drive, listing, tree>>
  BY <1>0, <1>1, <1>c, FailedOpKeeps DEF nodeVars, NoMoves
<1>2. CASE /\ op.from \notin Excluded /\ listing[op.from] # None
           /\ drive' = [drive EXCEPT ![listing[op.from]].st = "trashed"]
           /\ listing' = Removed(listing, op.from)
           /\ UnlinkReturns(op.from, {op.dropped})
           /\ Raced(HasBuf(op.file), "deletedWhileOpen")
  <2>1. PICK d \in Links, m \in Names : d = listing[op.from] /\ m = op.from
    BY <1>0, <1>2, OpFiles DEF LinkOrNone
  <2>2. Trashes(d, m)
    BY <1>2, <2>1, WriteBufferAssumption DEF Trashes, Inv, DriveInv, ListedRight, Links
  <2>3. /\ OneActive' /\ ListedRight' /\ Trashed(d)'
        /\ \A k \in Links : /\ k # d => SameLink(k)
                            /\ InUse(k)' <=> InUse(k)
        /\ \A n \in Names : listing'[n] = IF n = m THEN None ELSE listing[n]
    BY <2>2, TrashFacts
  <2>4. op' = NoOp /\ tree' = [tree EXCEPT ![m] = None] /\ ~HasBuf(f)
    BY <1>0, <1>2, <2>1 DEF UnlinkReturns, Raced
  <2>5. /\ \A n \in Names : tree'[n] = IF n = m THEN None ELSE tree[n]
        /\ \A g \in Files : Seated(g)' <=> g # f /\ Seated(g)
    <3>1. \A n \in Names : tree'[n] = IF n = m THEN None ELSE tree[n]
      BY <2>4 DEF TypeOK, TreeOK
    <3>2. \A n \in Names : tree[n] = f <=> n = m
      BY <1>0, <2>1, WriteBufferAssumption DEF TreeInv, OneName
    <3> QED
      BY <3>1, <3>2, WriteBufferAssumption DEF Seated
  <2>6. \A g \in Files : Seated(g)' /\ node[g] = d =>
          Relocating(g) /\ rel[g].existing = None /\ rel[g].up = node[g]
    <3> SUFFICES ASSUME NEW g \in Files, Seated(g)', node[g] = d, ~Relocating(g)
                        \/ rel[g].existing # None \/ rel[g].up # node[g]
                 PROVE  FALSE
      OBVIOUS
    <3>1. Named(d, m) /\ Seated(g) /\ g # f /\ d # None
      BY <2>2, <2>5, WriteBufferAssumption DEF Trashes, Links
    <3>2. PICK n \in Names : Place(g, n) /\ Named(d, n)
      BY <3>1 DEF Inv, NodeInv, NodeNamed, Named, Trashed
    <3>3. n = m /\ tree[n] = g
      BY <3>1, <3>2, <1>0, NoMovesSeats DEF Named, NoMoves
    <3> QED
      BY <3>1, <3>3, <1>0, <2>1
  <2>7. op.pc \in NoMoves /\ op'.pc \in NoMoves /\ op'.link = None
    BY <1>0, <2>4 DEF NoMoves, NoOp
  <2>8. \A g \in Files :
          /\ handle'[g].gone => HasBuf(g)' /\ handle[g].gone
          /\ HasBuf(g)' => HasBuf(g) /\ (handle[g].gone => handle'[g].gone)
          /\ HasBuf(g)' /\ ~handle'[g].gone => Seated(g)'
    BY <1>c, <2>4, <2>5 DEF HasBuf, Inv, FileInv, GoneRight, BufferShown
  <2>9. Forgets
    <3>1. \A n \in Names : \/ tree'[n] = tree[n]
                           \/ tree'[n] = None /\ \A k \in Links : listing[n] = k => Trashed(k)'
      BY <2>1, <2>3, <2>5
    <3>2. \A n \in Names, k \in Links : listing[n] = k => listing'[n] = k \/ Trashed(k)'
      BY <2>1, <2>3
    <3>3. \A k \in Links : /\ InUse(k) => InUse(k)'
                           /\ \/ SameLink(k)
                              \/ /\ Trashed(k)'
                                 /\ \A g \in Files : Seated(g)' /\ node[g] = k =>
                                      Relocating(g) /\ rel[g].existing = None /\ rel[g].up = node[g]
      BY <2>3, <2>6
    <3> QED
      BY <1>c, <2>3, <2>7, <2>8, <3>1, <3>2, <3>3 DEF Forgets
  <2> QED
    BY <2>9, ForgetsKeeps
<1> QED
  BY <1>1, <1>2 DEF UnlinkTrash

(***************************************************************************)
(* A rename begins.                                                         *)
(***************************************************************************)

\* The file a rename of a drive item begins with uploads to that item or to nothing, and
\* who else uploads to it is marked gone.
LEMMA MovedAlone ==
  ASSUME Sound, op.pc = "idle", NEW f \in Files, NEW l \in Links, NEW n \in Names,
         tree[n] = f, listing[n] = l, Started(f) => rel[f].existing = l,
         NEW g \in Files, g # f, Has(g, l)
  PROVE  handle[g].gone
<1> USE DEF Sound
<1> SUFFICES ASSUME ~handle[g].gone PROVE FALSE
  OBVIOUS
<1>i. /\ ~Linked /\ ~Moving
      /\ \A h : /\ ~Replaced(h) /\ ~Out(h)
                /\ \A k : ~Takes(h, k)
                /\ \A m : Place(h, m) <=> tree[m] = h
  BY IdleSeats
<1>1. Seated(f) /\ name[f] = n /\ ~handle[f].gone /\ \A m \in Names : tree[m] = f => m = n
  <2>1. Seated(f) /\ \A m \in Names : tree[m] = f => m = n
    BY WriteBufferAssumption DEF Seated, TreeInv, OneName
  <2>2. name[f] = n
    <3>1. Place(f, name[f]) /\ name[f] \in Names
      BY <2>1, FileTypes DEF Inv, FileInv, NameShown
    <3> QED
      BY <2>1, <3>1, <1>i
  <2> QED
    BY <2>1, <2>2, <1>i DEF Inv, FileInv, GoneRight
<1>2. Named(l, n) /\ l # None
  BY WriteBufferAssumption DEF Inv, DriveInv, ListedRight, Links
<1>3. Started(f) => node[f] = l /\ Has(f, l)
  BY <1>1, <1>2 DEF Inv, NodeInv, WorksOnNode, Has, Live
<1>4. Aims(g, node[f], name[f]) => FALSE
  <2> SUFFICES ASSUME Aims(g, node[f], name[f]) PROVE FALSE
    OBVIOUS
  <2>1. Aims(f, node[f], name[f]) \/ Behind(g, f) \/ Relocating(f)
    BY <1>1, <1>i DEF Inv, TurnsInv, SeatFirst
  <2>2. Started(f)
    BY <2>1 DEF Behind, Aims, Has, Makes, Live, Relocating, Started
  <2>3. Aims(f, l, n) /\ Aims(g, l, n)
    BY <2>2, <1>2, <1>3 DEF Aims
  <2>4. InLine(f, g) \/ InLine(g, f)
    BY <2>3 DEF Inv, TurnsInv, OneByOne, LinkOrNone
  <2> QED
    BY <2>4, <1>1 DEF InLine, Behind
<1>5. node[f] # l
  BY <1>2, <1>4 DEF Aims
<1>6. ~Started(f)
  BY <1>3, <1>5
<1>7. rel[g].existing = None /\ rel[g].name = n
  <2>1. Held(l, n) => FALSE
    <3> SUFFICES ASSUME NEW k \in Files, Place(k, n), node[k] = l \/ (Relocating(k) /\ rel[k].up # None)
                 PROVE  FALSE
      BY DEF Held
    <3>1. k = f
      BY <1>i
    <3> QED
      BY <3>1, <1>5, <1>6 DEF Relocating, Started
  <2> QED
    BY <2>1, <1>2, <1>i DEF Inv, NodeInv, LinkHeld
<1>8. node[f] # None
  BY <1>1, <1>4, <1>7 DEF Aims, Makes, Has
<1>9. node[f] \in Links /\ ~Trashed(node[f])
  BY <1>1, <1>6, <1>8, <1>i, FileTypes DEF LinkOrNone, Inv, NodeInv, NodeAlive, Landing, Started
<1>10. PICK m \in Names : Place(f, m) /\ Named(node[f], m)
  BY <1>1, <1>6, <1>8, <1>9 DEF Inv, NodeInv, NodeNamed, Relocating, Started
<1>11. m = n
  BY <1>1, <1>10, <1>i
<1> QED
  BY <1>2, <1>5, <1>9, <1>10, <1>11 DEF Inv, DriveInv, OneActive

LEMMA RenameKeeps ==
  ASSUME Sound, NEW from \in Names, NEW to \in Names, Rename(from, to), races' = {}
  PROVE  Inv'
<1> USE DEF Sound
<1>0. PICK f \in Files, l \in LinkOrNone :
        /\ op.pc = "idle" /\ tree[from] = f /\ listing[from] = l /\ from # to
        /\ op'.pc = IF l = None THEN "renamePending" ELSE "renameTrash"
        /\ op'.from = from /\ op'.to = to /\ op'.link = l /\ op'.file = f
        /\ l # None /\ Started(f) => rel[f].existing = l
  <2>1. tree[from] \in Files /\ listing[from] \in LinkOrNone
    BY OpFiles DEF Rename, FileOrNone
  <2> QED
    BY <2>1 DEF Rename, DirIdle, NoOp, Raced
<1>c. UNCHANGED <<tree, listing, drive, node, name, replaces, handle, rel>>
  BY DEF Rename, treeVars, nodeVars
<1>i. /\ ~Linked /\ ~Moving
      /\ \A g : /\ ~Replaced(g) /\ ~Out(g)
                /\ \A h : ~Takes(g, h)
                /\ \A n : Place(g, n) <=> tree[n] = g
  BY <1>0, IdleSeats
<1>t. /\ ~Moving' /\ (Linked' <=> l # None)
      /\ \A g : /\ Seated(g)' <=> Seated(g)
                /\ ~Replaced(g)' /\ ~Out(g)'
                /\ \A n : Place(g, n)' <=> Place(g, n)
                /\ \A h : ~Takes(g, h)'
  BY <1>0, <1>c, <1>i DEF Moving, Linked, Seated, Replaced, Out, Place, Takes
<1>s. \A g \in Files : /\ Started(g)' <=> Started(g)
                       /\ HoldsMu(g)' <=> HoldsMu(g)
                       /\ Landing(g)' <=> Landing(g)
                       /\ Relocating(g)' <=> Relocating(g)
                       /\ HasBuf(g)' <=> HasBuf(g)
  BY <1>c DEF Started, HoldsMu, Landing, Relocating, HasBuf
<1>a. \A g \in Files : /\ \A k : Has(g, k)' <=> Has(g, k)
                       /\ \A n : Makes(g, n)' <=> Makes(g, n)
                       /\ \A k, n : Aims(g, k, n)' <=> Aims(g, k, n)
  BY <1>c, SameAims DEF Aims
<1>d. \A k : /\ Trashed(k)' <=> Trashed(k)
             /\ InUse(k)' <=> InUse(k)
             /\ \A n : Named(k, n)' <=> Named(k, n)
  BY <1>c, SameDrive
<1>b. \A g, h \in Files : Behind(g, h) => Behind(g, h)'
  <2> SUFFICES ASSUME NEW g \in Files, NEW h \in Files, Behind(g, h) PROVE Behind(g, h)'
    OBVIOUS
  <2>1. ~Seated(g)
    BY <1>i DEF Behind, Inv, FileInv, GoneRight
  <2> QED
    BY <2>1, <1>c, <1>s, <1>t, AfterKept DEF Behind
<1>l. \A g, h \in Files : InLine(g, h) => InLine(g, h)'
  BY <1>c, <1>b, AfterKept DEF InLine
<1>m. l # None => l \in Links /\ Named(l, from)
  BY <1>0 DEF LinkOrNone, Inv, DriveInv, ListedRight
<1>g. l # None => \A g \in Files : g # f /\ Has(g, l) => handle[g].gone
  BY <1>0, <1>m, MovedAlone
<1>1. DriveInv'
  <2>1. InUse(l)
    BY <1>m DEF InUse, Named
  <2> QED
    BY <2>1, <1>0, <1>c, <1>d DEF Inv, DriveInv, OneActive, ListedRight, LinksUsed
<1>2. ReleaseShape'
  BY <1>c, <1>s DEF Inv, FileInv, ReleaseShape, ShapeOf
<1>3. NameShown' /\ GoneRight' /\ BufferShown' /\ DestGone' /\ ReplacedGone' /\ ChainGone'
  BY <1>c, <1>i, <1>s, <1>t DEF Inv, FileInv, NameShown, GoneRight, BufferShown, DestGone, ReplacedGone, ChainGone
<1>4. GoneStays' /\ LandsRight'
  BY <1>c, <1>s, <1>t DEF Inv, FileInv, GoneStays, LandsRight
<1>5. WorksOnNode' /\ UploadNamed' /\ NodeNamed' /\ NodeListed'
  BY <1>c, <1>s, <1>t, <1>d DEF Inv, NodeInv, WorksOnNode, UploadNamed, NodeNamed, NodeListed
<1>6. NodeAlive'
  BY <1>0, <1>c, <1>i, <1>s, <1>t, <1>d DEF Inv, NodeInv, NodeAlive
<1>7. LinkHeld'
  <2>1. \A k, n : Held(k, n)' <=> Held(k, n)
    BY <1>c, <1>i, <1>s, <1>t DEF Held
  <2> QED
    BY <2>1, <1>c, <1>a, <1>i, <1>t, <1>d DEF Inv, NodeInv, LinkHeld
<1>8. RenameShape' /\ RetargetWaits' /\ SourceRight' /\ MovedRight'
  BY <1>0, <1>c, <1>d, <1>m, <1>t DEF RenameShape, RetargetWaits, SourceRight, MovedRight
<1>9. PendingOwn'
  <2> SUFFICES ASSUME l = None, node[f] # None, Named(node[f], from) PROVE rel[f].up = node[f]
    BY <1>0, <1>c, <1>d DEF PendingOwn
  <2> QED
    BY <1>0, <1>i DEF Inv, NodeInv, NodeListed
<1>10. OthersMake'
  <2> SUFFICES ASSUME l = None, NEW g \in Files, NEW k \in Links, Has(g, k), Named(k, from)
               PROVE  rel[g].existing = None /\ rel[g].name = from
    BY <1>0, <1>c, <1>a, <1>d, <1>t DEF OthersMake
  <2> QED
    BY <1>0, <1>i, WriteBufferAssumption DEF Inv, NodeInv, LinkHeld, Links
<1>11. MovedGone'
  BY <1>0, <1>c, <1>a, <1>g, <1>t DEF MovedGone
<1>12. MovedOwn'
  <2> SUFFICES ASSUME l # None, NEW g \in Files, g # f, Seated(g), node[g] = l PROVE FALSE
    BY <1>0, <1>c, <1>t DEF MovedOwn
  <2>1. ~Place(g, from)
    BY <1>0, <1>i
  <2>2. Relocating(g) /\ rel[g].existing = None /\ rel[g].up = l
    BY <2>1, <1>m DEF Inv, NodeInv, NodeNamed, Named, Trashed
  <2>3. ~handle[g].gone
    BY <2>2 DEF Inv, FileInv, GoneStays
  <2>4. Has(g, l)
    BY <2>2, <2>3 DEF Has, Live, Relocating, Started
  <2> QED
    BY <2>3, <2>4, <1>g
<1>13. MovedUpload'
  BY <1>0, <1>c, <1>t, LocalsShape DEF MovedUpload, ShapeOf
<1>14. MovedPending'
  <2> SUFFICES ASSUME l # None, NEW g \in Files, node[f] = None, g # f, Has(g, l) PROVE Makes(g, from)
    BY <1>0, <1>c, <1>a, <1>t DEF MovedPending
  <2>1. ~Held(l, from)
    <3> SUFFICES ASSUME NEW k \in Files, Place(k, from), node[k] = l \/ (Relocating(k) /\ rel[k].up # None)
                 PROVE  FALSE
      BY DEF Held
    <3> QED
      BY <1>0, <1>i, LocalsShape DEF ShapeOf, Relocating, Landing
  <2> QED
    BY <2>1, <1>i, <1>m DEF Inv, NodeInv, LinkHeld, Has, Makes
<1>15. SeatFirst' /\ OneByOne'
  BY <1>c, <1>a, <1>b, <1>i, <1>l, <1>s, <1>t DEF Inv, TurnsInv, SeatFirst, OneByOne
<1> QED
  BY <1>1, <1>2, <1>3, <1>4, <1>5, <1>6, <1>7, <1>8, <1>9, <1>10, <1>11, <1>12, <1>13,
     <1>14, <1>15 DEF Inv, FileInv, NodeInv, RenameInv, TurnsInv

(***************************************************************************)
(* A rename marks the file it replaces.                                     *)
(***************************************************************************)

\* What becomes of the file under the new name.
Marks ==
  /\ UNCHANGED <<tree, listing, drive, node, name, rel>>
  /\ op'.file = op.file /\ op'.from = op.from /\ op'.to = op.to /\ op'.link = op.link
  /\ \A g \in Files : replaces[g] \in {None, replaces'[g]}
  /\ \A g \in Files : tree[op.to] # g => handle'[g] = handle[g]
  /\ \A g \in Files : tree[op.to] = g =>
       /\ g # op.file /\ replaces'[op.file] = g /\ ~Relocating(g) /\ ~handle[g].gone
       /\ \/ HasBuf(g) /\ HasBuf(g)' /\ handle'[g].gone
          \/ ~HasBuf(g)' /\ ~handle'[g].gone /\ ~Started(g)
  /\ \A g \in Files : replaces'[g] # replaces[g] => g = op.file /\ replaces'[g] = tree[op.to]

LEMMA ReplaceMarks ==
  ASSUME Sound, op.pc \in {"renamePending", "renameReplace"}, NEW link,
         link = None \/ (link = op.link /\ op.pc = "renameReplace"),
         Replace(op.to, op.file, link), ReplaceRaces(op.to, op.file), races' = {},
         UNCHANGED <<tree, listing, drive, node, name, rel>>,
         op'.file = op.file, op'.from = op.from, op'.to = op.to, op'.link = op.link
  PROVE  Marks
<1> USE DEF Sound
<1>1. PICK f \in Files, m \in Names : f = op.file /\ m = op.to /\ m # op.from /\ tree[op.from] = f
  BY OpFiles DEF TreeInv, OpFile, Inv, RenameInv, RenameShape, OpSteps
<1>2. tree[m] # f
  BY <1>1, OpFiles, WriteBufferAssumption DEF TreeInv, OneName
<1>3. CASE tree[m] = None
  <2>1. UNCHANGED <<replaces, handle>>
    BY <1>1, <1>3 DEF Replace
  <2> QED
    BY <2>1, <1>1, <1>3, WriteBufferAssumption DEF Marks
<1>4. CASE tree[m] # None
  <2>1. PICK d \in Files : tree[m] = d /\ d # f
    BY <1>2, <1>4, OpFiles DEF FileOrNone
  <2>2. Seated(d) /\ ~Out(d) /\ ~Replaced(d) /\ d # None
    BY <2>1, WriteBufferAssumption DEF Seated, Out, Replaced
  <2>3. ~handle[d].gone
    BY <2>2 DEF Inv, FileInv, GoneRight
  <2>4. link # None => node[d] # link
    BY <1>1, <2>1, <2>2 DEF Linked, Inv, RenameInv, MovedOwn
  <2>5. /\ replaces' = [replaces EXCEPT ![f] = d]
        /\ IF HasBuf(d)
           THEN IF Parked(d) THEN handle' = [handle EXCEPT ![d] = NoHandle]
                ELSE handle' = [handle EXCEPT ![d].gone = TRUE]
           ELSE handle' = handle
    BY <1>1, <2>1, <2>2, <2>4 DEF Replace, Discard, KeepUnsaved, Drop
  <2>6. /\ replaces'[f] = d
        /\ \A g \in Files : g # f => replaces'[g] = replaces[g]
    BY <2>5 DEF TypeOK, NodesOK
  <2>7. replaces[f] \in {None, d} /\ ~Relocating(d)
    BY <1>1, <2>1, <2>6 DEF ReplaceRaces, Races
  <2>8. /\ \A g \in Files : g # d => handle'[g] = handle[g]
        /\ \/ HasBuf(d) /\ HasBuf(d)' /\ handle'[d].gone
           \/ ~HasBuf(d)' /\ ~handle'[d].gone /\ ~Started(d)
    <3>1. CASE HasBuf(d) /\ ~Parked(d)
      BY <2>5, <3>1, FileTypes DEF TypeOK, BuffersOK, Buffers, HasBuf
    <3>2. CASE HasBuf(d) /\ Parked(d)
      BY <2>5, <3>2 DEF TypeOK, BuffersOK, NoHandle, HasBuf, Parked, OwnedByRelease, Started
    <3>3. CASE ~HasBuf(d)
      BY <2>3, <2>5, <3>3 DEF HasBuf, OwnedByRelease, Started
    <3> QED
      BY <3>1, <3>2, <3>3
  <2> QED
    BY <1>1, <2>1, <2>3, <2>6, <2>7, <2>8 DEF Marks
<1> QED
  BY <1>3, <1>4

LEMMA MarksFacts ==
  ASSUME Sound, Marks
  PROVE  /\ \A g \in Files : /\ Started(g)' <=> Started(g)
                             /\ HoldsMu(g)' <=> HoldsMu(g)
                             /\ Landing(g)' <=> Landing(g)
                             /\ Relocating(g)' <=> Relocating(g)
                             /\ Seated(g)' <=> Seated(g)
                             /\ HasBuf(g)' => HasBuf(g)
                             /\ handle[g].gone => handle'[g].gone
                             /\ handle'[g].gone => HasBuf(g)' /\ (handle[g].gone \/ tree[op.to] = g)
         /\ \A g \in Files : /\ \A l : Has(g, l)' => Has(g, l)
                             /\ \A n : Makes(g, n)' => Makes(g, n)
                             /\ \A l, n : Aims(g, l, n)' => Aims(g, l, n)
                             /\ \A l, n : tree[op.to] # g => (Aims(g, l, n)' <=> Aims(g, l, n))
                             /\ \A l : Has(g, l)' => \A n : Makes(g, n) => Makes(g, n)'
         /\ \A l : /\ Trashed(l)' <=> Trashed(l)
                   /\ InUse(l)' <=> InUse(l)
                   /\ \A n : Named(l, n)' <=> Named(l, n)
         /\ \A g, h \in Files : Behind(g, h) => Behind(g, h)'
         /\ \A g, h \in Files : InLine(g, h) => InLine(g, h)'
<1> USE DEF Sound
<1>c. /\ UNCHANGED <<tree, listing, drive, node, name, rel>>
      /\ op'.file = op.file
  BY DEF Marks
<1>h. \A g \in Files : /\ HasBuf(g)' => HasBuf(g)
                       /\ handle[g].gone => handle'[g].gone
                       /\ handle'[g].gone => HasBuf(g)' /\ (handle[g].gone \/ tree[op.to] = g)
                       /\ tree[op.to] # g => handle'[g].gone = handle[g].gone
  <2>1. \A g \in Files : handle[g].gone => HasBuf(g)
    BY DEF Inv, FileInv, GoneRight
  <2> QED
    BY <2>1 DEF Marks, HasBuf
<1>s. \A g \in Files : /\ Started(g)' <=> Started(g)
                       /\ HoldsMu(g)' <=> HoldsMu(g)
                       /\ Landing(g)' <=> Landing(g)
                       /\ Relocating(g)' <=> Relocating(g)
                       /\ Seated(g)' <=> Seated(g)
                       /\ Live(g)' => Live(g)
                       /\ tree[op.to] # g => (Live(g)' <=> Live(g))
  BY <1>c, <1>h DEF Started, HoldsMu, Landing, Relocating, Seated, Live
<1>a. \A g \in Files : /\ \A l : Has(g, l)' => Has(g, l)
                       /\ \A n : Makes(g, n)' => Makes(g, n)
                       /\ \A l, n : Aims(g, l, n)' => Aims(g, l, n)
                       /\ \A l, n : tree[op.to] # g => (Aims(g, l, n)' <=> Aims(g, l, n))
                       /\ \A l : Has(g, l)' => \A n : Makes(g, n) => Makes(g, n)'
  BY <1>c, <1>s DEF Has, Makes, Aims
<1>d. \A l : /\ Trashed(l)' <=> Trashed(l)
             /\ InUse(l)' <=> InUse(l)
             /\ \A n : Named(l, n)' <=> Named(l, n)
  BY <1>c, SameDrive
<1>p. \A h, x : After(h, x) => After(h, x)'
  BY AfterKept DEF Marks
<1>b. \A g, h \in Files : Behind(g, h) => Behind(g, h)'
  <2> SUFFICES ASSUME NEW g \in Files, NEW h \in Files, Behind(g, h) PROVE Behind(g, h)'
    OBVIOUS
  <2>1. handle'[g].gone /\ HoldsMu(g)' /\ (Seated(g)' => h = op'.file)
    BY <1>c, <1>h, <1>s DEF Behind
  <2>2. replaces'[h] = replaces[h] \/ replaces[h] = None
    BY DEF Marks
  <2>3. After(replaces[h], g) /\ replaces[h] # None
    BY DEF Behind, After
  <2> QED
    BY <2>1, <2>2, <2>3, <1>p DEF Behind
<1>l. \A g, h \in Files : InLine(g, h) => InLine(g, h)'
  BY <1>c, <1>b, <1>p DEF InLine
<1> QED
  BY <1>a, <1>b, <1>d, <1>h, <1>l, <1>s

\* What both marking steps keep.
LEMMA MarksMost ==
  ASSUME Sound, Marks, op.pc \in {"renamePending", "renameReplace"},
         op'.pc = IF op.pc = "renamePending" THEN "retarget" ELSE "renameApply"
  PROVE  /\ DriveInv' /\ ReleaseShape' /\ GoneRight' /\ BufferShown' /\ DestGone' /\ ReplacedGone'
         /\ ChainGone' /\ GoneStays' /\ LandsRight' /\ WorksOnNode' /\ UploadNamed'
         /\ OneByOne' /\ RenameShape'
<1> USE DEF Sound
<1>c. UNCHANGED <<tree, listing, drive, node, name, rel>>
  BY DEF Marks
<1>o. op'.file = op.file /\ op'.from = op.from /\ op'.to = op.to /\ op'.link = op.link
  BY DEF Marks
<1>f. /\ \A g \in Files : /\ Started(g)' <=> Started(g)
                          /\ HoldsMu(g)' <=> HoldsMu(g)
                          /\ Landing(g)' <=> Landing(g)
                          /\ Relocating(g)' <=> Relocating(g)
                          /\ Seated(g)' <=> Seated(g)
                          /\ HasBuf(g)' => HasBuf(g)
                          /\ handle[g].gone => handle'[g].gone
                          /\ handle'[g].gone => HasBuf(g)' /\ (handle[g].gone \/ tree[op.to] = g)
      /\ \A g \in Files : \A l, n : Aims(g, l, n)' => Aims(g, l, n)
      /\ \A l : /\ Trashed(l)' <=> Trashed(l)
                /\ InUse(l)' <=> InUse(l)
                /\ \A n : Named(l, n)' <=> Named(l, n)
      /\ \A g, h \in Files : InLine(g, h) => InLine(g, h)'
  BY MarksFacts
<1>r. \A g : ~Replaced(g) /\ (Replaced(g)' <=> tree[op.to] = g)
  BY <1>c, <1>o DEF Replaced
<1>d. \A g \in Files : tree[op.to] = g =>
        /\ g # op.file /\ replaces'[op.file] = g /\ ~Relocating(g) /\ Seated(g)
        /\ HasBuf(g)' => handle'[g].gone
  BY OpFiles DEF Marks, Seated
<1>e. \A g \in Files : tree[op.to] # g => (HasBuf(g)' <=> HasBuf(g)) /\ handle'[g] = handle[g]
  BY DEF Marks, HasBuf
<1>1. DriveInv'
  BY <1>c, <1>f, <1>o DEF Inv, DriveInv, OneActive, ListedRight, LinksUsed
<1>2. ReleaseShape'
  BY <1>c, <1>f DEF Inv, FileInv, ReleaseShape, ShapeOf
<1>3. GoneRight'
  BY <1>f, <1>r DEF Inv, FileInv, GoneRight
<1>4. BufferShown' /\ DestGone'
  BY <1>d, <1>e, <1>f, <1>r DEF Inv, FileInv, BufferShown, DestGone
<1>5. ReplacedGone'
  <2> SUFFICES ASSUME NEW g \in Files, NEW h \in Files, replaces'[g] = h
               PROVE  (HasBuf(h) => handle[h].gone)' /\ (Seated(h) => op.file = g /\ Replaced(h))'
    BY DEF ReplacedGone
  <2>1. CASE tree[op.to] = h
    <3>1. Seated(h) /\ (HasBuf(h)' => handle'[h].gone)
      BY <2>1, <1>d
    <3>2. replaces[g] # h
      BY <3>1, <1>r DEF Inv, FileInv, ReplacedGone
    <3>3. g = op.file
      BY <3>2 DEF Marks
    <3> QED
      BY <2>1, <3>1, <3>3, <1>o, <1>r
  <2>2. CASE tree[op.to] # h
    <3>1. replaces[g] = h
      BY <2>2 DEF Marks
    <3>2. (HasBuf(h) => handle[h].gone) /\ ~Seated(h)
      BY <3>1, <1>r DEF Inv, FileInv, ReplacedGone
    <3> QED
      BY <3>2, <1>f
  <2> QED
    BY <2>1, <2>2
<1>6. ChainGone'
  BY <1>c, <1>f, <1>r DEF Inv, FileInv, ChainGone
<1>7. GoneStays'
  BY <1>c, <1>d, <1>f DEF Inv, FileInv, GoneStays
<1>8. LandsRight' /\ WorksOnNode' /\ UploadNamed'
  BY <1>c, <1>f DEF Inv, FileInv, NodeInv, LandsRight, WorksOnNode, UploadNamed
<1>9. OneByOne'
  BY <1>f DEF Inv, TurnsInv, OneByOne
<1>10. RenameShape'
  BY <1>o DEF Inv, RenameInv, RenameShape, Linked, OpSteps
<1> QED
  BY <1>1, <1>2, <1>3, <1>4, <1>5, <1>6, <1>7, <1>8, <1>9, <1>10

LEMMA RenamePendingKeeps ==
  ASSUME Sound, RenamePending, races' = {}
  PROVE  Inv'
<1> USE DEF Sound
<1>1. /\ op.pc = "renamePending" /\ op'.pc = "retarget"
      /\ op'.file = op.file /\ op'.from = op.from /\ op'.to = op.to /\ op'.link = op.link
  BY DEF RenamePending, TypeOK, OpOK, Operations
<1>2. Marks
  BY <1>1, ReplaceMarks DEF RenamePending, treeVars
<1>c. UNCHANGED <<tree, listing, drive, node, name, rel>>
  BY <1>2 DEF Marks
<1>f. /\ \A g \in Files : /\ Started(g)' <=> Started(g)
                          /\ HoldsMu(g)' <=> HoldsMu(g)
                          /\ Landing(g)' <=> Landing(g)
                          /\ Relocating(g)' <=> Relocating(g)
                          /\ Seated(g)' <=> Seated(g)
                          /\ HasBuf(g)' => HasBuf(g)
                          /\ handle[g].gone => handle'[g].gone
      /\ \A g \in Files : /\ \A l : Has(g, l)' => Has(g, l)
                          /\ \A l, n : Aims(g, l, n)' => Aims(g, l, n)
                          /\ \A l, n : tree[op.to] # g => (Aims(g, l, n)' <=> Aims(g, l, n))
      /\ \A l : /\ Trashed(l)' <=> Trashed(l)
                /\ \A n : Named(l, n)' <=> Named(l, n)
      /\ \A g, h \in Files : Behind(g, h) => Behind(g, h)'
  BY <1>2, MarksFacts
<1>t. /\ ~Moving /\ ~Moving' /\ ~Linked' /\ op'.pc \in {"retarget", "renameApply"}
      /\ \A g : /\ ~Replaced(g) /\ ~Out(g) /\ ~Out(g)'
                /\ \A n : Place(g, n)' <=> Place(g, n)
                /\ \A h : ~Takes(g, h)
                /\ \A h : Takes(g, h)' <=> op.file = g /\ tree[op.to] = h
  BY <1>1, <1>c DEF Moving, Linked, Replaced, Out, Place, Takes
<1>3. /\ DriveInv' /\ ReleaseShape' /\ GoneRight' /\ BufferShown' /\ DestGone' /\ ReplacedGone'
      /\ ChainGone' /\ GoneStays' /\ LandsRight' /\ WorksOnNode' /\ UploadNamed'
      /\ OneByOne' /\ RenameShape'
  BY <1>1, <1>2, <1>t, MarksMost
<1>4. NameShown'
  BY <1>c, <1>f, <1>t DEF Inv, FileInv, NameShown
<1>5. NodeNamed' /\ NodeListed'
  BY <1>c, <1>f, <1>t DEF Inv, NodeInv, NodeNamed, NodeListed
<1>6. NodeAlive'
  BY <1>1, <1>c, <1>f, <1>t DEF Inv, NodeInv, NodeAlive
<1>7. LinkHeld'
  <2>1. \A l, n : Held(l, n)' <=> Held(l, n)
    BY <1>c, <1>f, <1>t DEF Held
  <2> QED
    BY <2>1, <1>c, <1>f, <1>t DEF Inv, NodeInv, LinkHeld
<1>8. RetargetWaits'
  BY <1>1, <1>c, <1>2, OpFiles DEF Marks, RetargetWaits, FileOrNone
<1>9. PendingOwn'
  BY <1>1, <1>c, <1>f, OpFiles DEF Inv, RenameInv, PendingOwn
<1>10. OthersMake'
  BY <1>1, <1>c, <1>f, <1>t DEF Inv, RenameInv, OthersMake
<1>11. SourceRight' /\ MovedRight' /\ MovedOwn' /\ MovedGone' /\ MovedUpload' /\ MovedPending'
  BY <1>1, <1>t DEF SourceRight, MovedRight, MovedOwn, MovedGone, MovedUpload, MovedPending
<1>12. SeatFirst'
  <2> SUFFICES ASSUME NEW h \in Files, NEW g \in Files, h # g, Seated(g), Aims(h, node[g], name[g])
               PROVE  Aims(g, node[g], name[g])' \/ Behind(h, g)' \/ Takes(h, g)' \/ Relocating(g)
    BY <1>c, <1>f DEF SeatFirst
  <2>1. Aims(g, node[g], name[g]) \/ Behind(h, g) \/ Relocating(g)
    BY <1>t DEF Inv, TurnsInv, SeatFirst
  <2>2. CASE Aims(g, node[g], name[g]) /\ tree[op.to] = g
    <3>1. node[g] \in LinkOrNone /\ name[g] \in Names
      BY FileTypes
    <3>2. InLine(h, g) \/ InLine(g, h)
      BY <2>2, <3>1 DEF Inv, TurnsInv, OneByOne
    <3>3. Behind(h, g)
      BY <3>2, <1>t DEF InLine, Behind, Inv, FileInv, GoneRight
    <3> QED
      BY <3>3, <1>f
  <2>3. CASE Aims(g, node[g], name[g]) /\ tree[op.to] # g
    BY <2>3, <1>c, <1>f
  <2>4. CASE Behind(h, g) \/ Relocating(g)
    BY <2>4, <1>f
  <2> QED
    BY <2>1, <2>2, <2>3, <2>4
<1> QED
  BY <1>3, <1>4, <1>5, <1>6, <1>7, <1>8, <1>9, <1>10, <1>11, <1>12
     DEF Inv, FileInv, NodeInv, RenameInv, TurnsInv

LEMMA RenameReplaceKeeps ==
  ASSUME Sound, RenameReplace, races' = {}
  PROVE  Inv'
<1> USE DEF Sound
<1>1. /\ op.pc = "renameReplace" /\ op'.pc = "renameApply"
      /\ op'.file = op.file /\ op'.from = op.from /\ op'.to = op.to /\ op'.link = op.link
  BY DEF RenameReplace, TypeOK, OpOK, Operations
<1>2. Marks
  BY <1>1, ReplaceMarks DEF RenameReplace, treeVars
<1>c. UNCHANGED <<tree, listing, drive, node, name, rel>>
  BY <1>2 DEF Marks
<1>f. /\ \A g \in Files : /\ Started(g)' <=> Started(g)
                          /\ HoldsMu(g)' <=> HoldsMu(g)
                          /\ Landing(g)' <=> Landing(g)
                          /\ Relocating(g)' <=> Relocating(g)
                          /\ Seated(g)' <=> Seated(g)
                          /\ HasBuf(g)' => HasBuf(g)
                          /\ handle[g].gone => handle'[g].gone
      /\ \A g \in Files : /\ \A l : Has(g, l)' => Has(g, l)
                          /\ \A l, n : Aims(g, l, n)' => Aims(g, l, n)
                          /\ \A l, n : tree[op.to] # g => (Aims(g, l, n)' <=> Aims(g, l, n))
                          /\ \A l : Has(g, l)' => \A n : Makes(g, n) => Makes(g, n)'
      /\ \A l : /\ Trashed(l)' <=> Trashed(l)
                /\ \A n : Named(l, n)' <=> Named(l, n)
      /\ \A g, h \in Files : Behind(g, h) => Behind(g, h)'
  BY <1>2, MarksFacts
<1>t. /\ Moving /\ Moving' /\ Linked /\ Linked' /\ op'.pc \in {"retarget", "renameApply"}
      /\ \A g : /\ ~Out(g) /\ (Out(g)' <=> tree[op.to] = g)
                /\ \A n : Place(g, n)' <=> Place(g, n)
                /\ \A h : ~Takes(g, h) /\ ~Takes(g, h)'
  BY <1>1, <1>c DEF Moving, Linked, Out, Place, Takes
<1>m. /\ op.file \in Files /\ op.link \in Links /\ op.from \in Names /\ op.to \in Names
      /\ Named(op.link, op.to) /\ listing[op.to] = op.link
  BY <1>t, OpFiles DEF LinkOrNone, Inv, RenameInv, RenameShape, MovedRight
<1>3. /\ DriveInv' /\ ReleaseShape' /\ GoneRight' /\ BufferShown' /\ DestGone' /\ ReplacedGone'
      /\ ChainGone' /\ GoneStays' /\ LandsRight' /\ WorksOnNode' /\ UploadNamed'
      /\ OneByOne' /\ RenameShape'
  BY <1>1, <1>2, <1>t, MarksMost
<1>4. NameShown'
  BY <1>1, <1>c, <1>f, <1>t DEF Inv, FileInv, NameShown
<1>5. NodeNamed' /\ NodeListed'
  BY <1>c, <1>f, <1>t DEF Inv, NodeInv, NodeNamed, NodeListed
<1>6. NodeAlive'
  BY <1>1, <1>c, <1>f, <1>t DEF Inv, NodeInv, NodeAlive
<1>7. LinkHeld'
  <2> SUFFICES ASSUME NEW g \in Files, NEW l \in Links, NEW n \in Names, Has(g, l), Named(l, n),
                      ~(rel[g].existing = None /\ rel[g].name = n), op.link # l
               PROVE  listing[n] = l /\ Held(l, n)'
    BY <1>1, <1>c, <1>f, <1>t DEF LinkHeld
  <2>1. listing[n] = l /\ Held(l, n)
    BY DEF Inv, NodeInv, LinkHeld
  <2>2. n # op.to
    BY <2>1, <1>m
  <2>3. PICK k \in Files : /\ Place(k, n) /\ ~Out(k)
                           /\ node[k] = l \/ (Relocating(k) /\ rel[k].up # None)
    BY <2>1 DEF Held
  <2>4. tree[op.to] # k
    BY <2>2, <2>3, <1>m, <1>1, <1>2, WriteBufferAssumption DEF Place, TreeInv, OneName, Marks
  <2>5. Place(k, n)' /\ ~Out(k)' /\ (node'[k] = l \/ (Relocating(k)' /\ rel'[k].up # None))
    BY <2>3, <2>4, <1>c, <1>f, <1>t
  <2> QED
    BY <2>1, <2>5 DEF Held
<1>8. RetargetWaits' /\ PendingOwn' /\ SourceRight'
  BY <1>1 DEF RetargetWaits, PendingOwn, SourceRight
<1>9. MovedRight'
  BY <1>1, <1>c, <1>f, <1>m DEF MovedRight
<1>10. OthersMake'
  BY <1>1, <1>c, <1>f, <1>t DEF Inv, RenameInv, OthersMake
<1>11. MovedOwn' /\ MovedUpload'
  BY <1>1, <1>c, <1>f, <1>t DEF Inv, RenameInv, MovedOwn, MovedUpload
<1>12. MovedGone' /\ MovedPending'
  BY <1>1, <1>c, <1>f, <1>t DEF Inv, RenameInv, MovedGone, MovedPending
<1>13. SeatFirst'
  BY <1>c, <1>f, <1>t DEF Inv, TurnsInv, SeatFirst
<1> QED
  BY <1>3, <1>4, <1>5, <1>6, <1>7, <1>8, <1>9, <1>10, <1>11, <1>12, <1>13
     DEF Inv, FileInv, NodeInv, RenameInv, TurnsInv

(***************************************************************************)
(* A rename of a drive item, on the drive.                                  *)
(***************************************************************************)

LEMMA RenameTrashKeeps ==
  ASSUME Sound, RenameTrash
  PROVE  Inv'
<1> USE DEF Sound
<1>c. UNCHANGED <<tree, node, name, replaces, handle, rel>> /\ op.pc = "renameTrash"
  BY DEF RenameTrash, nodeVars
<1>1. CASE op' = NoOp /\ UNCHANGED <<drive, listing>>
  BY <1>1, <1>c, FailedOpKeeps DEF nodeVars
<1>2. CASE /\ MoveTrash(op.link, op.to)
           /\ op' = [op EXCEPT !.pc = "renameMove", !.trashed = MoveTrashed(op.link, op.to)]
  <2>o. /\ op'.pc = "renameMove" /\ op'.file = op.file /\ op'.from = op.from /\ op'.to = op.to
        /\ op'.link = op.link
    BY <1>2 DEF TypeOK, OpOK, Operations
  <2>i. /\ op.file \in Files /\ op.link \in Links /\ op.from \in Names /\ op.to \in Names
        /\ Linked /\ op.from # op.to /\ op.link # None
    BY <1>c, OpFiles DEF Linked, LinkOrNone, Inv, RenameInv, RenameShape, OpSteps
  <2>k. /\ OneActive' /\ ListedRight'
        /\ \A k \in Links :
             /\ InUse(k) => InUse(k)'
             /\ SameLink(k) \/ (Trashed(k)' /\ Named(k, op.to) /\ k # op.link)
        /\ \A n \in Names, k \in Links : listing[n] = k => listing'[n] = k \/ Trashed(k)'
    <3>1. CASE UNCHANGED <<drive, listing>>
      <4>1. \A k : SameLink(k) /\ (InUse(k)' <=> InUse(k))
        BY <3>1, SameDrive DEF SameLink
      <4>2. OneActive' /\ ListedRight'
        BY <3>1, SameDrive DEF OneActive, ListedRight, Inv, DriveInv
      <4> QED
        BY <3>1, <4>1, <4>2
    <3>2. CASE ~UNCHANGED <<drive, listing>>
      <4>1. PICK d \in Links, m \in Names : d = listing[op.to] /\ m = op.to /\ d # op.link
        BY <1>2, <3>2, <2>i, OpFiles DEF MoveTrash, LinkOrNone
      <4>2. Trashes(d, m)
        BY <4>1, <1>2, <3>2, WriteBufferAssumption DEF MoveTrash, Trashes, Inv, DriveInv, ListedRight, Links
      <4>3. /\ OneActive' /\ ListedRight' /\ Trashed(d)'
            /\ \A k \in Links : /\ k # d => SameLink(k)
                                /\ InUse(k)' <=> InUse(k)
            /\ \A n \in Names : listing'[n] = IF n = m THEN None ELSE listing[n]
        BY <4>2, TrashFacts
      <4>4. Named(d, op.to)
        BY <4>1, <4>2 DEF Trashes
      <4> QED
        BY <4>1, <4>3, <4>4
    <3> QED
      BY <3>1, <3>2
  <2>n. \A k \in Links : /\ Trashed(k) => Trashed(k)'
                         /\ \A n \in Names : Named(k, n)' => Named(k, n) /\ ~Trashed(k)'
    BY <2>k DEF SameLink, Named, Trashed
  <2>p. \A g \in Files : node[g] # None => node[g] \in Links
    BY FileTypes DEF LinkOrNone
  <2>s. \A g \in Files : /\ Started(g)' <=> Started(g)
                         /\ HoldsMu(g)' <=> HoldsMu(g)
                         /\ Landing(g)' <=> Landing(g)
                         /\ Relocating(g)' <=> Relocating(g)
                         /\ HasBuf(g)' <=> HasBuf(g)
    BY <1>c DEF Started, HoldsMu, Landing, Relocating, HasBuf
  <2>a. \A g \in Files : /\ \A k : Has(g, k)' <=> Has(g, k)
                         /\ \A n : Makes(g, n)' <=> Makes(g, n)
                         /\ \A k, n : Aims(g, k, n)' <=> Aims(g, k, n)
    BY <1>c, SameAims DEF Aims
  <2>t. /\ ~Moving /\ ~Moving' /\ Linked'
        /\ \A g : /\ Seated(g)' <=> Seated(g)
                  /\ ~Replaced(g) /\ ~Replaced(g)' /\ ~Out(g) /\ ~Out(g)'
                  /\ \A n : Place(g, n)' <=> Place(g, n)
                  /\ \A n : Place(g, n) <=> tree[n] = g
                  /\ \A h : ~Takes(g, h) /\ ~Takes(g, h)'
    BY <1>c, <2>o DEF Moving, Linked, Seated, Replaced, Out, Place, Takes
  <2>b. \A g, h \in Files : Behind(g, h) => Behind(g, h)'
    BY <1>c, <2>o, <2>s, <2>t, AfterKept DEF Behind
  <2>l. \A g, h \in Files : InLine(g, h) => InLine(g, h)'
    BY <1>c, <2>b, AfterKept DEF InLine
  <2>1. DriveInv'
    <3>1. \A k : k \in LinkOrNone /\ InUse(k) => InUse(k)'
      BY <2>k DEF InUse, LinkOrNone
    <3>2. \A g \in Files : node[g] \in LinkOrNone /\ rel[g].existing \in LinkOrNone /\ rel[g].up \in LinkOrNone
      BY FileTypes DEF Releases
    <3>3. InUse(op.link)'
      BY <3>1, <2>o, OpFiles DEF Inv, DriveInv, LinksUsed, InUse
    <3> QED
      BY <2>k, <3>1, <3>2, <3>3, <1>c DEF Inv, DriveInv, LinksUsed
  <2>2. ReleaseShape'
    BY <1>c, <2>s DEF Inv, FileInv, ReleaseShape, ShapeOf
  <2>3. NameShown' /\ GoneRight' /\ BufferShown' /\ DestGone' /\ ReplacedGone' /\ ChainGone'
    BY <1>c, <2>s, <2>t DEF Inv, FileInv, NameShown, GoneRight, BufferShown, DestGone, ReplacedGone, ChainGone
  <2>4. GoneStays' /\ LandsRight' /\ WorksOnNode'
    BY <1>c, <2>s, <2>t DEF Inv, FileInv, NodeInv, GoneStays, LandsRight, WorksOnNode
  <2>5. UploadNamed'
    <3> SUFFICES ASSUME NEW g \in Files, ~handle[g].gone \/ Seated(g), rel[g].existing = None, rel[g].up # None
                 PROVE  Trashed(rel[g].up)' \/ Named(rel[g].up, rel[g].name)'
      BY <1>c, <2>t DEF UploadNamed
    <3>1. rel[g].up \in Links /\ rel[g].name \in Names
      BY FileTypes DEF Releases, LinkOrNone
    <3>2. Trashed(rel[g].up) \/ Named(rel[g].up, rel[g].name)
      BY DEF Inv, NodeInv, UploadNamed
    <3> QED
      BY <3>1, <3>2, <1>c, <2>k DEF SameLink
  <2>6. NodeNamed'
    <3> SUFFICES ASSUME NEW g \in Files, Seated(g), node[g] # None
                 PROVE  (\/ Trashed(node[g])
                         \/ \E n \in Names : Place(g, n) /\ Named(node[g], n)
                         \/ Relocating(g) /\ rel[g].existing = None /\ rel[g].up = node[g])'
      BY <1>c, <2>t DEF NodeNamed
    <3>1. \/ Trashed(node[g])
          \/ \E n \in Names : Place(g, n) /\ Named(node[g], n)
          \/ Relocating(g) /\ rel[g].existing = None /\ rel[g].up = node[g]
      BY DEF Inv, NodeInv, NodeNamed
    <3> QED
      BY <3>1, <1>c, <2>k, <2>p, <2>s, <2>t DEF SameLink
  <2>7. NodeAlive'
    <3> SUFFICES ASSUME NEW g \in Files, Seated(g), node[g] # None, Trashed(node[g])', tree[op.to] # g
                 PROVE  /\ rel[g].existing = None /\ (Landing(g) \/ rel[g].pc = "patch")
                        /\ rel[g].up = node[g] \/ rel[g].pc = "move"
      BY <1>c, <2>o, <2>s, <2>t DEF NodeAlive
    <3>1. CASE Trashed(node[g])
      BY <3>1, <1>c, <2>t DEF Inv, NodeInv, NodeAlive
    <3>2. CASE ~Trashed(node[g])
      <4>1. Named(node[g], op.to)
        BY <3>2, <1>c, <2>k, <2>p DEF SameLink
      <4>2. ~Place(g, op.to)
        BY <2>i, <2>t
      <4>3. Relocating(g) /\ rel[g].existing = None /\ rel[g].up = node[g]
        BY <3>2, <4>1, <4>2 DEF Inv, NodeInv, NodeNamed, Named
      <4> QED
        BY <4>3 DEF Relocating, Landing
    <3> QED
      BY <3>1, <3>2
  <2>8. NodeListed'
    <3> SUFFICES ASSUME NEW g \in Files, NEW n \in Names, Place(g, n), node[g] # None, Named(node[g], n)'
                 PROVE  listing'[n] = node[g] \/ (rel[g].up = node[g] /\ rel[g].existing = None)
      BY <1>c, <2>t DEF NodeListed
    <3>1. node[g] \in Links /\ Named(node[g], n) /\ ~Trashed(node[g])'
      BY <1>c, <2>n, <2>p
    <3> QED
      BY <3>1, <1>c, <2>k DEF Inv, NodeInv, NodeListed
  <2>9. LinkHeld'
    <3>1. \A l, n : Held(l, n)' <=> Held(l, n)
      BY <1>c, <2>s, <2>t DEF Held
    <3> SUFFICES ASSUME NEW g \in Files, NEW l \in Links, NEW n \in Names, Has(g, l), Named(l, n)',
                        ~(rel[g].existing = None /\ rel[g].name = n)
                 PROVE  listing'[n] = l /\ Held(l, n)
      BY <1>c, <2>a, <3>1 DEF LinkHeld
    <3>2. Named(l, n) /\ ~Trashed(l)'
      BY <2>n
    <3> QED
      BY <3>2, <2>k, <2>t DEF Inv, NodeInv, LinkHeld
  <2>10. RenameShape'
    BY <2>i, <2>o DEF RenameShape
  <2>11. SourceRight'
    <3>1. Trashed(op.link) \/ Named(op.link, op.from)
      BY <1>c DEF Inv, RenameInv, SourceRight
    <3>2. SameLink(op.link)
      BY <2>i, <2>k
    <3> QED
      BY <3>1, <3>2, <2>i, <2>o DEF SourceRight, SameLink
  <2>12. RetargetWaits' /\ PendingOwn' /\ OthersMake' /\ MovedRight'
    BY <2>o, <2>t DEF RetargetWaits, PendingOwn, OthersMake, MovedRight
  <2>13. MovedOwn' /\ MovedUpload'
    BY <1>c, <2>i, <2>o, <2>t DEF Inv, RenameInv, MovedOwn, MovedUpload
  <2>14. MovedGone' /\ MovedPending'
    BY <1>c, <2>a, <2>i, <2>o, <2>t DEF Inv, RenameInv, MovedGone, MovedPending
  <2>15. SeatFirst' /\ OneByOne'
    BY <1>c, <2>a, <2>b, <2>l, <2>s, <2>t DEF Inv, TurnsInv, SeatFirst, OneByOne
  <2> QED
    BY <2>1, <2>2, <2>3, <2>4, <2>5, <2>6, <2>7, <2>8, <2>9, <2>10, <2>11, <2>12, <2>13,
       <2>14, <2>15 DEF Inv, FileInv, NodeInv, RenameInv, TurnsInv
<1> QED
  BY <1>1, <1>2 DEF RenameTrash

LEMMA RenameMoveKeeps ==
  ASSUME Sound, RenameMove, races' = {}
  PROVE  Inv'
<1> USE DEF Sound
<1>1. /\ op.pc = "renameMove" /\ MoveDone(op.link, op.from, op.to)
      /\ op' = [op EXCEPT !.pc = "renameReplace"]
      /\ \A f \in Files : ~(Landing(f) /\ rel[f].up = op.link)
      /\ UNCHANGED <<tree, node, name, replaces, handle, rel>>
  BY DEF RenameMove, Raced, nodeVars
<1>c. UNCHANGED <<tree, node, name, replaces, handle, rel>>
  BY <1>1
<1>o. /\ op.pc = "renameMove" /\ op'.pc = "renameReplace" /\ op'.file = op.file /\ op'.from = op.from
      /\ op'.to = op.to /\ op'.link = op.link
  BY <1>1 DEF TypeOK, OpOK, Operations
<1>2. PICK f \in Files, l \in Links, from \in Names, to \in Names :
        /\ op.file = f /\ op.link = l /\ op.from = from /\ op.to = to /\ from # to /\ tree[from] = f
        /\ Linked /\ l # None
  BY <1>o, OpFiles DEF Linked, LinkOrNone, Inv, RenameInv, RenameShape, OpSteps, TreeInv, OpFile
<1>d. /\ Named(l, from) /\ \A n \in Names : Named(l, n)' <=> n = to
      /\ ~Trashed(l) /\ ~Trashed(l)' /\ InUse(l)'
      /\ \A k \in Links : k # l => /\ SameLink(k)
                                   /\ Trashed(k)' <=> Trashed(k)
                                   /\ InUse(k)' <=> InUse(k)
                                   /\ \A n \in Names : Named(k, n)' <=> Named(k, n)
                                   /\ ~Named(k, to) /\ ~Named(k, from)
  <2>1. /\ drive[l].st = "active" /\ drive' = [drive EXCEPT ![l].name = to]
        /\ Active(drive, to) \subseteq {l}
    BY <1>1, <1>2 DEF MoveDone, CanMove
  <2>2. /\ drive'[l].st = "active" /\ drive'[l].name = to
        /\ \A k \in Links : k # l => drive'[k] = drive[k] /\ ~Named(k, to)
    BY <2>1 DEF TypeOK, FolderOK, DriveLinks, Active, Named
  <2>3. Named(l, from)
    BY <2>1, <1>o, <1>2 DEF Inv, RenameInv, SourceRight, Trashed
  <2>4. \A k \in Links : k # l => ~Named(k, from)
    BY <2>3 DEF Inv, DriveInv, OneActive
  <2> QED
    BY <2>1, <2>2, <2>3, <2>4 DEF SameLink, Named, Trashed, InUse
<1>m. \A n \in Names : listing'[n] = IF n = to THEN l ELSE IF n = from THEN None ELSE listing[n]
  <2>1. \A n \in Names : listing[n] # None => listing[n] \in Links /\ Named(listing[n], n)
    BY OpFiles DEF Inv, DriveInv, ListedRight, LinkOrNone
  <2>2. \A n \in Names : listing[n] = l => n = from
    BY <2>1, <1>2, <1>d DEF Named
  <2> QED
    BY <2>2, <1>1, <1>2 DEF MoveDone, Upsert, Removed, TypeOK, FolderOK
<1>p. listing[from] \in {None, l} /\ listing[to] \in {None, l}
  BY <1>2, <1>d, OpFiles DEF Inv, DriveInv, ListedRight, LinkOrNone
<1>n. \A g \in Files : node[g] # None => node[g] \in Links
  BY FileTypes DEF LinkOrNone
<1>s. \A g \in Files : /\ Started(g)' <=> Started(g)
                       /\ HoldsMu(g)' <=> HoldsMu(g)
                       /\ Landing(g)' <=> Landing(g)
                       /\ Relocating(g)' <=> Relocating(g)
                       /\ HasBuf(g)' <=> HasBuf(g)
  BY <1>c DEF Started, HoldsMu, Landing, Relocating, HasBuf
<1>a. \A g \in Files : /\ \A k : Has(g, k)' <=> Has(g, k)
                       /\ \A n : Makes(g, n)' <=> Makes(g, n)
                       /\ \A k, n : Aims(g, k, n)' <=> Aims(g, k, n)
  BY <1>c, SameAims DEF Aims
<1>t. /\ ~Moving /\ Moving' /\ Linked'
      /\ \A g : /\ Seated(g)' <=> Seated(g)
                /\ ~Replaced(g) /\ ~Replaced(g)' /\ ~Out(g) /\ ~Out(g)'
                /\ \A n : Place(g, n)' <=> Place(g, n) \/ (g = f /\ n = to)
                /\ \A n : Place(g, n) <=> tree[n] = g
                /\ \A h : ~Takes(g, h) /\ ~Takes(g, h)'
  BY <1>c, <1>o, <1>2 DEF Moving, Linked, Seated, Replaced, Out, Place, Takes
<1>b. \A g, h \in Files : Behind(g, h) => Behind(g, h)'
  BY <1>c, <1>o, <1>s, <1>t, AfterKept DEF Behind
<1>l. \A g, h \in Files : InLine(g, h) => InLine(g, h)'
  BY <1>c, <1>b, AfterKept DEF InLine
<1>3. DriveInv'
  <2>1. OneActive'
    BY <1>d DEF Inv, DriveInv, OneActive
  <2>2. ListedRight'
    <3> SUFFICES ASSUME NEW n \in Names, listing'[n] # None PROVE Named(listing[n], n)'
      BY DEF ListedRight
    <3>1. CASE n = to
      <4>1. Named(l, n)' /\ listing'[n] = l
        BY <3>1, <1>d, <1>m
      <4> QED
        BY <4>1 DEF Named
    <3>2. CASE n # to
      <4>1. PICK k \in Links : listing'[n] = k /\ listing[n] = k /\ Named(k, n) /\ n # from
        BY <3>2, <1>m, OpFiles DEF LinkOrNone, Inv, DriveInv, ListedRight
      <4>2. k # l
        BY <4>1, <1>d DEF Named
      <4>3. Named(k, n)'
        BY <4>1, <4>2, <1>d
      <4> QED
        BY <4>1, <4>3 DEF Named
    <3> QED
      BY <3>1, <3>2
  <2>3. LinksUsed'
    <3>1. \A k : k \in LinkOrNone /\ InUse(k) => InUse(k)'
      BY <1>d DEF InUse, LinkOrNone
    <3>2. \A g \in Files : node[g] \in LinkOrNone /\ rel[g].existing \in LinkOrNone /\ rel[g].up \in LinkOrNone
      BY FileTypes DEF Releases
    <3> QED
      BY <3>1, <3>2, <1>c, <1>o, OpFiles DEF Inv, DriveInv, LinksUsed
  <2> QED
    BY <2>1, <2>2, <2>3 DEF DriveInv
<1>4. ReleaseShape'
  BY <1>c, <1>s DEF Inv, FileInv, ReleaseShape, ShapeOf
<1>5. NameShown'
  <2>1. Seated(f) => name[f] # to
    <3> SUFFICES ASSUME Seated(f), name[f] = to PROVE FALSE
      OBVIOUS
    <3>1. tree[to] = f
      BY <1>t DEF Inv, FileInv, NameShown
    <3> QED
      BY <3>1, <1>2, WriteBufferAssumption DEF TreeInv, OneName
  <2> QED
    BY <2>1, <1>c, <1>o, <1>2, <1>t DEF Inv, FileInv, NameShown
<1>6. GoneRight' /\ BufferShown' /\ DestGone' /\ ReplacedGone' /\ ChainGone'
  BY <1>c, <1>s, <1>t DEF Inv, FileInv, GoneRight, BufferShown, DestGone, ReplacedGone, ChainGone
<1>7. GoneStays' /\ LandsRight' /\ WorksOnNode'
  BY <1>c, <1>s, <1>t DEF Inv, FileInv, NodeInv, GoneStays, LandsRight, WorksOnNode
<1>8. UploadNamed'
  <2> SUFFICES ASSUME NEW g \in Files, ~handle[g].gone \/ Seated(g), rel[g].existing = None, rel[g].up # None
               PROVE  Trashed(rel[g].up)' \/ Named(rel[g].up, rel[g].name)'
    BY <1>c, <1>t DEF UploadNamed
  <2>1. rel[g].up \in Links /\ rel[g].name \in Names
    BY FileTypes DEF Releases, LinkOrNone
  <2>2. Has(g, rel[g].up)
    BY LocalsShape DEF ShapeOf, Uploaded, Has, Live, HoldsMu, Started, RelSteps
  <2>3. rel[g].up # l
    BY <2>2, <1>2, <1>t DEF Inv, RenameInv, MovedUpload, MovedGone, FileInv, GoneRight
  <2>4. Trashed(rel[g].up) \/ Named(rel[g].up, rel[g].name)
    BY DEF Inv, NodeInv, UploadNamed
  <2> QED
    BY <2>1, <2>3, <2>4, <1>c, <1>d DEF SameLink
<1>9. NodeNamed'
  <2> SUFFICES ASSUME NEW g \in Files, Seated(g), node[g] # None
               PROVE  (\/ Trashed(node[g])
                       \/ \E n \in Names : Place(g, n) /\ Named(node[g], n)
                       \/ Relocating(g) /\ rel[g].existing = None /\ rel[g].up = node[g])'
    BY <1>c, <1>t DEF NodeNamed
  <2>1. CASE node[g] = l
    <3>1. g = f
      BY <2>1, <1>2, <1>t DEF Inv, RenameInv, MovedOwn
    <3>2. Place(g, to)' /\ Named(node[g], to)'
      BY <2>1, <3>1, <1>c, <1>d, <1>t DEF Named
    <3> QED
      BY <3>2
  <2>2. CASE node[g] # l
    <3>1. \/ Trashed(node[g])
          \/ \E n \in Names : Place(g, n) /\ Named(node[g], n)
          \/ Relocating(g) /\ rel[g].existing = None /\ rel[g].up = node[g]
      BY DEF Inv, NodeInv, NodeNamed
    <3>2. SameLink(node[g])
      BY <2>2, <1>d, <1>n
    <3> QED
      BY <3>1, <3>2, <1>c, <1>s, <1>t DEF SameLink
  <2> QED
    BY <2>1, <2>2
<1>10. NodeAlive'
  <2>1. \A g \in Files : node[g] # None /\ Trashed(node[g])' => Trashed(node[g])
    BY <1>c, <1>d, <1>n
  <2> QED
    BY <2>1, <1>c, <1>o, <1>s, <1>t DEF Inv, NodeInv, NodeAlive
<1>11. NodeListed'
  <2> SUFFICES ASSUME NEW g \in Files, NEW n \in Names, Place(g, n)', node[g] # None, Named(node[g], n)'
               PROVE  listing'[n] = node[g] \/ (rel[g].up = node[g] /\ rel[g].existing = None)
    BY <1>c DEF NodeListed
  <2>1. CASE node[g] = l
    <3>1. Named(l, n)'
      BY <2>1, <1>c
    <3> QED
      BY <2>1, <3>1, <1>d, <1>m
  <2>2. CASE node[g] # l
    <3>1. node[g] \in Links /\ Named(node[g], n)
      BY <2>2, <1>c, <1>d, <1>n
    <3>2. n # to /\ n # from
      BY <2>2, <3>1, <1>d
    <3> QED
      BY <3>1, <3>2, <1>m, <1>t DEF Inv, NodeInv, NodeListed
  <2> QED
    BY <2>1, <2>2
<1>12. LinkHeld'
  <2> SUFFICES ASSUME NEW g \in Files, NEW k \in Links, NEW n \in Names, Has(g, k), Named(k, n)',
                      ~(rel[g].existing = None /\ rel[g].name = n), k # l
               PROVE  listing'[n] = k /\ Held(k, n)'
    BY <1>c, <1>a, <1>o, <1>2, <1>t DEF LinkHeld
  <2>1. Named(k, n) /\ n # to /\ n # from
    BY <1>d
  <2>2. listing[n] = k /\ Held(k, n)
    BY <2>1, <1>t DEF Inv, NodeInv, LinkHeld
  <2>3. Held(k, n)'
    BY <2>2, <1>c, <1>s, <1>t DEF Held
  <2> QED
    BY <2>1, <2>2, <2>3, <1>m
<1>13. RenameShape' /\ RetargetWaits' /\ PendingOwn' /\ SourceRight'
  BY <1>o, <1>2 DEF RenameShape, RetargetWaits, PendingOwn, SourceRight
<1>14. MovedRight'
  <2>1. Named(l, to)' /\ listing'[to] = l
    BY <1>d, <1>m
  <2> QED
    BY <2>1, <1>o, <1>2 DEF MovedRight
<1>15. OthersMake'
  <2> SUFFICES ASSUME NEW g \in Files, NEW k \in Links, Named(k, from)' PROVE FALSE
    BY <1>o, <1>2 DEF OthersMake
  <2> QED
    BY <1>2, <1>d
<1>16. MovedOwn' /\ MovedUpload'
  BY <1>c, <1>o, <1>2, <1>t DEF Inv, RenameInv, MovedOwn, MovedUpload
<1>17. MovedGone' /\ MovedPending'
  BY <1>c, <1>a, <1>o, <1>2, <1>t DEF Inv, RenameInv, MovedGone, MovedPending
<1>18. SeatFirst' /\ OneByOne'
  BY <1>c, <1>a, <1>b, <1>l, <1>s, <1>t DEF Inv, TurnsInv, SeatFirst, OneByOne
<1> QED
  BY <1>3, <1>4, <1>5, <1>6, <1>7, <1>8, <1>9, <1>10, <1>11, <1>12, <1>13,
     <1>14, <1>15, <1>16, <1>17, <1>18 DEF Inv, FileInv, NodeInv, RenameInv, TurnsInv

(***************************************************************************)
(* The end of both renames.                                                 *)
(***************************************************************************)

\* What becomes of the seats: the file that moves is shown under its new name, and the
\* one whose place it takes is out.
SeatsMoved(f, from, to) ==
  /\ from # to /\ tree[from] = f /\ tree[to] # f /\ Seated(f) /\ Seated(f)'
  /\ ~Replaced(f) /\ ~Out(f) /\ ~Replaced(f)' /\ ~Out(f)' /\ ~handle[f].gone
  /\ ~Linked' /\ ~Moving' /\ op'.pc \in {"idle", "renameWait"} /\ op'.link \in {None, op.link}
  /\ op'.pc # "idle" => op'.file = f /\ op'.from # op'.to
  /\ \A g, h : ~Takes(g, h)'
  /\ \A n \in Names : Place(f, n)' <=> n = to
  /\ \A g \in Files : g # f =>
       /\ Seated(g)' => Seated(g)
       /\ Replaced(g) <=> tree[to] = g
       /\ Replaced(g)' => Replaced(g)
       /\ Replaced(g) => Replaced(g)' \/ ~Seated(g)'
       /\ Seated(g)' /\ ~Out(g)' <=> Seated(g) /\ tree[to] # g
       /\ \A n \in Names : /\ Place(g, n) <=> tree[n] = g
                           /\ Seated(g)' => (Place(g, n)' <=> Place(g, n))
                           /\ Place(g, n)' => Place(g, n)

\* Nobody else notices, and the file itself only when a parked buffer is taken back.
OthersStay(f) ==
  /\ \A g \in Files :
       /\ rel'[g].existing = rel[g].existing /\ rel'[g].up = rel[g].up
       /\ rel'[g].name = rel[g].name /\ rel'[g].chain = rel[g].chain
       /\ handle'[g].gone = handle[g].gone
       /\ HasBuf(g)' <=> HasBuf(g)
       /\ Started(g)' <=> Started(g)
       /\ HoldsMu(g)' <=> HoldsMu(g)
       /\ Landing(g)' <=> Landing(g)
       /\ Started(g) \/ g # f => rel'[g] = rel[g]
       /\ rel'[g].pc = "patch" <=> rel[g].pc = "patch"
       /\ \A l : Has(g, l)' <=> Has(g, l)
       /\ \A n : Makes(g, n)' <=> Makes(g, n)
       /\ \A l, n : Aims(g, l, n)' <=> Aims(g, l, n)
  /\ \A g, h \in Files : /\ Behind(g, h) => Behind(g, h)'
                         /\ InLine(g, h) => InLine(g, h)'

LEMMA MovesSeats ==
  ASSUME Sound, op.pc \in {"retarget", "renameApply"}, NEW f \in Files, op.file = f,
         NEW from \in Names, op.from = from, NEW to \in Names, op.to = to, RenameReleases(f)
  PROVE  SeatsMoved(f, from, to)
<1> USE DEF Sound
<1>1. from # to /\ tree[from] = f /\ \A n \in Names : tree[n] = f => n = from
  BY WriteBufferAssumption DEF Inv, RenameInv, RenameShape, OpSteps, TreeInv, OpFile, OneName
<1>2. \/ /\ tree' = tree /\ op' = [op EXCEPT !.pc = "renameWait"]
      \/ /\ op' = NoOp /\ tree' = Moved(tree, op.from, op.to)
  BY DEF RenameReleases
<1>3. tree[to] # f /\ Seated(f) /\ ~Replaced(f) /\ ~Out(f) /\ ~handle[f].gone
  BY <1>1 DEF Seated, Replaced, Out, Inv, FileInv, GoneRight
<1>4. f # None /\ None \notin Files
  BY WriteBufferAssumption
<1>o. \A g \in Files : /\ Replaced(g) <=> tree[to] = g
                       /\ g # f => \A n \in Names : Place(g, n) <=> tree[n] = g
  BY DEF Replaced, Place
<1>5. CASE tree' = tree /\ op' = [op EXCEPT !.pc = "renameWait"]
  <2>1. /\ op'.pc = "renameWait" /\ op'.file = f /\ op'.from = from /\ op'.to = to /\ op'.link = op.link
    BY <1>5 DEF TypeOK, OpOK, Operations
  <2>2. /\ ~Linked' /\ ~Moving'
        /\ \A g, h : ~Takes(g, h)'
        /\ \A g : /\ Seated(g)' <=> Seated(g)
                  /\ Replaced(g)' <=> tree[to] = g
                  /\ Out(g)' <=> tree[to] = g
                  /\ \A n : Place(g, n)' <=> IF g = f THEN n = to ELSE tree[n] = g
    BY <2>1, <1>5 DEF Linked, Moving, Takes, Seated, Replaced, Out, Place
  <2> QED
    BY <1>1, <1>3, <1>o, <2>1, <2>2 DEF SeatsMoved
<1>6. CASE op' = NoOp /\ tree' = Moved(tree, op.from, op.to)
  <2>1. op'.pc = "idle" /\ op'.link = None
    BY <1>6 DEF NoOp
  <2>2. \A n \in Names : tree'[n] = IF n = to THEN f ELSE IF n = from THEN None ELSE tree[n]
    BY <1>1, <1>6 DEF Moved, TypeOK, TreeOK
  <2>3. /\ ~Linked' /\ ~Moving'
        /\ \A g, h : ~Takes(g, h)'
        /\ \A g : /\ ~Replaced(g)' /\ ~Out(g)'
                  /\ \A n : Place(g, n)' <=> tree'[n] = g
    BY <2>1 DEF Linked, Moving, Takes, Replaced, Out, Place
  <2>4. Seated(f)' /\ \A n \in Names : Place(f, n)' <=> n = to
    BY <2>2, <2>3, <1>1, <1>4 DEF Seated
  <2>5. \A g \in Files : g # f =>
          /\ Seated(g)' <=> Seated(g) /\ tree[to] # g
          /\ \A n \in Names : /\ Seated(g)' => (Place(g, n)' <=> tree[n] = g)
                              /\ Place(g, n)' => tree[n] = g
    BY <2>2, <2>3, <1>1, <1>4 DEF Seated, TreeInv, OneName
  <2> QED
    BY <1>1, <1>3, <1>o, <2>1, <2>3, <2>4, <2>5 DEF SeatsMoved
<1> QED
  BY <1>2, <1>5, <1>6

LEMMA MovesOthers ==
  ASSUME Sound, op.pc \in {"retarget", "renameApply"}, NEW f \in Files, op.file = f,
         NEW from \in Names, op.from = from, NEW to \in Names, op.to = to, RenameReleases(f),
         replaces' = replaces
  PROVE  OthersStay(f)
<1> USE DEF Sound
<1>1. /\ rel \in [Files -> Releases] /\ rel[f] \in Releases
      /\ handle \in [Files -> Buffers] /\ handle[f] \in Buffers
  BY FileTypes DEF TypeOK, ReleaseOK, BuffersOK
<1>2. \/ UNCHANGED <<handle, rel>>
      \/ /\ rel[f].pc = "idle" /\ HasBuf(f)
         /\ \A g \in Files : g # f => rel'[g] = rel[g] /\ handle'[g] = handle[g]
         /\ rel'[f] = [rel[f] EXCEPT !.pc = "start", !.by = "user"]
         /\ handle'[f].gone = handle[f].gone /\ HasBuf(f)'
  <2>1. CASE Parked(f)
    <3>1. /\ handle[f].phase \in {"waiting", "kept"} /\ handle' = TakenBack(f, "releasing")
          /\ rel' = [rel EXCEPT ![f].pc = "start", ![f].by = "user"]
      BY <2>1 DEF RenameReleases, Parked
    <3>2. rel[f].pc = "idle" /\ HasBuf(f)
      BY <3>1 DEF OwnedByRelease, HasBuf
    <3>3. /\ \A g \in Files : g # f => rel'[g] = rel[g] /\ handle'[g] = handle[g]
          /\ rel'[f] = [rel[f] EXCEPT !.pc = "start", !.by = "user"]
          /\ handle'[f] = [handle[f] EXCEPT !.phase = "releasing", !.dirty = TRUE, !.failed = FALSE]
      BY <1>1, <3>1 DEF TakenBack
    <3>4. handle'[f].gone = handle[f].gone /\ handle'[f].phase = "releasing"
      BY <1>1, <3>3 DEF Buffers
    <3> QED
      BY <3>2, <3>3, <3>4 DEF HasBuf
  <2>2. CASE ~Parked(f)
    BY <2>2 DEF RenameReleases
  <2> QED
    BY <2>1, <2>2
<1>3. \/ UNCHANGED <<handle, rel>>
      \/ /\ rel[f].pc = "idle" /\ HasBuf(f) /\ rel'[f].pc = "start"
         /\ \A g \in Files : g # f => rel'[g] = rel[g] /\ handle'[g] = handle[g]
         /\ rel'[f].existing = rel[f].existing /\ rel'[f].up = rel[f].up
         /\ rel'[f].name = rel[f].name /\ rel'[f].chain = rel[f].chain
         /\ handle'[f].gone = handle[f].gone /\ HasBuf(f)'
  BY <1>1, <1>2 DEF Releases
<1>4. \A g \in Files :
       /\ rel'[g].existing = rel[g].existing /\ rel'[g].up = rel[g].up
       /\ rel'[g].name = rel[g].name /\ rel'[g].chain = rel[g].chain
       /\ handle'[g].gone = handle[g].gone
       /\ HasBuf(g)' <=> HasBuf(g)
       /\ rel'[g] = rel[g] \/ (g = f /\ rel[g].pc = "idle" /\ rel'[g].pc = "start")
  BY <1>3 DEF HasBuf
<1>5. \A g \in Files :
       /\ Started(g)' <=> Started(g)
       /\ HoldsMu(g)' <=> HoldsMu(g)
       /\ Landing(g)' <=> Landing(g)
       /\ rel[g].pc = "idle" => ~Started(g)
       /\ rel'[g].pc = "patch" <=> rel[g].pc = "patch"
       /\ rel'[g].pc = "decide" <=> rel[g].pc = "decide"
       /\ rel'[g].pc = "await" <=> rel[g].pc = "await"
  BY <1>4 DEF Started, HoldsMu, Landing
<1>6. \A g \in Files : /\ Live(g)' <=> Live(g)
                       /\ \A l : Has(g, l)' <=> Has(g, l)
                       /\ \A n : Makes(g, n)' <=> Makes(g, n)
                       /\ \A l, n : Aims(g, l, n)' <=> Aims(g, l, n)
  BY <1>4, <1>5 DEF Live, Has, Makes, Aims
<1>p. \A h, x : After(h, x) => After(h, x)'
  BY AfterKept
<1>7. \A g, h \in Files : Behind(g, h) => Behind(g, h)'
  <2> SUFFICES ASSUME NEW g \in Files, NEW h \in Files, Behind(g, h) PROVE Behind(g, h)'
    OBVIOUS
  <2>1. handle'[g].gone /\ HoldsMu(g)' /\ After(replaces[h], g)'
    BY <1>4, <1>5, <1>p DEF Behind
  <2>2. SeatsMoved(f, from, to)
    BY MovesSeats
  <2>3. g # f /\ (Seated(g) => h = f)
    BY <2>2 DEF Behind, SeatsMoved
  <2>4. Seated(g)' => Replaced(g)' /\ op'.pc # "idle"
    BY <2>1, <2>2, <2>3, <1>4 DEF SeatsMoved, Inv, FileInv, GoneRight, Replaced
  <2> QED
    BY <2>1, <2>2, <2>3, <2>4 DEF Behind, SeatsMoved
<1>8. \A g, h \in Files : InLine(g, h) => InLine(g, h)'
  BY <1>4, <1>5, <1>7, <1>p DEF InLine
<1> QED
  BY <1>4, <1>5, <1>6, <1>7, <1>8 DEF OthersStay

LEMMA RenameApplyKeeps ==
  ASSUME Sound, RenameApply, races' = {}
  PROVE  Inv'
<1> USE DEF Sound
<1>1. PICK f \in Files, l \in Links, from \in Names, to \in Names :
        /\ op.file = f /\ op.link = l /\ op.from = from /\ op.to = to /\ op.pc = "renameApply"
        /\ Linked /\ Moving /\ l # None /\ RenameReleases(f)
        /\ node' = [node EXCEPT ![f] = l] /\ name' = [name EXCEPT ![f] = to]
        /\ ~Landing(f) /\ node[f] \in {None, l}
        /\ Started(f) => rel[f].existing = l
        /\ UNCHANGED <<listing, drive, replaces>>
  <2>1. op.pc = "renameApply" /\ Linked /\ Moving
    BY DEF RenameApply, Linked, Moving
  <2>2. op.file \in Files /\ op.link \in Links /\ op.link # None /\ op.from \in Names /\ op.to \in Names
    BY <2>1, OpFiles DEF LinkOrNone, Inv, RenameInv, RenameShape
  <2>3. ~Landing(op.file) /\ node[op.file] \in {None, op.link}
        /\ (Started(op.file) => rel[op.file].existing = op.link)
    BY DEF RenameApply, Races, LosingRaces
  <2> QED
    BY <2>1, <2>2, <2>3 DEF RenameApply
<1>m. SeatsMoved(f, from, to)
  BY <1>1, MovesSeats
<1>o. OthersStay(f)
  BY <1>1, MovesOthers
<1>n. /\ node'[f] = l /\ name'[f] = to
      /\ \A g \in Files : g # f => node'[g] = node[g] /\ name'[g] = name[g]
  BY <1>1 DEF TypeOK, NodesOK
<1>d. \A k : /\ Trashed(k)' <=> Trashed(k)
             /\ InUse(k)' <=> InUse(k)
             /\ \A n : Named(k, n)' <=> Named(k, n)
  BY <1>1, SameDrive
<1>l. /\ Named(l, to) /\ listing[to] = l /\ ~Trashed(l)
      /\ \A n \in Names : Named(l, n) => n = to
      /\ \A n \in Names : listing[n] = l => n = to
  BY <1>1 DEF Inv, RenameInv, MovedRight, Named, Trashed, DriveInv, ListedRight
<1>r. \A g \in Files : g # f => (Relocating(g)' <=> Relocating(g))
  BY <1>n, <1>o DEF OthersStay, Relocating
<1>g. ~Landing(f)' /\ ~handle'[f].gone /\ (Started(f) => rel'[f] = rel[f] /\ Has(f, l))
  BY <1>1, <1>m, <1>o DEF SeatsMoved, OthersStay, Has, Live
<1>1a. DriveInv'
  <2>1. InUse(None)' /\ InUse(l)
    BY <1>1 DEF InUse, Inv, DriveInv, LinksUsed
  <2> QED
    <3>1. OneActive' /\ ListedRight'
      BY <1>1, <1>d DEF Inv, DriveInv, OneActive, ListedRight
    <3>2. op'.link \in {None, l} /\ \A g \in Files : node'[g] \in {l, node[g]}
      BY <1>1, <1>m, <1>n DEF SeatsMoved
    <3>3. \A g \in Files : rel'[g].existing = rel[g].existing /\ rel'[g].up = rel[g].up
      BY <1>o DEF OthersStay
    <3>4. LinksUsed'
      BY <2>1, <3>2, <3>3, <1>1 DEF InUse, Inv, DriveInv, LinksUsed
    <3> QED
      BY <3>1, <3>4 DEF DriveInv
<1>2. ReleaseShape'
  <2>1. \A g \in Files : g # f => rel'[g] = rel[g]
    BY <1>o DEF OthersStay
  <2>2. \A g \in Files : g # f => ShapeOf(g)'
    BY <2>1, <1>n, <1>o DEF OthersStay, Inv, FileInv, ReleaseShape, ShapeOf
  <2>3. ShapeOf(f)'
    <3>1. CASE Started(f)
      BY <3>1, <1>1, <1>g, <1>n, <1>o, LocalsShape DEF OthersStay, ShapeOf
    <3>2. CASE ~Started(f)
      BY <3>2, <1>1, <1>g, <1>o, LocalsShape DEF OthersStay, ShapeOf, Started, Uploaded, Landing
    <3> QED
      BY <3>1, <3>2
  <2> QED
    BY <2>2, <2>3 DEF ReleaseShape
<1>3. NameShown'
  BY <1>m, <1>n, FileTypes DEF SeatsMoved, Inv, FileInv, NameShown
<1>4. GoneRight' /\ BufferShown' /\ DestGone'
  BY <1>m, <1>o DEF SeatsMoved, OthersStay, Inv, FileInv, GoneRight, BufferShown, DestGone
<1>5. ReplacedGone' /\ ChainGone'
  <2>1. \A h \in Files : /\ Seated(h)' => Seated(h)
                         /\ Seated(h)' /\ Replaced(h) => Replaced(h)' /\ op'.file = f
    BY <1>m DEF SeatsMoved, Replaced
  <2>2. \A g \in Files : rel'[g].chain = rel[g].chain /\ handle'[g].gone = handle[g].gone
                         /\ (HasBuf(g)' <=> HasBuf(g))
    BY <1>o DEF OthersStay
  <2> QED
    BY <2>1, <2>2, <1>1 DEF Inv, FileInv, ReplacedGone, ChainGone
<1>6. GoneStays'
  <2>1. \A g \in Files : Seated(g)' => Seated(g)
    BY <1>m DEF SeatsMoved
  <2> QED
    BY <2>1, <1>g, <1>o, <1>r DEF OthersStay, Inv, FileInv, GoneStays
<1>7. LandsRight'
  <2>1. \A g \in Files : g # f => rel'[g] = rel[g] /\ name'[g] = name[g]
    BY <1>n, <1>o DEF OthersStay
  <2> QED
    BY <2>1, <1>g DEF Landing, Inv, FileInv, LandsRight
<1>8. WorksOnNode'
  <2>1. \A g \in Files : g # f => (Seated(g)' => Seated(g)) /\ node'[g] = node[g]
    BY <1>m, <1>n DEF SeatsMoved
  <2> QED
    BY <2>1, <1>1, <1>n, <1>o DEF OthersStay, Inv, NodeInv, WorksOnNode
<1>9. UploadNamed'
  <2>1. \A g \in Files : Seated(g)' => Seated(g)
    BY <1>m DEF SeatsMoved
  <2> QED
    BY <2>1, <1>d, <1>o DEF OthersStay, Inv, NodeInv, UploadNamed
<1>10. NodeNamed'
  <2> SUFFICES ASSUME NEW g \in Files, Seated(g)', node'[g] # None
               PROVE  \/ Trashed(node'[g])
                      \/ \E n \in Names : Place(g, n)' /\ Named(node'[g], n)
                      \/ Relocating(g)' /\ rel'[g].existing = None /\ rel'[g].up = node'[g]
    BY <1>1 DEF NodeNamed, Trashed, Named
  <2>1. CASE g = f
    BY <2>1, <1>l, <1>m, <1>n DEF SeatsMoved
  <2>2. CASE g # f
    BY <2>2, <1>m, <1>n, <1>o, <1>r DEF SeatsMoved, OthersStay, Inv, NodeInv, NodeNamed
  <2> QED
    BY <2>1, <2>2
<1>11. NodeAlive'
  <2> SUFFICES ASSUME NEW g \in Files, Seated(g)', ~Out(g)', node'[g] # None, Trashed(node'[g])
               PROVE  /\ rel'[g].existing = None /\ (Landing(g)' \/ rel'[g].pc = "patch")
                      /\ rel'[g].up = node'[g] \/ rel'[g].pc = "move"
    BY <1>1 DEF NodeAlive, Trashed
  <2>1. g # f
    BY <1>l, <1>n
  <2>2. Seated(g) /\ ~Out(g) /\ rel'[g] = rel[g]
    BY <2>1, <1>m, <1>o, <1>1 DEF SeatsMoved, OthersStay, Out
  <2> QED
    BY <2>1, <2>2, <1>1, <1>n, <1>o DEF OthersStay, Inv, NodeInv, NodeAlive
<1>12. NodeListed'
  <2> SUFFICES ASSUME NEW g \in Files, NEW n \in Names, Place(g, n)', node'[g] # None, Named(node'[g], n)
               PROVE  listing[n] = node'[g] \/ (rel'[g].up = node'[g] /\ rel'[g].existing = None)
    BY <1>1 DEF NodeListed, Named
  <2>1. CASE g = f
    BY <2>1, <1>l, <1>n
  <2>2. CASE g # f
    BY <2>2, <1>m, <1>n, <1>o DEF SeatsMoved, OthersStay, Inv, NodeInv, NodeListed
  <2> QED
    BY <2>1, <2>2
<1>13. LinkHeld'
  <2> SUFFICES ASSUME NEW g \in Files, NEW k \in Links, NEW n \in Names, Has(g, k), Named(k, n),
                      ~(rel[g].existing = None /\ rel[g].name = n)
               PROVE  listing[n] = k /\ Held(k, n)'
    <3>1. \A g \in Files : /\ rel'[g].existing = rel[g].existing /\ rel'[g].name = rel[g].name
                           /\ \A k : Has(g, k)' <=> Has(g, k)
      BY <1>o DEF OthersStay
    <3> QED
      BY <3>1, <1>1, <1>d DEF LinkHeld
  <2>1. CASE k = l
    <3>1. n = to /\ Place(f, to)' /\ ~Out(f)'
      BY <2>1, <1>l, <1>m DEF SeatsMoved
    <3> QED
      BY <2>1, <3>1, <1>l, <1>n DEF Held
  <2>2. CASE k # l
    <3>1. listing[n] = k /\ Held(k, n) /\ n # to
      BY <2>2, <1>1, <1>l DEF Inv, NodeInv, LinkHeld
    <3>2. PICK h \in Files : /\ Place(h, n) /\ ~Out(h)
                             /\ node[h] = k \/ (Relocating(h) /\ rel[h].up # None)
      BY <3>1 DEF Held
    <3>3. h # f
      <4> SUFFICES ASSUME h = f PROVE FALSE
        OBVIOUS
      <4>1. Relocating(f) /\ rel[f].up # None /\ Started(f)
        BY <2>2, <3>2, <1>1, WriteBufferAssumption DEF Relocating, Started, Links
      <4>2. n = from
        BY <3>1, <3>2, <1>1, WriteBufferAssumption DEF Place, TreeInv, OpFile, OneName
      <4>3. g # f
        BY <4>1, <2>2, <1>1, LocalsShape DEF ShapeOf, Has
      <4> QED
        BY <4>2, <4>3, <1>1 DEF Inv, RenameInv, OthersMake
    <3>4. tree[n] = h /\ tree[to] # h
      BY <3>1, <3>2, <3>3, <1>m, WriteBufferAssumption DEF SeatsMoved, TreeInv, OneName
    <3>5. Seated(h)' /\ ~Out(h)'
      BY <3>3, <3>4, <1>m DEF SeatsMoved, Seated
    <3>6. Place(h, n)'
      BY <3>2, <3>3, <3>5, <1>m DEF SeatsMoved
    <3>7. node'[h] = k \/ (Relocating(h)' /\ rel'[h].up # None)
      BY <3>2, <3>3, <1>n, <1>o, <1>r DEF OthersStay
    <3> QED
      BY <3>1, <3>5, <3>6, <3>7 DEF Held
  <2> QED
    BY <2>1, <2>2
<1>14. RenameInv'
  BY <1>m DEF SeatsMoved, RenameInv, RenameShape, RetargetWaits, PendingOwn, OthersMake, SourceRight,
     MovedRight, MovedOwn, MovedGone, MovedUpload, MovedPending, Linked, Moving
<1>15. SeatFirst'
  <2> SUFFICES ASSUME NEW h \in Files, NEW g \in Files, h # g, Seated(g)', ~Out(g)',
                      Aims(h, node'[g], name'[g])
               PROVE  Aims(g, node'[g], name'[g]) \/ Behind(h, g) \/ Relocating(g)'
    BY <1>o DEF SeatFirst, OthersStay
  <2>1. CASE g # f
    <3>1. Seated(g) /\ ~Out(g) /\ ~Takes(h, g)
      BY <2>1, <1>1, <1>m DEF SeatsMoved, Out, Takes
    <3> QED
      BY <2>1, <3>1, <1>n, <1>r DEF Inv, TurnsInv, SeatFirst
  <2>2. CASE g = f
    <3>1. Has(h, l) /\ ~Takes(h, f) /\ Seated(f) /\ ~Out(f)
      BY <2>2, <1>1, <1>m, <1>n DEF Aims, SeatsMoved, Takes
    <3> SUFFICES ASSUME ~Started(f), ~Behind(h, f) PROVE FALSE
      BY <2>2, <1>1, <1>g, <1>n DEF Aims
    <3>2. ~Relocating(f) /\ ~Aims(f, node[f], name[f])
      BY DEF Started, Relocating, Aims, Has, Makes, Live
    <3>3. ~Aims(h, node[f], name[f])
      BY <2>2, <3>1, <3>2 DEF Inv, TurnsInv, SeatFirst
    <3>4. node[f] = None /\ Makes(h, from)
      BY <2>2, <3>1, <3>3, <1>1 DEF Aims, Inv, RenameInv, MovedPending
    <3>5. name[f] = from
      BY <3>1, <3>4, <1>1, <1>m, FileTypes, WriteBufferAssumption
         DEF SeatsMoved, Inv, FileInv, NameShown, Place, TreeInv, OneName
    <3> QED
      BY <3>3, <3>4, <3>5 DEF Aims
  <2> QED
    BY <2>1, <2>2
<1>16. OneByOne'
  BY <1>o DEF OthersStay, Inv, TurnsInv, OneByOne
<1> QED
  BY <1>1a, <1>2, <1>3, <1>4, <1>5, <1>6, <1>7, <1>8, <1>9, <1>10, <1>11, <1>12, <1>13,
     <1>14, <1>15, <1>16 DEF Inv, FileInv, NodeInv, TurnsInv

\* What a chain leads to from its second file on, it leads to from its first.
LEMMA AfterFirst ==
  ASSUME NEW d \in Files, NEW x, After(replaces[d], x)
  PROVE  After(d, x)
BY WriteBufferAssumption DEF After, Closed

\* The file that is shown under the new name of a rename makes way before the rename ends:
\* what uploads to what it works on goes first, and the file that moves waits for it.
LEMMA DestGoesFirst ==
  ASSUME Sound, op.pc = "retarget", NEW f \in Files, op.file = f, NEW to \in Names, op.to = to,
         NEW d \in Files, tree[to] = d, d # f, replaces[f] = d
  PROVE  /\ Seated(d) /\ ~Out(d) /\ ~Relocating(d) /\ name[d] = to
         /\ Live(d) => Behind(d, f)
         /\ \A h \in Files : h # f /\ h # d /\ Aims(h, node[d], to) => Behind(h, f)
         /\ \A h \in Files : h # f /\ h # d /\ Makes(h, to) /\ Makes(d, to) => Behind(h, f)
<1> USE DEF Sound
<1>1. Seated(d) /\ ~Out(d) /\ Replaced(d) /\ ~Moving
  BY DEF Seated, Out, Replaced, Moving
<1>2. HasBuf(d) => handle[d].gone
  BY <1>1 DEF Inv, FileInv, DestGone
<1>3. ~Relocating(d)
  <2>1. Relocating(d) => handle[d].gone
    BY <1>2, BufferOfRelease DEF Relocating
  <2> QED
    BY <2>1, <1>1 DEF Inv, FileInv, GoneStays
<1>4. name[d] = to
  BY <1>1, FileTypes, WriteBufferAssumption DEF Inv, FileInv, NameShown, Place, TreeInv, OneName
<1>5. Live(d) => Behind(d, f)
  BY <1>2, BufferOfRelease, AfterSelf DEF Live, Started, Behind
<1>6. \A h \in Files : h # f /\ Behind(h, d) => Behind(h, f)
  BY AfterFirst DEF Behind
<1>7. \A h \in Files, l \in LinkOrNone, n \in Names :
        h # f /\ h # d /\ Aims(h, l, n) /\ Aims(d, l, n) => Behind(h, f)
  <2> SUFFICES ASSUME NEW h \in Files, NEW l \in LinkOrNone, NEW n \in Names, h # f, h # d,
                      Aims(h, l, n), Aims(d, l, n)
               PROVE  Behind(h, f)
    OBVIOUS
  <2>1. InLine(h, d) \/ InLine(d, h)
    BY DEF Inv, TurnsInv, OneByOne
  <2>2. ~InLine(d, h)
    BY <1>1 DEF InLine, Behind
  <2> QED
    BY <2>1, <2>2, <1>6 DEF InLine
<1>8. \A h \in Files : h # f /\ h # d /\ Aims(h, node[d], to) => Behind(h, f)
  <2> SUFFICES ASSUME NEW h \in Files, h # f, h # d, Aims(h, node[d], to) PROVE Behind(h, f)
    OBVIOUS
  <2>1. Aims(d, node[d], to) \/ Behind(h, d)
    BY <1>1, <1>3, <1>4 DEF Inv, TurnsInv, SeatFirst, Takes
  <2>2. node[d] \in LinkOrNone
    BY FileTypes
  <2> QED
    BY <2>1, <2>2, <1>6, <1>7
<1>9. \A h \in Files : h # f /\ h # d /\ Makes(h, to) /\ Makes(d, to) => Behind(h, f)
  BY <1>7 DEF Aims, LinkOrNone
<1> QED
  BY <1>1, <1>3, <1>4, <1>5, <1>8, <1>9

\* Nobody uploads to a name that a rename takes, or to the link the listing has there, but
\* for what the file that moves waits for.
LEMMA NameGoesFirst ==
  ASSUME Sound, op.pc = "retarget", NEW f \in Files, op.file = f, NEW to \in Names, op.to = to,
         tree[to] # f, tree[to] # None => replaces[f] = tree[to],
         tree[to] = None => ~Leaving(to),
         listing[to] = None /\ tree[to] # None => node[tree[to]] = None,
         NEW h \in Files, h # f, Aims(h, listing[to], to)
  PROVE  Behind(h, f)
<1> USE DEF Sound
<1>1. ~Moving /\ \A g, n : Place(g, n) <=> tree[n] = g
  BY DEF Moving, Place
<1>2. tree[to] # None => tree[to] \in Files
  BY OpFiles DEF FileOrNone
<1>m. Makes(h, to) => tree[to] # None
  <2> SUFFICES ASSUME Makes(h, to), tree[to] = None PROVE FALSE
    OBVIOUS
  <2>1. name[h] = to /\ ~handle[h].gone /\ Started(h)
    BY DEF Leaving, Makes, Live
  <2>2. tree[to] = h
    BY <2>1, <1>1, ReleasedSeat DEF Started, Inv, FileInv, NameShown
  <2> QED
    BY <2>2, WriteBufferAssumption
<1>3. CASE listing[to] = None
  <2>1. Makes(h, to) /\ tree[to] \in Files
    BY <1>2, <1>3, <1>m DEF Aims
  <2>2. PICK d \in Files : tree[to] = d
    BY <2>1
  <2>3. Aims(h, node[d], to)
    BY <2>1, <2>2, <1>3, WriteBufferAssumption DEF Aims
  <2>4. Live(h)
    BY <2>1 DEF Makes
  <2>5. d # f /\ replaces[f] = d
    BY <2>2, WriteBufferAssumption
  <2> QED
    BY <2>2, <2>3, <2>4, <2>5, DestGoesFirst
<1>4. CASE listing[to] # None
  <2>1. PICK e \in Links : listing[to] = e /\ Named(e, to) /\ Has(h, e)
    BY <1>4, OpFiles, WriteBufferAssumption DEF LinkOrNone, Aims, Inv, DriveInv, ListedRight
  <2>l. Live(h) /\ e # None
    BY <2>1, <1>4 DEF Has
  <2>2. Makes(h, to) \/ Held(e, to)
    BY <2>1, <1>1 DEF Inv, NodeInv, LinkHeld, Has, Makes
  <2>3. tree[to] \in Files
    BY <2>2, <1>1, <1>2, <1>m DEF Held
  <2>4. PICK d \in Files : tree[to] = d
    BY <2>3
  <2>5. d # f /\ replaces[f] = d
    BY <2>4, WriteBufferAssumption
  <2>6. /\ Seated(d) /\ ~Out(d) /\ ~Relocating(d) /\ name[d] = to
        /\ Live(d) => Behind(d, f)
        /\ h # d /\ Aims(h, node[d], to) => Behind(h, f)
        /\ h # d /\ Makes(h, to) /\ Makes(d, to) => Behind(h, f)
    BY <2>4, <2>5, DestGoesFirst
  <2>7. CASE h = d
    BY <2>7, <2>l, <2>6
  <2>8. CASE h # d /\ node[d] = e
    BY <2>1, <2>l, <2>6, <2>8 DEF Aims
  <2>9. CASE h # d /\ node[d] # e
    <3>1. Makes(h, to)
      <4>1. ~Held(e, to)
        BY <2>4, <2>6, <2>9, <1>1 DEF Held
      <4> QED
        BY <2>2, <4>1
    <3>2. CASE node[d] = None
      BY <3>1, <3>2, <2>6, <2>9 DEF Aims
    <3>3. CASE node[d] # None
      <4>1. node[d] \in Links
        BY <3>3, FileTypes DEF LinkOrNone
      <4>2. ~Named(node[d], to)
        BY <4>1, <2>1, <2>9 DEF Inv, DriveInv, OneActive
      <4>3. \A n \in Names : Place(d, n) => n = to
        BY <2>4, <1>1, WriteBufferAssumption DEF TreeInv, OneName
      <4>4. Trashed(node[d])
        BY <3>3, <4>2, <4>3, <2>6 DEF Inv, NodeInv, NodeNamed
      <4>5. rel[d].existing = None /\ (Landing(d) \/ rel[d].pc = "patch")
        BY <3>3, <4>4, <2>6 DEF Inv, NodeInv, NodeAlive
      <4>6. rel[d].name = to /\ HoldsMu(d) /\ Started(d)
        BY <4>5, <2>6 DEF Landing, Relocating, HoldsMu, Started, RelSteps, Inv, FileInv, LandsRight
      <4>7. Makes(d, to)
        BY <4>5, <4>6 DEF Makes, Live
      <4> QED
        BY <3>1, <4>7, <2>6, <2>9
    <3> QED
      BY <3>2, <3>3
  <2> QED
    BY <2>7, <2>8, <2>9
<1> QED
  BY <1>3, <1>4

LEMMA RetargetKeeps ==
  ASSUME Sound, Retarget, races' = {}
  PROVE  Inv'
<1> USE DEF Sound
<1>1. PICK f \in Files, from \in Names, to \in Names :
        /\ op.file = f /\ op.from = from /\ op.to = to /\ op.pc = "retarget"
        /\ RenameReleases(f)
        /\ node' = [node EXCEPT ![f] = IF listing[to] = None THEN node[f] ELSE listing[to]]
        /\ name' = [name EXCEPT ![f] = to]
        /\ ~Landing(f)
        /\ node[f] # None =>
             rel[f].pc = "patch" /\ rel[f].existing = None /\ listing[to] = None
        /\ ~HasBuf(f) \/ rel[f].pc = "patch" => tree[to] \in {None, f, replaces[f]}
        /\ listing[to] = None /\ tree[to] \notin {None, f} => node[tree[to]] = None
        /\ tree[to] = None => ~Leaving(to)
        /\ UNCHANGED <<listing, drive, replaces>>
  <2>1. op.pc = "retarget" /\ op.file \in Files /\ op.from \in Names /\ op.to \in Names
    BY OpFiles DEF Retarget
  <2>2. /\ ~Landing(op.file)
        /\ node[op.file] # None =>
             rel[op.file].pc = "patch" /\ rel[op.file].existing = None /\ listing[op.to] = None
        /\ ~HasBuf(op.file) \/ rel[op.file].pc = "patch" =>
             tree[op.to] \in {None, op.file, replaces[op.file]}
        /\ listing[op.to] = None /\ tree[op.to] \notin {None, op.file} => node[tree[op.to]] = None
        /\ tree[op.to] = None => ~Leaving(op.to)
    BY DEF Retarget, Races, LosingRaces
  <2>3. /\ RenameReleases(op.file)
        /\ node' = [node EXCEPT ![op.file] =
                     IF listing[op.to] = None THEN node[op.file] ELSE listing[op.to]]
        /\ name' = [name EXCEPT ![op.file] = op.to]
        /\ UNCHANGED <<listing, drive, replaces>>
    BY DEF Retarget, TypeOK, NodesOK
  <2> QED
    BY <2>1, <2>2, <2>3
<1>m. SeatsMoved(f, from, to)
  BY <1>1, MovesSeats
<1>o. OthersStay(f)
  BY <1>1, MovesOthers
<1>n. /\ node'[f] = (IF listing[to] = None THEN node[f] ELSE listing[to]) /\ name'[f] = to
      /\ \A g \in Files : g # f => node'[g] = node[g] /\ name'[g] = name[g]
  BY <1>1 DEF TypeOK, NodesOK
<1>d. \A k : /\ Trashed(k)' <=> Trashed(k)
             /\ InUse(k)' <=> InUse(k)
             /\ \A n : Named(k, n)' <=> Named(k, n)
  BY <1>1, SameDrive
<1>t. /\ ~Moving /\ ~Linked
      /\ \A g : /\ ~Out(g)
                /\ \A n : Place(g, n) <=> tree[n] = g
                /\ \A h : Takes(h, g) => h = f /\ tree[to] = g
  BY <1>1 DEF Moving, Linked, Out, Place, Takes
<1>l. /\ listing[to] # None => listing[to] \in Links /\ Named(listing[to], to) /\ ~Trashed(listing[to])
      /\ \A n \in Names : tree[n] = f => n = from
  BY <1>1, <1>m, OpFiles, WriteBufferAssumption
     DEF SeatsMoved, TreeInv, OneName, LinkOrNone, Inv, DriveInv, ListedRight, Named, Trashed
<1>e. Started(f) => rel[f].existing = None
  <2>1. Started(f) /\ rel[f].existing # None => node[f] # None
    BY <1>m DEF SeatsMoved, Inv, NodeInv, WorksOnNode
  <2> QED
    BY <2>1, <1>1
<1>r. \A g \in Files : g # f => (Relocating(g)' <=> Relocating(g))
  BY <1>n, <1>o DEF OthersStay, Relocating
<1>g. /\ ~Landing(f)' /\ ~handle'[f].gone
      /\ Started(f) => /\ rel'[f] = rel[f] /\ Live(f)
                       /\ \A l : l # None /\ rel[f].up = l => Has(f, l)
  BY <1>1, <1>m, <1>o DEF SeatsMoved, OthersStay, Has, Live
\* A rename of a file that its Release is about to update: what it uploaded is the file's.
<1>u. node[f] # None =>
        /\ rel[f].pc = "patch" /\ Started(f) /\ rel[f].existing = None /\ listing[to] = None
        /\ Trashed(node[f]) \/ Relocating(f)' \/ Named(node[f], to)
        /\ ~Named(node[f], from) \/ Relocating(f)'
        /\ rel[f].up = node[f]
  <2> SUFFICES ASSUME node[f] # None
               PROVE  /\ rel[f].pc = "patch" /\ Started(f) /\ rel[f].existing = None /\ listing[to] = None
                      /\ Trashed(node[f]) \/ Relocating(f)' \/ Named(node[f], to)
                      /\ ~Named(node[f], from) \/ Relocating(f)'
                      /\ rel[f].up = node[f]
    OBVIOUS
  <2>1. rel[f].pc = "patch" /\ Started(f) /\ rel[f].existing = None /\ listing[to] = None
    BY <1>1 DEF Started
  <2>2. \/ Trashed(node[f])
        \/ Named(node[f], from)
        \/ rel[f].up = node[f]
    BY <1>l, <1>m, <1>t DEF SeatsMoved, Inv, NodeInv, NodeNamed
  <2>3. Trashed(node[f]) => rel[f].up = node[f]
    BY <2>1, <1>1, <1>m, <1>t DEF SeatsMoved, Inv, NodeInv, NodeAlive
  <2>4. Named(node[f], from) => rel[f].up = node[f]
    BY <2>1, <1>1 DEF Inv, RenameInv, PendingOwn
  <2>5. rel[f].up = node[f]
    BY <2>2, <2>3, <2>4
  <2>6. Trashed(node[f]) \/ Named(node[f], rel[f].name)
    BY <2>1, <2>5, <1>m DEF SeatsMoved, Inv, NodeInv, UploadNamed
  <2>7. rel[f].name # to => Relocating(f)'
    BY <2>1, <1>g, <1>n DEF Relocating
  <2> QED
    BY <2>1, <2>5, <2>6, <2>7, <1>m DEF SeatsMoved, Named, Trashed
<1>1a. DriveInv'
  <2>1. InUse(None)' /\ InUse(listing[to])
    BY <1>l DEF InUse, Named
  <2> QED
    <3>1. OneActive' /\ ListedRight'
      BY <1>1, <1>d DEF Inv, DriveInv, OneActive, ListedRight
    <3>2. op'.link \in {None, op.link} /\ \A g \in Files : node'[g] \in {listing[to], node[g]}
      BY <1>m, <1>n DEF SeatsMoved
    <3>3. \A g \in Files : rel'[g].existing = rel[g].existing /\ rel'[g].up = rel[g].up
      BY <1>o DEF OthersStay
    <3>4. LinksUsed'
      BY <2>1, <3>2, <3>3, <1>1 DEF InUse, Inv, DriveInv, LinksUsed
    <3> QED
      BY <3>1, <3>4 DEF DriveInv
<1>2. ReleaseShape'
  <2>1. \A g \in Files : g # f => rel'[g] = rel[g]
    BY <1>o DEF OthersStay
  <2>2. \A g \in Files : g # f => ShapeOf(g)'
    BY <2>1, <1>n, <1>o DEF OthersStay, Inv, FileInv, ReleaseShape, ShapeOf
  <2>3. ShapeOf(f)'
    <3>1. CASE Started(f)
      BY <3>1, <1>1, <1>g, <1>n, <1>o, LocalsShape DEF OthersStay, ShapeOf
    <3>2. CASE ~Started(f)
      BY <3>2, <1>1, <1>g, <1>o, LocalsShape DEF OthersStay, ShapeOf, Started, Uploaded, Landing
    <3> QED
      BY <3>1, <3>2
  <2> QED
    BY <2>2, <2>3 DEF ReleaseShape
<1>3. NameShown'
  BY <1>m, <1>n, FileTypes DEF SeatsMoved, Inv, FileInv, NameShown
<1>4. GoneRight' /\ BufferShown' /\ DestGone'
  BY <1>m, <1>o DEF SeatsMoved, OthersStay, Inv, FileInv, GoneRight, BufferShown, DestGone
<1>5. ReplacedGone' /\ ChainGone'
  <2>1. \A h \in Files : /\ Seated(h)' => Seated(h)
                         /\ Seated(h)' /\ Replaced(h) => Replaced(h)' /\ op'.file = f
    BY <1>m DEF SeatsMoved, Replaced
  <2>2. \A g \in Files : rel'[g].chain = rel[g].chain /\ handle'[g].gone = handle[g].gone
                         /\ (HasBuf(g)' <=> HasBuf(g))
    BY <1>o DEF OthersStay
  <2> QED
    BY <2>1, <2>2, <1>1 DEF Inv, FileInv, ReplacedGone, ChainGone
<1>6. GoneStays'
  <2>1. \A g \in Files : Seated(g)' => Seated(g)
    BY <1>m DEF SeatsMoved
  <2> QED
    BY <2>1, <1>g, <1>o, <1>r DEF OthersStay, Inv, FileInv, GoneStays
<1>7. LandsRight'
  <2>1. \A g \in Files : g # f => rel'[g] = rel[g] /\ name'[g] = name[g]
    BY <1>n, <1>o DEF OthersStay
  <2> QED
    BY <2>1, <1>g DEF Landing, Inv, FileInv, LandsRight
<1>8. WorksOnNode'
  <2>1. \A g \in Files : g # f => (Seated(g)' => Seated(g)) /\ node'[g] = node[g]
    BY <1>m, <1>n DEF SeatsMoved
  <2> QED
    BY <2>1, <1>e, <1>o DEF OthersStay, Inv, NodeInv, WorksOnNode
<1>9. UploadNamed'
  <2>1. \A g \in Files : Seated(g)' => Seated(g)
    BY <1>m DEF SeatsMoved
  <2> QED
    BY <2>1, <1>d, <1>o DEF OthersStay, Inv, NodeInv, UploadNamed
<1>10. NodeNamed'
  <2> SUFFICES ASSUME NEW g \in Files, Seated(g)', node'[g] # None
               PROVE  \/ Trashed(node'[g])
                      \/ \E n \in Names : Place(g, n)' /\ Named(node'[g], n)
                      \/ Relocating(g)' /\ rel'[g].existing = None /\ rel'[g].up = node'[g]
    BY <1>1 DEF NodeNamed, Trashed, Named
  <2>1. CASE g = f
    <3>1. CASE listing[to] # None
      BY <2>1, <3>1, <1>l, <1>m, <1>n DEF SeatsMoved
    <3>2. CASE listing[to] = None
      BY <2>1, <3>2, <1>g, <1>m, <1>n, <1>u DEF SeatsMoved
    <3> QED
      BY <3>1, <3>2
  <2>2. CASE g # f
    BY <2>2, <1>m, <1>n, <1>o, <1>r DEF SeatsMoved, OthersStay, Inv, NodeInv, NodeNamed
  <2> QED
    BY <2>1, <2>2
<1>11. NodeAlive'
  <2> SUFFICES ASSUME NEW g \in Files, Seated(g)', ~Out(g)', node'[g] # None, Trashed(node'[g])
               PROVE  /\ rel'[g].existing = None /\ (Landing(g)' \/ rel'[g].pc = "patch")
                      /\ rel'[g].up = node'[g] \/ rel'[g].pc = "move"
    BY <1>1 DEF NodeAlive, Trashed
  <2>1. CASE g = f
    BY <2>1, <1>g, <1>l, <1>n, <1>u
  <2>2. CASE g # f
    <3>1. Seated(g) /\ ~Out(g) /\ rel'[g] = rel[g]
      BY <2>2, <1>m, <1>o, <1>1 DEF SeatsMoved, OthersStay, Out
    <3> QED
      BY <2>2, <3>1, <1>1, <1>n, <1>o DEF OthersStay, Inv, NodeInv, NodeAlive
  <2> QED
    BY <2>1, <2>2
<1>12. NodeListed'
  <2> SUFFICES ASSUME NEW g \in Files, NEW n \in Names, Place(g, n)', node'[g] # None, Named(node'[g], n)
               PROVE  listing[n] = node'[g] \/ (rel'[g].up = node'[g] /\ rel'[g].existing = None)
    BY <1>1 DEF NodeListed, Named
  <2>1. CASE g = f
    <3>1. n = to
      BY <2>1, <1>m DEF SeatsMoved
    <3>2. listing[to] = None => rel'[f] = rel[f] /\ rel[f].up = node'[f] /\ rel[f].existing = None
      BY <2>1, <1>g, <1>n, <1>u
    <3> QED
      BY <2>1, <3>1, <3>2, <1>n
  <2>2. CASE g # f
    BY <2>2, <1>m, <1>n, <1>o DEF SeatsMoved, OthersStay, Inv, NodeInv, NodeListed
  <2> QED
    BY <2>1, <2>2
<1>13. LinkHeld'
  <2> SUFFICES ASSUME NEW g \in Files, NEW k \in Links, NEW n \in Names, Has(g, k), Named(k, n),
                      ~(rel[g].existing = None /\ rel[g].name = n)
               PROVE  listing[n] = k /\ Held(k, n)'
    <3>1. \A g \in Files : /\ rel'[g].existing = rel[g].existing /\ rel'[g].name = rel[g].name
                           /\ \A k : Has(g, k)' <=> Has(g, k)
      BY <1>o DEF OthersStay
    <3> QED
      BY ZenonT(30), <3>1, <1>1, <1>d DEF LinkHeld
  <2>1. listing[n] = k /\ Held(k, n) /\ k # None
    BY <1>t, WriteBufferAssumption DEF Inv, NodeInv, LinkHeld, Links
  <2>2. CASE n = to
    <3>1. Place(f, to)' /\ ~Out(f)' /\ node'[f] = k
      BY <2>1, <2>2, <1>m, <1>n DEF SeatsMoved
    <3> QED
      BY <2>2, <2>1, <3>1 DEF Held
  <2>3. CASE n # to
    <3>2. PICK h \in Files : tree[n] = h /\ (node[h] = k \/ (Relocating(h) /\ rel[h].up # None))
      BY <2>1, <1>t DEF Held
    <3>3. h # f
      <4> SUFFICES ASSUME h = f PROVE FALSE
        OBVIOUS
      <4>1. n = from
        BY <3>2, <1>l
      <4>2. g = f
        BY <4>1, <1>1 DEF Inv, RenameInv, OthersMake
      <4>3. Started(f) /\ rel[f].existing = None /\ rel[f].up = k
        BY <4>2, <2>1, <1>e DEF Has, Live
      <4>4. Trashed(k) \/ Named(k, rel[f].name)
        BY <4>3, <2>1, <1>m DEF SeatsMoved, Inv, NodeInv, UploadNamed
      <4> QED
        BY <4>2, <4>3, <4>4 DEF Named, Trashed
    <3>4. tree[to] # h /\ Seated(h)
      BY <2>3, <3>2, <3>3, WriteBufferAssumption DEF Seated, TreeInv, OneName
    <3>5. Place(h, n)' /\ ~Out(h)'
      BY <3>2, <3>3, <3>4, <1>m DEF SeatsMoved
    <3>7. node'[h] = k \/ (Relocating(h)' /\ rel'[h].up # None)
      BY <3>2, <3>3, <1>n, <1>o, <1>r DEF OthersStay
    <3> QED
      BY <2>1, <3>5, <3>7 DEF Held
  <2> QED
    BY <2>2, <2>3
<1>14. RenameInv'
  BY <1>m DEF SeatsMoved, RenameInv, RenameShape, RetargetWaits, PendingOwn, OthersMake, SourceRight,
     MovedRight, MovedOwn, MovedGone, MovedUpload, MovedPending, Linked, Moving
<1>15. SeatFirst'
  <2> SUFFICES ASSUME NEW h \in Files, NEW g \in Files, h # g, Seated(g)', ~Out(g)',
                      Aims(h, node'[g], name'[g])
               PROVE  Aims(g, node'[g], name'[g]) \/ Behind(h, g) \/ Relocating(g)'
    BY <1>o DEF SeatFirst, OthersStay
  <2>1. CASE g # f
    <3>1. Seated(g) /\ ~Out(g) /\ ~Takes(h, g)
      BY <2>1, <1>m, <1>t DEF SeatsMoved
    <3> QED
      BY <2>1, <3>1, <1>n, <1>r DEF Inv, TurnsInv, SeatFirst
  <2>2. CASE g = f /\ node'[f] = listing[to]
    <3>1. tree[to] # f /\ (tree[to] # None => replaces[f] = tree[to])
      BY <1>1, <1>m DEF SeatsMoved, Inv, RenameInv, RetargetWaits
    <3>2. Aims(h, listing[to], to)
      BY <2>2, <1>n
    <3>3. Behind(h, f)
      BY <2>2, <3>1, <3>2, <1>1, NameGoesFirst
    <3> QED
      BY <2>2, <3>3
  <2>3. CASE g = f /\ node'[f] # listing[to]
    <3>1. node[f] # None /\ node'[f] = node[f]
      BY <2>3, <1>n
    <3>2. Has(f, node[f])
      BY <3>1, <1>g, <1>u
    <3> QED
      BY <2>3, <3>1, <3>2 DEF Aims
  <2> QED
    BY <2>1, <2>2, <2>3
<1>16. OneByOne'
  BY <1>o DEF OthersStay, Inv, TurnsInv, OneByOne
<1> QED
  BY <1>1a, <1>2, <1>3, <1>4, <1>5, <1>6, <1>7, <1>8, <1>9, <1>10, <1>11, <1>12, <1>13,
     <1>14, <1>15, <1>16 DEF Inv, FileInv, NodeInv, TurnsInv

(***************************************************************************)
(* Every step.                                                              *)
(***************************************************************************)

\* No buffer, no Release and no node, as when the daemon has just been mounted or is gone.
Blank ==
  /\ OneActive /\ ListedRight /\ op = NoOp
  /\ \A n \in Names : tree[n] = None
  /\ \A f \in Files : /\ node[f] = None /\ replaces[f] = None
                      /\ handle[f] = NoHandle /\ rel[f] = NoRelease

LEMMA BlankInv == Blank => Inv
<1> SUFFICES ASSUME Blank PROVE Inv
  OBVIOUS
<1>o. op.pc = "idle" /\ op.link = None
  BY DEF Blank, NoOp
<1>i. ~Linked /\ ~Moving /\ \A g : ~Replaced(g) /\ ~Out(g)
  BY <1>o DEF Linked, Moving, Replaced, Out
<1>s. \A g \in Files : ~Seated(g)
  BY WriteBufferAssumption DEF Blank, Seated
<1>p. \A g \in Files, n \in Names : ~Place(g, n)
  BY <1>i, <1>o, <1>s DEF Place, Seated
<1>f. \A g \in Files : /\ ~HasBuf(g) /\ ~handle[g].gone
                       /\ rel[g].pc = "idle" /\ rel[g].existing = None /\ rel[g].up = None
                       /\ rel[g].chain = None
  BY DEF Blank, NoHandle, NoRelease, HasBuf
<1>n. \A g \in Files : node[g] = None /\ replaces[g] = None
  BY DEF Blank
<1>l. \A g \in Files : /\ ~Started(g) /\ ~Landing(g)
                       /\ \A k : ~Has(g, k)
                       /\ \A k, n : ~Aims(g, k, n)
  BY <1>f DEF Started, Landing, Live, Has, Makes, Aims
<1>1. DriveInv
  BY <1>f, <1>n, <1>o DEF Blank, DriveInv, LinksUsed, InUse
<1>2. ReleaseShape
  BY <1>f, <1>l DEF ReleaseShape, ShapeOf, Uploaded
<1>3. FileInv
  BY <1>2, <1>f, <1>i, <1>l, <1>n, <1>s, WriteBufferAssumption
     DEF FileInv, NameShown, GoneRight, BufferShown, DestGone, ReplacedGone, ChainGone, GoneStays, LandsRight
<1>4. NodeInv
  BY <1>f, <1>l, <1>n, <1>p, <1>s
     DEF NodeInv, WorksOnNode, UploadNamed, NodeNamed, NodeAlive, NodeListed, LinkHeld
<1>5. RenameInv
  BY <1>i, <1>o DEF RenameInv, RenameShape, RetargetWaits, PendingOwn, OthersMake, SourceRight,
     MovedRight, MovedOwn, MovedGone, MovedUpload, MovedPending
<1>6. TurnsInv
  BY <1>l DEF TurnsInv, SeatFirst, OneByOne
<1> QED
  BY <1>1, <1>3, <1>4, <1>5, <1>6 DEF Inv

LEMMA BlankAfter == Blank' => Inv'
BY BlankInv, PTL

LEMMA ExitKeeps == ASSUME Sound, NEW r, Exit(r) PROVE Inv'
<1>1. OneActive' /\ ListedRight'
  <2>1. drive' = drive /\ \A n \in Names : listing'[n] = None
    BY DEF Exit
  <2> QED
    BY <2>1 DEF Sound, Inv, DriveInv, OneActive, ListedRight, Named
<1>2. Blank'
  BY <1>1 DEF Exit, Blank
<1> QED
  BY <1>2, BlankAfter

LEMMA ReleaseStepTurns ==
  ASSUME Sound, NEW f \in Files, ReleaseStep(f), races' = {}
  PROVE  Inv'
<1>s. Proceeds(f) /\ Still => Inv'
  BY ProceedsKeeps DEF Still
<1>1. CASE ReadRelease(f)
  BY <1>1, ReadReleaseDrops, ReadReleaseKeeps
<1>2. CASE Decide(f)
  BY <1>2, <1>s, DecideProceeds, DecideParks
<1>3. CASE AwaitReplaced(f)
  BY <1>3, <1>s, AwaitReplacedProceeds
<1>4. CASE LockUpload(f)
  BY <1>4, <1>s, LockUploadProceeds, LockUploadDrops
<1>5. CASE AcquireSlot(f)
  BY <1>5, <1>s, AcquireSlotProceeds
<1>6. CASE QueueCancelled(f)
  BY <1>6, QueueCancelledKeeps
<1>7. CASE UploadSucceeds(f)
  BY <1>7, UploadSucceedsKeeps
<1>8. CASE UploadLate(f)
  BY <1>8, UploadLateKeeps
<1>9. CASE UploadFails(f)
  BY <1>9, UploadFailsKeeps
<1>10. CASE Claim(f)
  BY <1>10, <1>s, ClaimProceeds, ClaimDrops, ClaimKeeps
<1>11. CASE TrashGone(f)
  BY <1>11, TrashGoneKeeps
<1>12. CASE Patch(f)
  BY <1>12, <1>s, PatchProceeds, PatchDrops
<1>13. CASE Publish(f)
  BY <1>13, PublishKeeps
<1>14. CASE ReleaseMoveTrash(f)
  BY <1>14, ReleaseMoveTrashKeeps
<1>15. CASE ReleaseMove(f)
  BY <1>15, ReleaseMoveKeeps
<1> QED
  BY <1>1, <1>2, <1>3, <1>4, <1>5, <1>6, <1>7, <1>8, <1>9, <1>10, <1>11, <1>12, <1>13,
     <1>14, <1>15 DEF ReleaseStep

LEMMA DirStepTurns ==
  ASSUME Sound, DirStep, races' = {}
  PROVE  Inv'
BY UnlinkPendingKeeps, UnlinkTrashKeeps, RenamePendingKeeps, RetargetKeeps, RenameTrashKeeps,
   RenameMoveKeeps, RenameReplaceKeeps, RenameApplyKeeps DEF DirStep

LEMMA UserStepTurns ==
  ASSUME Sound, UserStep, races' = {}
  PROVE  Inv'
BY LookupKeeps, CreateKeeps, OpenKeeps, UnlinkKeeps, RenameKeeps, WriteKeeps, CloseKeeps DEF UserStep

LEMMA UnmountStepTurns ==
  ASSUME Sound, UnmountStep
  PROVE  Inv'
<1>1. CASE BeginFlush \/ PassDone \/ FlushDeadline
  BY <1>1, StandsKeeps DEF BeginFlush, PassDone, FlushDeadline, treeVars, nodeVars
<1>2. CASE AbandonKept
  BY <1>2, AbandonKeptKeeps
<1>3. CASE Detach \/ ExternalUnmount \/ Kill
  BY <1>3, ExitKeeps DEF Detach, ExternalUnmount, Kill
<1>4. ASSUME NEW f \in Files, FlushSettle(f) PROVE Inv'
  <2>1. CASE handle[f].phase = "waiting"
    BY <1>4, <2>1, SettleKeeps DEF FlushSettle
  <2>2. CASE handle[f].phase # "waiting"
    BY <1>4, <2>2, StandsKeeps DEF FlushSettle, treeVars, nodeVars
  <2> QED
    BY <2>1, <2>2
<1> QED
  BY <1>1, <1>2, <1>3, <1>4 DEF UnmountStep

LEMMA NextTurns == ASSUME Sound, [Next]_vars, races' = {} PROVE Inv'
<1>1. ASSUME NEW f \in Files, ReleaseStep(f) PROVE Inv'
  BY <1>1, ReleaseStepTurns
<1>2. ASSUME NEW f \in Files, TimerFires(f) PROVE Inv'
  BY <1>2, SettleKeeps DEF TimerFires
<1>3. CASE DirStep
  BY <1>3, DirStepTurns
<1>4. CASE UserStep
  BY <1>4, UserStepTurns
<1>5. CASE Refresh
  BY <1>5, StandsKeeps DEF Refresh, nodeVars
<1>6. CASE UnmountStep
  BY <1>6, UnmountStepTurns
<1>7. CASE Terminated \/ UNCHANGED vars
  BY <1>7, StandsKeeps DEF Terminated, vars, treeVars, nodeVars
<1> QED
  BY <1>1, <1>2, <1>3, <1>4, <1>5, <1>6, <1>7 DEF Next, MountedNext

LEMMA InitTurns == Init => Inv
<1> SUFFICES ASSUME Init PROVE Inv
  OBVIOUS
<1>1. \A l \in Links, n \in Names : Named(l, n) => l = 1
  BY DEF Init, Named, NoLink
<1>2. Named(1, InitialName)
  BY WriteBufferAssumption DEF Init, Named, Links
<1>3. OneActive
  BY <1>1 DEF OneActive
<1>4. ListedRight
  BY <1>2 DEF Init, ListedRight
<1>5. Blank
  BY <1>3, <1>4 DEF Init, Blank
<1> QED
  BY <1>5, BlankInv

(***************************************************************************)
(* Uploads take turns.                                                      *)
(***************************************************************************)

\* The invariant of a run in which none of the known races has happened.
TurnsHold == races = {} => Inv

LEMMA AlwaysTurns == Spec => []TurnsHold
<1>1. Init => TurnsHold
  BY InitTurns DEF TurnsHold
<1>2. TypeOK /\ OwnedByRelease /\ TreeInv /\ TurnsHold /\ [Next]_vars => TurnsHold'
  <2> SUFFICES ASSUME TypeOK, OwnedByRelease, TreeInv, TurnsHold, [Next]_vars, races' = {}
               PROVE  Inv'
    BY DEF TurnsHold
  <2>1. races = {}
    BY RacesStay
  <2>2. Sound
    BY <2>1 DEF Sound, TurnsHold
  <2> QED
    BY <2>2, NextTurns
<1> QED
  BY <1>1, <1>2, TypeCorrect, OneOwner, NamesHold, PTL DEF Spec

\* Two uploads never run at once for one link, or to create one name, whatever the
\* interleaving of Releases, renames, deletes and refreshes, as long as none of the known
\* races has happened.  About uploadMu, awaitReplaced and the gone checks on either side
\* of it.
THEOREM UploadsTakeTurns == Spec => []OneUploadPerTarget
<1>1. TypeOK /\ OwnedByRelease /\ TreeInv /\ TurnsHold => OneUploadPerTarget
  <2> SUFFICES ASSUME TypeOK, OwnedByRelease, TreeInv, TurnsHold, races = {},
                      NEW f \in Files, NEW g \in Files, rel[f].pc = "upload", rel[g].pc = "upload",
                      SameTarget(f, g), f # g
               PROVE  FALSE
    BY DEF OneUploadPerTarget, Uploading
  <2>1. Inv
    BY DEF TurnsHold
  <2>2. rel[f].existing \in LinkOrNone /\ rel[f].name \in Names
    BY FileTypes DEF Releases
  <2>3. Live(f) /\ Live(g)
    BY DEF Live, Started, HoldsMu, RelSteps
  <2>4. /\ Aims(f, rel[f].existing, rel[f].name)
        /\ Aims(g, rel[f].existing, rel[f].name)
    BY <2>3 DEF SameTarget, Aims, Has, Makes
  <2>5. InLine(f, g) \/ InLine(g, f)
    BY <2>1, <2>2, <2>4 DEF Inv, TurnsInv, OneByOne
  <2> QED
    BY <2>5 DEF InLine
<1> QED
  BY <1>1, AlwaysTurns, TypeCorrect, OneOwner, NamesHold, PTL
=============================================================================
