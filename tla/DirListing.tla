----------------------------- MODULE DirListing -----------------------------
(***************************************************************************)
(* The listings of folders that internal/fusefs keeps: fetched from Proton *)
(* by one goroutine at a time per folder, patched by the handlers of this  *)
(* mount, expired by the events that internal/drive polls, and persisted   *)
(* for the next cold start.                                                *)
(*                                                                         *)
(* A dirNode is a kernel inode of a folder; the kernel may forget it and   *)
(* look the folder up again, which makes another one, while a fetch of the *)
(* first is still running.  An entry of a listing is the link it stands    *)
(* for; what differs between two versions of an entry is left out.         *)
(*                                                                         *)
(* The processes are the event loop, the fetches (finishLoad runs detached *)
(* from whoever asked for it), the kernel, and one handler that changes    *)
(* the drive.  Other clients change the drive at any time.                 *)
(***************************************************************************)
EXTENDS Integers, Sequences, FiniteSets, FiniteSetsExt

CONSTANTS
  Folders,    \* folders of the drive
  Root,       \* the one that is mounted, whose dirNode is never forgotten
  Links,      \* entries that come, go and move between the folders
  Lives,      \* a folder's dirNodes, told apart
  Fetches,    \* bound: fetches running at once
  MaxChanges, \* bound: changes of the drive, each with an event
  Initial,    \* the folder of each link at the start, or None
  Persisted,  \* what earlier mounts persisted of each folder, or None
  None

RootNode == <<Root, None>>
DirNodes == {RootNode} \cup (Folders \ {Root}) \X Lives
FolderOf(n) == n[1]

ASSUME DirListingAssumption ==
  /\ Root \in Folders /\ Lives # {} /\ Fetches # {} /\ MaxChanges \in Nat
  /\ None \notin Folders \cup DirNodes \cup Nat /\ \A S \in SUBSET Links : S # None
  /\ Initial \in [Links -> Folders \cup {None}]
  /\ Persisted \in [Folders -> {None} \cup SUBSET Links]

VARIABLES
  drive,    \* the folder that holds each link on Proton Drive
  log,      \* the volume's events, oldest first
  last,     \* Events: the event seen last, None while it is not known
  poll,     \* the event being handled, and the folders it has still to invalidate
  dirs,     \* mountState.dirs: the dirNode registered for each folder
  dir,      \* the fields of each dirNode, and where it is in its life
  fetch,    \* the finishLoad goroutines
  parentOf, \* mountState.parentOf
  disk,     \* the listing persisted for each folder
  op,       \* the handler that changes the drive, between its request and its patches
  told,     \* history: the last event handled for each link
  own,      \* history: the folders the last change of a link was patched into, when it was ours
  races     \* history: the known races the run went through

listingVars == <<drive, log, last, poll, dirs, dir, fetch, parentOf, disk, op, told, own, races>>

-----------------------------------------------------------------------------
NoDirNode == [st |-> "none", children |-> None, fresh |-> FALSE, gen |-> 0, loading |-> FALSE,
              persisted |-> 0, timer |-> FALSE]
NoFetch == [pc |-> "idle", node |-> None, gen |-> 0, result |-> {}]
NoPoll  == [pc |-> "idle", todo |-> {}]
NoPatch == [pc |-> "idle", link |-> None, from |-> None, to |-> None, ev |-> 0]

ListingRaces == {"expiredInFlight", "droppedFetch", "failedRefresh", "parentOverwritten",
                 "unknownParent", "reorderedPersist", "outlivedPersist",
                 "discardedWrite", "latePatch", "missedEvent"}

Live(n) == dir[n].st = "live"
Listed(n) == dir[n].children # None

\* serveFromDiskCache: nothing listed, and no fetch running.
Cold(n) == ~Listed(n) /\ ~dir[n].loading
Content(f) == {l \in Links : drive[l] = f}
FetchesOf(n) == {x \in Fetches : fetch[x].pc # "idle" /\ fetch[x].node = n}

\* The last event about l: an event of kind refresh stands for all that came before.
Latest(l) ==
  Max({0} \cup {i \in DOMAIN log : log[i].link = l})

Note(happened) == races' = races \cup {r \in ListingRaces : happened[r]}
NoRace == [r \in ListingRaces |-> FALSE]

\* An entry is listed in a folder the map of parents no longer says it is in.
Orphaned == \E n \in DirNodes, l \in Links :
  /\ Live(n) /\ Listed(n) /\ l \in dir'[n].children
  /\ parentOf[l] = FolderOf(n) /\ parentOf'[l] # FolderOf(n)

-----------------------------------------------------------------------------
(* The drive: what other clients do, and the events of every change.         *)

Change(l, folder, kind) ==
  /\ Len(log) < MaxChanges
  /\ drive' = [drive EXCEPT ![l] = folder]
  /\ log' = Append(log, [link |-> l, kind |-> kind,
                         parent |-> CASE kind = "delete" -> None
                                      [] folder = None /\ kind # "delete" -> drive[l]
                                      [] OTHER -> folder])

Deleted(l) == \E i \in DOMAIN log : log[i].link = l /\ log[i].kind = "delete"

\* A link is moved, trashed, restored or deleted elsewhere.
Remote(l, folder, kind) ==
  /\ folder # drive[l] /\ ~Deleted(l)
  /\ kind = "delete" => folder = None
  /\ Change(l, folder, kind)
  /\ own' = [own EXCEPT ![l] = {}]
  /\ UNCHANGED <<last, poll, dirs, dir, fetch, parentOf, disk, op, told, races>>

-----------------------------------------------------------------------------
(* Loading a listing: load, serveFromDiskCache, beginLoad, finishLoad.       *)

\* finishLoad notes the patches made so far; one that lands before the goroutine runs is one
\* that landed before the load.
StartFetch(n) == \E x \in Fetches :
  /\ fetch[x].pc = "idle"
  /\ fetch' = [fetch EXCEPT ![x] = [NoFetch EXCEPT !.pc = "request", !.node = n,
                                               !.gen = dir[n].gen]]

\* What was listed once is served until an event expires it.
WrongServed(n) == Listed(n)

\* beginLoad serves what is listed while it is fresh.
Served(n) == Listed(n) /\ dir[n].fresh

\* A cold directory shows what was persisted, once, and fetches behind it.
ServeFromDisk(n) ==
  /\ Live(n) /\ Cold(n) /\ disk[FolderOf(n)] # None
  /\ dir' = [dir EXCEPT ![n].children = disk[FolderOf(n)], ![n].fresh = FALSE,
                        ![n].loading = TRUE]
  /\ StartFetch(n)
  /\ UNCHANGED <<drive, log, last, poll, dirs, parentOf, disk, op, told, own, races>>

\* Whoever finds nothing to show fetches.
WrongBeginLoad(n) ==
  /\ Live(n) /\ ~Served(n)
  /\ ~(Cold(n) /\ disk[FolderOf(n)] # None)
  /\ dir' = [dir EXCEPT ![n].loading = TRUE]
  /\ StartFetch(n)
  /\ UNCHANGED <<drive, log, last, poll, dirs, parentOf, disk, op, told, own, races>>

\* Nothing to show or no longer fresh: the first to ask fetches, the others wait.
BeginLoad(n) ==
  /\ Live(n) /\ ~dir[n].loading /\ ~Served(n)
  /\ ~(Cold(n) /\ disk[FolderOf(n)] # None)
  /\ dir' = [dir EXCEPT ![n].loading = TRUE]
  /\ StartFetch(n)
  /\ UNCHANGED <<drive, log, last, poll, dirs, parentOf, disk, op, told, own, races>>

\* The listing's ttl, or the cooldown of a failed fetch, has passed.
Lapse(n) ==
  /\ Live(n) /\ dir[n].fresh
  /\ dir' = [dir EXCEPT ![n].fresh = FALSE]
  /\ UNCHANGED <<drive, log, last, poll, dirs, fetch, parentOf, disk, op, told, own, races>>

FetchStep(x, pc) == fetch' = [fetch EXCEPT ![x].pc = pc]

\* Proton lists the folder as it is now.
FetchAnswer(x) ==
  /\ fetch[x].pc = "request"
  /\ fetch' = [fetch EXCEPT ![x].pc = "publish",
                            ![x].result = Content(FolderOf(fetch[x].node))]
  /\ UNCHANGED <<drive, log, last, poll, dirs, dir, parentOf, disk, op, told, own, races>>

\* A patch is overwritten by the listing that predates it.
WrongShouldPublish(x) == TRUE

\* shouldPublish: a patch made since the fetch began wins over what it brought.
ShouldPublish(x) ==
  LET n == fetch[x].node IN ~Listed(n) \/ fetch[x].gen = dir[n].gen

FetchPublish(x) ==
  LET n == fetch[x].node IN
  /\ fetch[x].pc = "publish"
  /\ dir' = [dir EXCEPT ![n].children = IF ShouldPublish(x) THEN fetch[x].result ELSE @,
                        ![n].fresh = TRUE, ![n].loading = FALSE]
  /\ FetchStep(x, "persist")
  /\ Note([NoRace EXCEPT !["droppedFetch"] =
             ~ShouldPublish(x) /\ dir[n].children # Content(FolderOf(n))])
  /\ UNCHANGED <<drive, log, last, poll, dirs, parentOf, disk, op, told, own>>

\* A failed fetch leaves its waiters waiting.
WrongFetchFails(x) ==
  LET n == fetch[x].node IN
  /\ fetch[x].pc = "request"
  /\ dir' = [dir EXCEPT ![n].fresh = TRUE]
  /\ fetch' = [fetch EXCEPT ![x] = NoFetch]
  /\ Note([NoRace EXCEPT !["failedRefresh"] = Listed(n)])
  /\ UNCHANGED <<drive, log, last, poll, dirs, parentOf, disk, op, told, own>>

\* publish of a fetch that failed or timed out: what is listed stays, for a cooldown.
FetchFails(x) ==
  LET n == fetch[x].node IN
  /\ fetch[x].pc = "request"
  /\ dir' = [dir EXCEPT ![n].fresh = TRUE, ![n].loading = FALSE]
  /\ fetch' = [fetch EXCEPT ![x] = NoFetch]
  /\ Note([NoRace EXCEPT !["failedRefresh"] = Listed(n)])
  /\ UNCHANGED <<drive, log, last, poll, dirs, parentOf, disk, op, told, own>>

\* persistListingLocked: a write for a patch count already passed is dropped.
Persist(n, children, gen) ==
  IF gen < dir[n].persisted THEN UNCHANGED <<disk, dir>>
  ELSE /\ disk' = [disk EXCEPT ![FolderOf(n)] = children]
       /\ dir' = [dir EXCEPT ![n].persisted = gen]

\* The rest of finishLoad: what it brought is persisted, and setParent for each child.
FetchPersist(x) ==
  LET n == fetch[x].node IN
  /\ fetch[x].pc = "persist"
  /\ Persist(n, fetch[x].result, fetch[x].gen)
  /\ parentOf' = [l \in Links |-> IF l \in fetch[x].result THEN FolderOf(n) ELSE parentOf[l]]
  /\ fetch' = [fetch EXCEPT ![x] = NoFetch]
  /\ UNCHANGED <<drive, log, last, poll, dirs, op, told, own>>
  /\ Note([NoRace EXCEPT
       !["reorderedPersist"] = /\ fetch[x].gen = dir[n].gen
                               /\ dir[n].children # fetch[x].result
                               /\ \A y \in FetchesOf(n) \ {x} :
                                    fetch[y].pc = "persist" => fetch[y].gen # dir[n].gen,
       !["outlivedPersist"] = ~Live(n),
       !["parentOverwritten"] = Orphaned])

-----------------------------------------------------------------------------
(* The handlers' own changes: a request to Proton, then the patches.         *)

\* A removal is not written down before something else is.
WrongRemoveChild(n, l) ==
  /\ dir' = [dir EXCEPT ![n].children = IF @ = None THEN None ELSE @ \ {l}, ![n].gen = @ + 1]
  /\ parentOf' = IF Listed(n) /\ l \in dir[n].children THEN [parentOf EXCEPT ![l] = None]
                                                        ELSE parentOf

RemoveChild(n, l) ==
  /\ dir' = [dir EXCEPT ![n].children = IF @ = None THEN None ELSE @ \ {l}, ![n].gen = @ + 1,
                        ![n].timer = TRUE]
  /\ parentOf' = IF Listed(n) /\ l \in dir[n].children THEN [parentOf EXCEPT ![l] = None]
                                                        ELSE parentOf

UpsertChild(n, l) ==
  /\ dir' = [dir EXCEPT ![n].children = (IF @ = None THEN {} ELSE @) \cup {l}, ![n].gen = @ + 1,
                        ![n].timer = TRUE]
  /\ parentOf' = [parentOf EXCEPT ![l] = FolderOf(n)]

\* The kernel looked the name up in the folder before: it has a listing.
Ready(n) == op.pc = "idle" /\ Live(n) /\ Listed(n)

Patch(pc, l, from, to) ==
  op' = [pc |-> pc, link |-> l, from |-> from, to |-> to, ev |-> Len(log) + 1]

\* Create's upload, or Mkdir: a link that never was.
CreateEntry(n, l) ==
  /\ Ready(n) /\ drive[l] = None /\ Latest(l) = 0
  /\ Change(l, FolderOf(n), "update")
  /\ Patch("upsert", l, None, n)
  /\ UNCHANGED <<last, poll, dirs, dir, fetch, parentOf, disk, told, own, races>>

\* remove: Trash of what the listing has.
RemoveEntry(n, l) ==
  /\ Ready(n) /\ l \in dir[n].children /\ drive[l] = FolderOf(n)
  /\ Change(l, None, "update")
  /\ Patch("remove", l, n, None)
  /\ UNCHANGED <<last, poll, dirs, dir, fetch, parentOf, disk, told, own, races>>

\* moveLink to a folder that has no such name.
MoveEntry(n, m, l) ==
  /\ Ready(n) /\ Ready(m) /\ n # m
  /\ l \in dir[n].children /\ drive[l] \notin {None, FolderOf(m)}
  /\ Change(l, FolderOf(m), "update")
  /\ Patch("remove", l, n, m)
  /\ UNCHANGED <<last, poll, dirs, dir, fetch, parentOf, disk, told, own, races>>

\* A change counts as ours until another client changes the link again.
Patched == own' = [own EXCEPT ![op.link] =
             IF Latest(op.link) = op.ev THEN {FolderOf(n) : n \in {op.from, op.to} \ {None}}
                                        ELSE {}]

PatchRemove ==
  /\ op.pc = "remove"
  /\ RemoveChild(op.from, op.link)
  /\ IF op.to = None THEN op' = NoPatch /\ Patched
                     ELSE op' = [op EXCEPT !.pc = "upsert"] /\ UNCHANGED own
  /\ Note([NoRace EXCEPT !["latePatch"] = Latest(op.link) # op.ev,
                          !["parentOverwritten"] = Orphaned])
  /\ UNCHANGED <<drive, log, last, poll, dirs, fetch, disk, told>>

PatchUpsert ==
  /\ op.pc = "upsert"
  /\ UpsertChild(op.to, op.link)
  /\ op' = NoPatch /\ Patched
  /\ Note([NoRace EXCEPT !["latePatch"] = Latest(op.link) # op.ev,
                          !["parentOverwritten"] = Orphaned])
  /\ UNCHANGED <<drive, log, last, poll, dirs, fetch, disk, told>>

\* flushListing: the timer of schedulePersist, or the unmount's flushListings.
FlushListing(n) ==
  /\ dir[n].timer
  /\ LET gen == dir[n].gen IN
     IF gen < dir[n].persisted
     THEN dir' = [dir EXCEPT ![n].timer = FALSE] /\ UNCHANGED disk
     ELSE /\ disk' = [disk EXCEPT ![FolderOf(n)] = dir[n].children]
          /\ dir' = [dir EXCEPT ![n].timer = FALSE, ![n].persisted = gen]

TimerPersists(n) ==
  /\ dir[n].st # "none"
  /\ FlushListing(n)
  /\ UNCHANGED <<drive, log, last, poll, dirs, fetch, parentOf, op, told, own, races>>

-----------------------------------------------------------------------------
(* The kernel: it looks a folder up and forgets it.                          *)

\* register: a Lookup of a folder the kernel does not know makes a dirNode.
Register(n) ==
  /\ dir[n].st = "none" /\ FetchesOf(n) = {}
  /\ \A m \in DirNodes : FolderOf(m) = FolderOf(n) => ~Live(m)
  /\ dir' = [dir EXCEPT ![n] = [NoDirNode EXCEPT !.st = "live"]]
  /\ dirs' = [dirs EXCEPT ![FolderOf(n)] = n]
  /\ Note([NoRace EXCEPT !["discardedWrite"] =
             \E m \in DirNodes : FolderOf(m) = FolderOf(n) /\ dir[m].timer])
  /\ UNCHANGED <<drive, log, last, poll, fetch, parentOf, disk, op, told, own>>

\* The kernel drops its last reference; OnForget has still to run.
KernelForgets(n) ==
  /\ Live(n) /\ n # RootNode /\ n \notin {op.from, op.to}
  /\ dir' = [dir EXCEPT ![n].st = "forgotten"]
  /\ UNCHANGED <<drive, log, last, poll, dirs, fetch, parentOf, disk, op, told, own, races>>

\* unregister, up to its second look at the map: the write that waits goes out, or is
\* discarded when another dirNode has taken over.
Unregister(n) ==
  /\ dir[n].st = "forgotten"
  /\ IF dirs[FolderOf(n)] # n
     THEN dir' = [dir EXCEPT ![n].timer = FALSE, ![n].st = "none"] /\ UNCHANGED disk
     ELSE IF dir[n].timer /\ dir[n].gen >= dir[n].persisted
     THEN /\ disk' = [disk EXCEPT ![FolderOf(n)] = dir[n].children]
          /\ dir' = [dir EXCEPT ![n].timer = FALSE, ![n].persisted = dir[n].gen,
                                ![n].st = "flushed"]
     ELSE dir' = [dir EXCEPT ![n].timer = FALSE, ![n].st = "flushed"] /\ UNCHANGED disk
  /\ UNCHANGED <<drive, log, last, poll, dirs, fetch, parentOf, op, told, own, races>>

\* The second look is left out: whatever dirNode is registered goes.
WrongUnregistered(n) ==
  /\ dir[n].st = "flushed"
  /\ dir' = [dir EXCEPT ![n].st = "none"]
  /\ dirs' = [dirs EXCEPT ![FolderOf(n)] = None]
  /\ UNCHANGED <<drive, log, last, poll, fetch, parentOf, disk, op, told, own, races>>

\* The rest of unregister: its entry goes, and the parents of what it listed.
Unregistered(n) ==
  LET f == FolderOf(n) IN
  /\ dir[n].st = "flushed"
  /\ dir' = [dir EXCEPT ![n].st = "none"]
  /\ IF dirs[f] # n THEN UNCHANGED <<dirs, parentOf>>
     ELSE /\ dirs' = [dirs EXCEPT ![f] = None]
          /\ parentOf' = [l \in Links |-> IF /\ Listed(n) /\ l \in dir[n].children
                                           /\ parentOf[l] = f
                                         THEN None ELSE parentOf[l]]
  /\ UNCHANGED <<drive, log, last, poll, fetch, disk, op, told, own, races>>

-----------------------------------------------------------------------------
(* The event loop: Client.Events, and mountState.handle for each event.      *)

\* GetLatestVolumeEventID answers: what happened before is never heard of.
LatestEvent ==
  /\ last = None
  /\ last' = Len(log)
  /\ Note([NoRace EXCEPT !["missedEvent"] = log # <<>>])
  /\ UNCHANGED <<drive, log, poll, dirs, dir, fetch, parentOf, disk, op, told, own>>

\* A fetch has brought a listing with l and has not set the parents yet.
Listing(l) == \E x \in Fetches :
  /\ fetch[x].pc \in {"publish", "persist"} /\ l \in fetch[x].result
  /\ parentOf[l] # FolderOf(fetch[x].node)

\* Only the folder that an entry is in by now is invalidated.
WrongParentsToInvalidate(e) == {e.parent} \ {None}

\* A link whose parent is not known invalidates the folder without a name.
WrongFoldersToInvalidate(e) == {e.parent, parentOf[e.link]}

\* parentsToInvalidate: the folder of an event, and the one the entry was in before.
ParentsToInvalidate(e) == {e.parent, parentOf[e.link]} \ {None}

\* The rest of handle, once no folder is left to invalidate: a deleted link has no parent
\* any more.
Handled(todo) ==
  LET e == log[last + 1] IN
  IF todo = {}
  THEN /\ poll' = NoPoll /\ last' = last + 1
       /\ parentOf' = IF e.kind = "delete" THEN [parentOf EXCEPT ![e.link] = None] ELSE parentOf
       /\ told' = IF e.kind = "refresh" THEN [l \in Links |-> last + 1]
                  ELSE [told EXCEPT ![e.link] = last + 1]
  ELSE poll' = [pc |-> "handle", todo |-> todo] /\ UNCHANGED <<last, parentOf, told>>

PollEvent ==
  /\ poll.pc = "idle" /\ last # None /\ last < Len(log)
  /\ LET e == log[last + 1] IN
     /\ Handled(IF e.kind = "refresh" THEN Folders ELSE ParentsToInvalidate(e))
     /\ Note([NoRace EXCEPT !["unknownParent"] = e.kind # "refresh" /\ Listing(e.link)])
  /\ UNCHANGED <<drive, log, dirs, dir, fetch, disk, op, own>>

\* invalidateDir, and expire: only a dirNode that is registered hears of it.
Invalidate(f) ==
  LET n == dirs[f] IN
  /\ f \in poll.todo
  /\ Handled(poll.todo \ {f})
  /\ IF n = None THEN UNCHANGED <<dir, races>>
     ELSE /\ dir' = [dir EXCEPT ![n].fresh = FALSE]
          /\ Note([NoRace EXCEPT !["expiredInFlight"] =
                     \E x \in FetchesOf(n) : fetch[x].pc = "publish"])
  /\ UNCHANGED <<drive, log, dirs, fetch, disk, op, own>>

-----------------------------------------------------------------------------
Init ==
  /\ drive = Initial /\ log = <<>> /\ last = None /\ poll = NoPoll
  /\ dir = [n \in DirNodes |-> IF n = RootNode THEN [NoDirNode EXCEPT !.st = "live"] ELSE NoDirNode]
  /\ dirs = [f \in Folders |-> IF f = Root THEN RootNode ELSE None]
  /\ fetch = [x \in Fetches |-> NoFetch]
  /\ parentOf = [l \in Links |-> None]
  /\ disk = Persisted
  /\ op = NoPatch
  /\ told = [l \in Links |-> 0] /\ own = [l \in Links |-> {}] /\ races = {}

Fetching(x) == \/ FetchAnswer(x) \/ FetchFails(x) \/ FetchPublish(x)
               \/ FetchPersist(x)

Polling == LatestEvent \/ PollEvent \/ \E f \in Folders : Invalidate(f)

Handling ==
  \/ PatchRemove \/ PatchUpsert
  \/ \E n \in DirNodes, l \in Links : CreateEntry(n, l) \/ RemoveEntry(n, l)
  \/ \E n, m \in DirNodes, l \in Links : MoveEntry(n, m, l)

Elsewhere == \E l \in Links, f \in Folders \cup {None}, kind \in {"update", "delete", "refresh"} :
               Remote(l, f, kind)

Loading == \E n \in DirNodes : ServeFromDisk(n) \/ BeginLoad(n)

Knowing == \E n \in DirNodes : Register(n) \/ KernelForgets(n) \/ Unregister(n) \/ Unregistered(n)

Next ==
  \/ \E x \in Fetches : Fetching(x)
  \/ \E n \in DirNodes : Lapse(n) \/ TimerPersists(n)
  \/ Polling \/ Handling \/ Elsewhere \/ Loading \/ Knowing

Spec == Init /\ [][Next]_listingVars

\* Goroutines run, a ttl passes, and someone keeps listing each folder; an answer is not
\* lost for ever, nor does the kernel forget a folder for ever.  Other clients owe nothing.
Fairness ==
  /\ \A x \in Fetches :
       /\ WF_listingVars(FetchFails(x)) /\ WF_listingVars(FetchPublish(x))
       /\ WF_listingVars(FetchPersist(x))
  /\ WF_listingVars(Polling) /\ WF_listingVars(PatchRemove) /\ WF_listingVars(PatchUpsert)
  /\ \A n \in DirNodes :
       /\ SF_listingVars(\E x \in FetchesOf(n) : FetchAnswer(x))
       /\ WF_listingVars(Lapse(n)) /\ WF_listingVars(TimerPersists(n))
       /\ WF_listingVars(ServeFromDisk(n)) /\ WF_listingVars(BeginLoad(n))
       /\ WF_listingVars(Unregister(n)) /\ WF_listingVars(Unregistered(n))

FairSpec == Spec /\ Fairness

-----------------------------------------------------------------------------
(* Properties.                                                               *)

Listings == {None} \cup SUBSET Links
FolderOrNone == Folders \cup {None}

DirNodeRecords == [st : {"none", "live", "forgotten", "flushed"}, children : Listings,
                   fresh : BOOLEAN, gen : Nat, loading : BOOLEAN, persisted : Nat,
                   timer : BOOLEAN]
FetchRecords == [pc : {"idle", "request", "publish", "persist"},
                 node : DirNodes \cup {None}, gen : Nat, result : SUBSET Links]

\* Every variable keeps its type.
TypeOK ==
  /\ drive \in [Links -> FolderOrNone] /\ last \in 0 .. Len(log) \cup {None}
  /\ dirs \in [Folders -> DirNodes \cup {None}] /\ dir \in [DirNodes -> DirNodeRecords]
  /\ fetch \in [Fetches -> FetchRecords] /\ parentOf \in [Links -> FolderOrNone]
  /\ poll \in [pc : {"idle", "handle"}, todo : SUBSET Folders]
  /\ disk \in [Folders -> Listings] /\ races \subseteq ListingRaces
  /\ told \in [Links -> 0 .. Len(log)] /\ own \in [Links -> SUBSET Folders]

\* A folder is fetched by at most one goroutine that has still to publish, and its waiters
\* wait exactly while there is one.  About beginLoad, serveFromDiskCache and publish.
Unpublished(n) == {x \in FetchesOf(n) : fetch[x].pc \in {"request", "publish"}}
OneFetchPerFolder == \A n \in DirNodes :
  Cardinality(Unpublished(n)) = IF dir[n].loading THEN 1 ELSE 0

\* What this mount changed itself shows in the listings it patched, whatever fetch, older
\* or newer, ends when, and whatever the kernel forgets and looks up again, until someone
\* changes the entry again.  About the patch counts of shouldPublish and persistListing.
OwnChangesShown ==
  races \cap {"outlivedPersist", "reorderedPersist", "discardedWrite"} = {} =>
    \A l \in Links, n \in DirNodes :
      Live(n) /\ Listed(n) /\ FolderOf(n) \in own[l] /\ op.link # l
        => (l \in dir[n].children <=> drive[l] = FolderOf(n))

\* What counts as fresh has every change whose event was handled.
HandledShows == \A n \in DirNodes, l \in Links :
  (Live(n) /\ Listed(n) /\ dir[n].fresh /\ told[l] >= Latest(l) /\ op.link # l)
    => (l \in dir[n].children <=> drive[l] = FolderOf(n))

\* A listing that counts as fresh has every change whose event was handled, outside the
\* races.  About the two folders an event invalidates, the map of parents that knows the
\* second one, and the dirNodes it reaches.
FreshHasHandled ==
  races \cap {"expiredInFlight", "droppedFetch", "failedRefresh", "parentOverwritten",
              "unknownParent", "latePatch", "missedEvent"} = {} => HandledShows

\* Every folder the kernel knows is the one events reach.  About unregister, which runs
\* while another dirNode of the folder may take over.
KnownIsRegistered == \A n \in DirNodes : Live(n) => dirs[FolderOf(n)] = n

\* With no write waiting and no fetch running, a folder's persisted listing is the one in
\* memory, if that was ever fetched or patched.  About schedulePersist, flushListing and
\* the order of writes that persistListing keeps.
PersistedAgrees ==
  races \cap {"reorderedPersist", "outlivedPersist", "discardedWrite"} = {} =>
    \A n \in DirNodes :
      Live(n) /\ Listed(n) /\ ~dir[n].timer /\ FetchesOf(n) = {}
        => disk[FolderOf(n)] = dir[n].children

\* Whoever waits for a listing is let go: the fetch it waits for answers, fails or times
\* out, even when the kernel forgets the folder meanwhile.  About publish and its closing of
\* loading.
WaitersLetGo == \A n \in DirNodes : dir[n].loading ~> ~dir[n].loading

\* When the drive rests, what is listed ends up being what the drive has, whatever events
\* were missed and whatever races came before, while someone keeps listing the folder.
\* About the ttl, the cooldown, and the fetches dropped for a patch.
ListingsCatchUp == \A n \in DirNodes :
  <>[](Live(n) /\ Listed(n) => dir[n].children = Content(FolderOf(n)))

=============================================================================
