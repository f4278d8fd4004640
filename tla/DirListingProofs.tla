-------------------------- MODULE DirListingProofs --------------------------
(***************************************************************************)
(* Proofs about DirListing for any number of folders, dirNodes, fetches,   *)
(* links and changes: a folder that is known hears of events, is fetched   *)
(* by one goroutine at a time, is persisted as it is in memory, shows what *)
(* this mount changed, and while it counts as fresh has every change whose *)
(* event was handled.                                                      *)
(***************************************************************************)
EXTENDS DirListing, FiniteSetTheorems, TLAPS

(***************************************************************************)
(* What a step does to the fields of a dirNode.                            *)
(***************************************************************************)

DirTypes == dir \in [DirNodes -> DirNodeRecords]

\* Only the dirNode n changed, and to these fields.
Becomes(n, st, children, fresh, gen, loading, persisted, timer) ==
  /\ DirTypes'
  /\ dir'[n].st = st /\ dir'[n].children = children /\ dir'[n].gen = gen
  /\ dir'[n].persisted = persisted
  /\ (dir'[n].fresh <=> fresh) /\ (dir'[n].loading <=> loading) /\ (dir'[n].timer <=> timer)
  /\ \A m \in DirNodes \ {n} : dir'[m] = dir[m]

LEMMA FieldsTyped ==
  ASSUME DirTypes, NEW n \in DirNodes
  PROVE  /\ dir[n] \in DirNodeRecords
         /\ dir[n].st \in {"none", "live", "forgotten", "flushed"} /\ dir[n].children \in Listings
         /\ dir[n].fresh \in BOOLEAN /\ dir[n].loading \in BOOLEAN /\ dir[n].timer \in BOOLEAN
         /\ dir[n].gen \in Nat /\ dir[n].persisted \in Nat
BY DEF DirTypes, DirNodeRecords

LEMMA RecordBecomes ==
  ASSUME DirTypes, NEW n \in DirNodes, NEW x \in DirNodeRecords, dir' = [dir EXCEPT ![n] = x]
  PROVE  Becomes(n, x.st, x.children, x.fresh, x.gen, x.loading, x.persisted, x.timer)
BY DEF DirTypes, Becomes

LEMMA ServeFromDiskDoes ==
  ASSUME DirTypes, disk \in [Folders -> Listings], NEW n \in DirNodes,
         FolderOf(n) \in Folders, ServeFromDisk(n)
  PROVE  Becomes(n, dir[n].st, disk[FolderOf(n)], FALSE, dir[n].gen, TRUE, dir[n].persisted, dir[n].timer)
<1> PICK t \in BOOLEAN, f \in BOOLEAN : t = TRUE /\ f = FALSE
  OBVIOUS
<1> DEFINE x == [dir[n] EXCEPT !.children = disk[FolderOf(n)], !.fresh = f, !.loading = t]
<1>1. dir' = [dir EXCEPT ![n] = x]
  BY DEF ServeFromDisk
<1>2. /\ x \in DirNodeRecords /\ x.st = dir[n].st /\ x.children = disk[FolderOf(n)]
      /\ x.fresh = f /\ x.gen = dir[n].gen /\ x.loading = t
      /\ x.persisted = dir[n].persisted /\ x.timer = dir[n].timer
  BY FieldsTyped DEF DirNodeRecords
<1>3. Becomes(n, x.st, x.children, x.fresh, x.gen, x.loading, x.persisted, x.timer)
  BY <1>1, <1>2, RecordBecomes
<1> HIDE DEF x
<1> QED
  BY <1>2, <1>3 DEF Becomes

LEMMA BeginLoadDoes ==
  ASSUME DirTypes, NEW n \in DirNodes, BeginLoad(n)
  PROVE  Becomes(n, dir[n].st, dir[n].children, dir[n].fresh, dir[n].gen, TRUE, dir[n].persisted, dir[n].timer)
<1> PICK t \in BOOLEAN, f \in BOOLEAN : t = TRUE /\ f = FALSE
  OBVIOUS
<1> DEFINE x == [dir[n] EXCEPT !.loading = t]
<1>1. dir' = [dir EXCEPT ![n] = x]
  BY DEF BeginLoad
<1>2. /\ x \in DirNodeRecords /\ x.st = dir[n].st /\ x.children = dir[n].children
      /\ x.fresh = dir[n].fresh /\ x.gen = dir[n].gen /\ x.loading = t
      /\ x.persisted = dir[n].persisted /\ x.timer = dir[n].timer
  BY FieldsTyped DEF DirNodeRecords
<1>3. Becomes(n, x.st, x.children, x.fresh, x.gen, x.loading, x.persisted, x.timer)
  BY <1>1, <1>2, RecordBecomes
<1> HIDE DEF x
<1> QED
  BY <1>2, <1>3 DEF Becomes

LEMMA LapseDoes ==
  ASSUME DirTypes, NEW n \in DirNodes, Lapse(n)
  PROVE  Becomes(n, dir[n].st, dir[n].children, FALSE, dir[n].gen, dir[n].loading, dir[n].persisted, dir[n].timer)
<1> PICK t \in BOOLEAN, f \in BOOLEAN : t = TRUE /\ f = FALSE
  OBVIOUS
<1> DEFINE x == [dir[n] EXCEPT !.fresh = f]
<1>1. dir' = [dir EXCEPT ![n] = x]
  BY DEF Lapse
<1>2. /\ x \in DirNodeRecords /\ x.st = dir[n].st /\ x.children = dir[n].children
      /\ x.fresh = f /\ x.gen = dir[n].gen /\ x.loading = dir[n].loading
      /\ x.persisted = dir[n].persisted /\ x.timer = dir[n].timer
  BY FieldsTyped DEF DirNodeRecords
<1>3. Becomes(n, x.st, x.children, x.fresh, x.gen, x.loading, x.persisted, x.timer)
  BY <1>1, <1>2, RecordBecomes
<1> HIDE DEF x
<1> QED
  BY <1>2, <1>3 DEF Becomes

LEMMA FetchFailsDoes ==
  ASSUME DirTypes, NEW y \in Fetches, NEW n \in DirNodes, fetch[y].node = n, FetchFails(y)
  PROVE  Becomes(n, dir[n].st, dir[n].children, TRUE, dir[n].gen, FALSE, dir[n].persisted, dir[n].timer)
<1> PICK t \in BOOLEAN, f \in BOOLEAN : t = TRUE /\ f = FALSE
  OBVIOUS
<1> DEFINE x == [dir[n] EXCEPT !.fresh = t, !.loading = f]
<1>1. dir' = [dir EXCEPT ![n] = x]
  BY DEF FetchFails
<1>2. /\ x \in DirNodeRecords /\ x.st = dir[n].st /\ x.children = dir[n].children
      /\ x.fresh = t /\ x.gen = dir[n].gen /\ x.loading = f
      /\ x.persisted = dir[n].persisted /\ x.timer = dir[n].timer
  BY FieldsTyped DEF DirNodeRecords
<1>3. Becomes(n, x.st, x.children, x.fresh, x.gen, x.loading, x.persisted, x.timer)
  BY <1>1, <1>2, RecordBecomes
<1> HIDE DEF x
<1> QED
  BY <1>2, <1>3 DEF Becomes

LEMMA RemoveChildDoes ==
  ASSUME DirTypes, NEW n \in DirNodes, NEW l \in Links, Listed(n), RemoveChild(n, l)
  PROVE  Becomes(n, dir[n].st, dir[n].children \ {l}, dir[n].fresh, dir[n].gen + 1, dir[n].loading, dir[n].persisted, TRUE)
<1> PICK t \in BOOLEAN, f \in BOOLEAN : t = TRUE /\ f = FALSE
  OBVIOUS
<1> DEFINE c == dir[n].children \ {l}
           g == dir[n].gen + 1
           x == [dir[n] EXCEPT !.children = c, !.gen = g, !.timer = t]
<1>1. dir' = [dir EXCEPT ![n] = x]
  BY DEF RemoveChild, Listed
<1>0. c \in Listings /\ g \in Nat
  BY FieldsTyped DEF Listed, Listings
<1> HIDE DEF c, g
<1>2. /\ x \in DirNodeRecords /\ x.st = dir[n].st /\ x.children = c
      /\ x.fresh = dir[n].fresh /\ x.gen = g /\ x.loading = dir[n].loading
      /\ x.persisted = dir[n].persisted /\ x.timer = t
  BY <1>0, FieldsTyped DEF DirNodeRecords
<1>3. Becomes(n, x.st, x.children, x.fresh, x.gen, x.loading, x.persisted, x.timer)
  BY <1>1, <1>2, RecordBecomes
<1> HIDE DEF x
<1> QED
  BY <1>2, <1>3 DEF Becomes, c, g

LEMMA UpsertChildDoes ==
  ASSUME DirTypes, NEW n \in DirNodes, NEW l \in Links, Listed(n), UpsertChild(n, l)
  PROVE  Becomes(n, dir[n].st, dir[n].children \cup {l}, dir[n].fresh, dir[n].gen + 1, dir[n].loading, dir[n].persisted, TRUE)
<1> PICK t \in BOOLEAN, f \in BOOLEAN : t = TRUE /\ f = FALSE
  OBVIOUS
<1> DEFINE c == dir[n].children \cup {l}
           g == dir[n].gen + 1
           x == [dir[n] EXCEPT !.children = c, !.gen = g, !.timer = t]
<1>1. dir' = [dir EXCEPT ![n] = x]
  BY DEF UpsertChild, Listed
<1>0. c \in Listings /\ g \in Nat
  BY FieldsTyped DEF Listed, Listings
<1> HIDE DEF c, g
<1>2. /\ x \in DirNodeRecords /\ x.st = dir[n].st /\ x.children = c
      /\ x.fresh = dir[n].fresh /\ x.gen = g /\ x.loading = dir[n].loading
      /\ x.persisted = dir[n].persisted /\ x.timer = t
  BY <1>0, FieldsTyped DEF DirNodeRecords
<1>3. Becomes(n, x.st, x.children, x.fresh, x.gen, x.loading, x.persisted, x.timer)
  BY <1>1, <1>2, RecordBecomes
<1> HIDE DEF x
<1> QED
  BY <1>2, <1>3 DEF Becomes, c, g

LEMMA KernelForgetsDoes ==
  ASSUME DirTypes, NEW n \in DirNodes, KernelForgets(n)
  PROVE  Becomes(n, "forgotten", dir[n].children, dir[n].fresh, dir[n].gen, dir[n].loading, dir[n].persisted, dir[n].timer)
<1> PICK t \in BOOLEAN, f \in BOOLEAN : t = TRUE /\ f = FALSE
  OBVIOUS
<1> DEFINE x == [dir[n] EXCEPT !.st = "forgotten"]
<1>1. dir' = [dir EXCEPT ![n] = x]
  BY DEF KernelForgets
<1>2. /\ x \in DirNodeRecords /\ x.st = "forgotten" /\ x.children = dir[n].children
      /\ x.fresh = dir[n].fresh /\ x.gen = dir[n].gen /\ x.loading = dir[n].loading
      /\ x.persisted = dir[n].persisted /\ x.timer = dir[n].timer
  BY FieldsTyped DEF DirNodeRecords
<1>3. Becomes(n, x.st, x.children, x.fresh, x.gen, x.loading, x.persisted, x.timer)
  BY <1>1, <1>2, RecordBecomes
<1> HIDE DEF x
<1> QED
  BY <1>2, <1>3 DEF Becomes

LEMMA UnregisteredDoes ==
  ASSUME DirTypes, NEW n \in DirNodes, Unregistered(n)
  PROVE  Becomes(n, "none", dir[n].children, dir[n].fresh, dir[n].gen, dir[n].loading, dir[n].persisted, dir[n].timer)
<1> PICK t \in BOOLEAN, f \in BOOLEAN : t = TRUE /\ f = FALSE
  OBVIOUS
<1> DEFINE x == [dir[n] EXCEPT !.st = "none"]
<1>1. dir' = [dir EXCEPT ![n] = x]
  BY DEF Unregistered
<1>2. /\ x \in DirNodeRecords /\ x.st = "none" /\ x.children = dir[n].children
      /\ x.fresh = dir[n].fresh /\ x.gen = dir[n].gen /\ x.loading = dir[n].loading
      /\ x.persisted = dir[n].persisted /\ x.timer = dir[n].timer
  BY FieldsTyped DEF DirNodeRecords
<1>3. Becomes(n, x.st, x.children, x.fresh, x.gen, x.loading, x.persisted, x.timer)
  BY <1>1, <1>2, RecordBecomes
<1> HIDE DEF x
<1> QED
  BY <1>2, <1>3 DEF Becomes

LEMMA ExpiresDoes ==
  ASSUME DirTypes, NEW n \in DirNodes, dir' = [dir EXCEPT ![n].fresh = FALSE]
  PROVE  Becomes(n, dir[n].st, dir[n].children, FALSE, dir[n].gen, dir[n].loading, dir[n].persisted, dir[n].timer)
<1> PICK t \in BOOLEAN, f \in BOOLEAN : t = TRUE /\ f = FALSE
  OBVIOUS
<1> DEFINE x == [dir[n] EXCEPT !.fresh = f]
<1>1. dir' = [dir EXCEPT ![n] = x]
  BY DEF DirTypes
<1>2. /\ x \in DirNodeRecords /\ x.st = dir[n].st /\ x.children = dir[n].children
      /\ x.fresh = f /\ x.gen = dir[n].gen /\ x.loading = dir[n].loading
      /\ x.persisted = dir[n].persisted /\ x.timer = dir[n].timer
  BY FieldsTyped DEF DirNodeRecords
<1>3. Becomes(n, x.st, x.children, x.fresh, x.gen, x.loading, x.persisted, x.timer)
  BY <1>1, <1>2, RecordBecomes
<1> HIDE DEF x
<1> QED
  BY <1>2, <1>3 DEF Becomes

LEMMA FetchPublishDoes ==
  ASSUME DirTypes, NEW y \in Fetches, NEW n \in DirNodes, fetch[y].node = n,
         fetch[y].result \in SUBSET Links, FetchPublish(y)
  PROVE  Becomes(n, dir[n].st, IF ShouldPublish(y) THEN fetch[y].result ELSE dir[n].children,
                 TRUE, dir[n].gen, FALSE, dir[n].persisted, dir[n].timer)
<1> PICK t \in BOOLEAN, f \in BOOLEAN : t = TRUE /\ f = FALSE
  OBVIOUS
<1> DEFINE c == IF ShouldPublish(y) THEN fetch[y].result ELSE dir[n].children
           x == [dir[n] EXCEPT !.children = c, !.fresh = t, !.loading = f]
<1>1. dir' = [dir EXCEPT ![n] = x]
  BY DEF FetchPublish
<1>0. c \in Listings
  BY FieldsTyped DEF Listings
<1> HIDE DEF c
<1>5. dir[n] \in DirNodeRecords
  BY FieldsTyped
<1>4. x \in DirNodeRecords
  <2>1. [dir[n] EXCEPT !.children = c] \in DirNodeRecords
    BY <1>0, <1>5 DEF DirNodeRecords
  <2>2. [dir[n] EXCEPT !.children = c, !.fresh = t] \in DirNodeRecords
    BY <2>1 DEF DirNodeRecords
  <2> QED
    BY <2>2 DEF DirNodeRecords
<1>2. /\ x \in DirNodeRecords /\ x.st = dir[n].st /\ x.children = c
      /\ x.fresh = t /\ x.gen = dir[n].gen /\ x.loading = f
      /\ x.persisted = dir[n].persisted /\ x.timer = dir[n].timer
  BY <1>4, <1>5 DEF DirNodeRecords
<1>3. Becomes(n, x.st, x.children, x.fresh, x.gen, x.loading, x.persisted, x.timer)
  BY <1>1, <1>2, RecordBecomes
<1> HIDE DEF x
<1> QED
  BY <1>2, <1>3 DEF Becomes, c

\* A listing is persisted, or dropped for a later one.
LEMMA PersistDoes ==
  ASSUME DirTypes, NEW n \in DirNodes, NEW children, NEW gen \in Nat, Persist(n, children, gen)
  PROVE  IF gen < dir[n].persisted
         THEN UNCHANGED <<disk, dir>>
         ELSE /\ disk' = [disk EXCEPT ![FolderOf(n)] = children]
              /\ Becomes(n, dir[n].st, dir[n].children, dir[n].fresh, dir[n].gen, dir[n].loading,
                         gen, dir[n].timer)
<1>1. CASE gen < dir[n].persisted
  BY <1>1 DEF Persist
<1>2. CASE ~(gen < dir[n].persisted)
  <2> DEFINE x == [dir[n] EXCEPT !.persisted = gen]
  <2>1. dir' = [dir EXCEPT ![n] = x] /\ disk' = [disk EXCEPT ![FolderOf(n)] = children]
    BY <1>2 DEF Persist
  <2>2. /\ x \in DirNodeRecords /\ x.st = dir[n].st /\ x.children = dir[n].children
        /\ x.fresh = dir[n].fresh /\ x.gen = dir[n].gen /\ x.loading = dir[n].loading
        /\ x.persisted = gen /\ x.timer = dir[n].timer
    BY FieldsTyped DEF DirNodeRecords
  <2>3. Becomes(n, x.st, x.children, x.fresh, x.gen, x.loading, x.persisted, x.timer)
    BY <2>1, <2>2, RecordBecomes
  <2> HIDE DEF x
  <2> QED
    BY <1>2, <2>1, <2>2, <2>3 DEF Becomes
<1> QED
  BY <1>1, <1>2

\* The timer, or an unregistration, writes the listing out unless a later one was.
LEMMA WriteOutDoes ==
  ASSUME DirTypes, NEW n \in DirNodes,
         NEW st \in {"none", "live", "forgotten", "flushed"}, NEW persisted \in Nat,
         dir' = [dir EXCEPT ![n].timer = FALSE, ![n].persisted = persisted, ![n].st = st]
  PROVE  Becomes(n, st, dir[n].children, dir[n].fresh, dir[n].gen, dir[n].loading, persisted, FALSE)
<1> PICK f \in BOOLEAN : f = FALSE
  OBVIOUS
<1> DEFINE x == [dir[n] EXCEPT !.timer = f, !.persisted = persisted, !.st = st]
<1>1. dir' = [dir EXCEPT ![n] = x]
  BY DEF DirTypes
<1>2. /\ x \in DirNodeRecords /\ x.st = st /\ x.children = dir[n].children
      /\ x.fresh = dir[n].fresh /\ x.gen = dir[n].gen /\ x.loading = dir[n].loading
      /\ x.persisted = persisted /\ x.timer = f
  BY FieldsTyped DEF DirNodeRecords
<1>3. Becomes(n, x.st, x.children, x.fresh, x.gen, x.loading, x.persisted, x.timer)
  BY <1>1, <1>2, RecordBecomes
<1> HIDE DEF x
<1> QED
  BY <1>2, <1>3 DEF Becomes

LEMMA FlushListingDoes ==
  ASSUME DirTypes, NEW n \in DirNodes, FlushListing(n)
  PROVE  /\ Becomes(n, dir[n].st, dir[n].children, dir[n].fresh, dir[n].gen, dir[n].loading,
                    IF dir[n].gen < dir[n].persisted THEN dir[n].persisted ELSE dir[n].gen, FALSE)
         /\ disk' = IF dir[n].gen < dir[n].persisted THEN disk
                    ELSE [disk EXCEPT ![FolderOf(n)] = dir[n].children]
<1> DEFINE p == IF dir[n].gen < dir[n].persisted THEN dir[n].persisted ELSE dir[n].gen
<1>0. /\ dir[n] \in DirNodeRecords /\ n \in DOMAIN dir
      /\ dir[n].persisted \in Nat /\ dir[n].gen \in Nat
  BY FieldsTyped DEF DirTypes
<1>1. dir' = [dir EXCEPT ![n].timer = FALSE, ![n].persisted = p, ![n].st = dir[n].st]
  <2>1. CASE dir[n].gen < dir[n].persisted
    BY <1>0, <2>1 DEF FlushListing, DirNodeRecords
  <2>2. CASE ~(dir[n].gen < dir[n].persisted)
    BY <1>0, <2>2 DEF FlushListing, DirNodeRecords
  <2> QED
    BY <2>1, <2>2
<1>2. p \in Nat
  BY FieldsTyped
<1> HIDE DEF p
<1>3. Becomes(n, dir[n].st, dir[n].children, dir[n].fresh, dir[n].gen, dir[n].loading, p, FALSE)
  BY <1>1, <1>2, FieldsTyped, WriteOutDoes
<1> QED
  BY <1>3 DEF FlushListing, p

LEMMA UnregisterDoes ==
  ASSUME DirTypes, NEW n \in DirNodes, Unregister(n)
  PROVE  \E st \in {"none", "flushed"}, p \in {dir[n].persisted, dir[n].gen} :
           /\ Becomes(n, st, dir[n].children, dir[n].fresh, dir[n].gen, dir[n].loading, p, FALSE)
           /\ disk' = disk \/ (/\ disk' = [disk EXCEPT ![FolderOf(n)] = dir[n].children]
                               /\ dirs[FolderOf(n)] = n)
<1>1. \E st \in {"none", "flushed"}, p \in {dir[n].persisted, dir[n].gen} :
        /\ dir' = [dir EXCEPT ![n].timer = FALSE, ![n].persisted = p, ![n].st = st]
        /\ disk' = disk \/ (/\ disk' = [disk EXCEPT ![FolderOf(n)] = dir[n].children]
                            /\ dirs[FolderOf(n)] = n)
  <2>1. CASE dirs[FolderOf(n)] # n
    <3>1. dir' = [dir EXCEPT ![n].timer = FALSE, ![n].persisted = dir[n].persisted, ![n].st = "none"]
      BY <2>1, FieldsTyped DEF Unregister, DirTypes, DirNodeRecords
    <3>2. disk' = disk
      BY <2>1 DEF Unregister
    <3> QED
      BY <3>1, <3>2, FieldsTyped
  <2>2. CASE dirs[FolderOf(n)] = n /\ dir[n].timer /\ dir[n].gen >= dir[n].persisted
    BY <2>2, FieldsTyped DEF Unregister
  <2>3. CASE dirs[FolderOf(n)] = n /\ ~(dir[n].timer /\ dir[n].gen >= dir[n].persisted)
    <3>1. dir' = [dir EXCEPT ![n].timer = FALSE, ![n].persisted = dir[n].persisted,
                             ![n].st = "flushed"]
      BY <2>3, FieldsTyped DEF Unregister, DirTypes, DirNodeRecords
    <3>2. disk' = disk
      BY <2>3 DEF Unregister
    <3> QED
      BY <3>1, <3>2, FieldsTyped
  <2> QED
    BY <2>1, <2>2, <2>3
<1> QED
  BY <1>1, WriteOutDoes, FieldsTyped

LEMMA RegisterDoes ==
  ASSUME DirTypes, NEW n \in DirNodes, Register(n)
  PROVE  Becomes(n, "live", None, FALSE, 0, FALSE, 0, FALSE)
<1> PICK f \in BOOLEAN : f = FALSE
  OBVIOUS
<1> DEFINE x == [NoDirNode EXCEPT !.st = "live"]
<1>1. dir' = [dir EXCEPT ![n] = x]
  BY DEF Register
<1>2. x = [st |-> "live", children |-> None, fresh |-> f, gen |-> 0, loading |-> f,
           persisted |-> 0, timer |-> f]
  <2>1. NoDirNode = [st |-> "none", children |-> None, fresh |-> f, gen |-> 0, loading |-> f,
                     persisted |-> 0, timer |-> f]
    BY Zenon DEF NoDirNode
  <2> QED
    BY <2>1
<1>3. x \in DirNodeRecords
  BY <1>2 DEF DirNodeRecords, Listings
<1>4. Becomes(n, x.st, x.children, x.fresh, x.gen, x.loading, x.persisted, x.timer)
  BY <1>1, <1>3, RecordBecomes
<1>5. /\ x.st = "live" /\ x.children = None /\ x.fresh = f /\ x.gen = 0 /\ x.loading = f
      /\ x.persisted = 0 /\ x.timer = f
  BY <1>2
<1> HIDE DEF x
<1> QED
  BY <1>4, <1>5 DEF Becomes

(***************************************************************************)
(* Types.  A handler patches folders that are known and have a listing.    *)
(***************************************************************************)

Kinds  == {"update", "delete", "refresh"}
Events == [link : Links, kind : Kinds, parent : FolderOrNone]
Ops    == [pc : {"idle", "remove", "upsert"}, link : Links \cup {None},
           from : DirNodes \cup {None}, to : DirNodes \cup {None}, ev : Nat]

DriveTypes == /\ drive \in [Links -> FolderOrNone] /\ log \in Seq(Events)
              /\ last \in 0 .. Len(log) \cup {None}
              /\ told \in [Links -> 0 .. Len(log)] /\ own \in [Links -> SUBSET Folders]
              /\ poll \in [pc : {"idle", "handle"}, todo : SUBSET Folders]
              /\ poll.todo # {} => last \in Nat /\ last < Len(log)

TreeTypes == /\ dirs \in [Folders -> DirNodes \cup {None}] /\ DirTypes
             /\ fetch \in [Fetches -> FetchRecords]
             /\ parentOf \in [Links -> FolderOrNone] /\ disk \in [Folders -> Listings]
             /\ \A y \in Fetches : fetch[y].pc # "idle" => fetch[y].node \in DirNodes

\* The dirNodes that a handler has still to patch.
Patching == IF op.pc = "upsert" THEN {op.to}
            ELSE IF op.pc = "remove" THEN {op.from} \cup ({op.to} \ {None}) ELSE {}

OpTypes == /\ op \in Ops /\ (op.pc # "idle" => op.link \in Links)
           /\ \A n \in Patching : n \in DirNodes /\ Live(n) /\ Listed(n)

Types == DriveTypes /\ TreeTypes /\ OpTypes /\ races \subseteq ListingRaces

LEMMA NodeFolder == \A n \in DirNodes : FolderOf(n) \in Folders
BY DirListingAssumption DEF DirNodes, RootNode, FolderOf

LEMMA LogGrows ==
  ASSUME DriveTypes, NEW l \in Links, NEW folder \in FolderOrNone, NEW kind \in Kinds,
         Change(l, folder, kind)
  PROVE  /\ drive' \in [Links -> FolderOrNone] /\ log' \in Seq(Events)
         /\ drive' = [drive EXCEPT ![l] = folder]
         /\ Len(log) \in Nat /\ Len(log') = Len(log) + 1 /\ log'[Len(log) + 1].link = l
         /\ \A i \in 1 .. Len(log) : log'[i] = log[i]
<1> DEFINE p == CASE kind = "delete" -> None
                  [] folder = None /\ kind # "delete" -> drive[l]
                  [] OTHER -> folder
           e == [link |-> l, kind |-> kind, parent |-> p]
<1>1. drive \in [Links -> FolderOrNone] /\ log \in Seq(Events)
  BY DEF DriveTypes
<1>2. p \in FolderOrNone
  BY <1>1 DEF FolderOrNone
<1>3. log' = Append(log, e) /\ drive' = [drive EXCEPT ![l] = folder]
  BY DEF Change
<1> HIDE DEF p
<1>4. e \in Events /\ e.link = l
  BY <1>2 DEF Events
<1> HIDE DEF e
<1> QED
  BY <1>1, <1>3, <1>4

\* A change of the drive leaves what the mount knows as it is.
LEMMA ChangeTypes ==
  ASSUME DriveTypes, NEW l \in Links, NEW folder \in FolderOrNone, NEW kind \in Kinds,
         Change(l, folder, kind), UNCHANGED <<last, poll, told>>,
         own' \in [Links -> SUBSET Folders]
  PROVE  DriveTypes'
<1>1. /\ drive' \in [Links -> FolderOrNone] /\ log' \in Seq(Events)
      /\ Len(log) \in Nat /\ Len(log') = Len(log) + 1
  BY LogGrows
<1>2. 0 .. Len(log) \subseteq 0 .. Len(log')
  BY <1>1
<1> QED
  BY <1>1, <1>2 DEF DriveTypes

LEMMA HandledTypes ==
  ASSUME DriveTypes, TreeTypes, NEW todo \in SUBSET Folders, Handled(todo),
         last \in Nat, last < Len(log), UNCHANGED <<drive, log, own>>
  PROVE  DriveTypes' /\ parentOf' \in [Links -> FolderOrNone]
<1>1. Len(log) \in Nat /\ last + 1 \in 1 .. Len(log) /\ log[last + 1] \in Events
  BY DEF DriveTypes
<1>2. log[last + 1].link \in Links
  BY <1>1 DEF Events
<1>3. last + 1 \in 0 .. Len(log)
  BY <1>1
<1>4. CASE todo = {}
  <2>1. last' = last + 1 /\ poll' = [pc |-> "idle", todo |-> {}]
    BY <1>4 DEF Handled, NoPoll
  <2>2. parentOf' \in [Links -> FolderOrNone]
    BY <1>4 DEF Handled, TreeTypes, FolderOrNone
  <2>3. told' \in [Links -> 0 .. Len(log)]
    BY <1>2, <1>3, <1>4 DEF Handled, DriveTypes
  <2> QED
    BY <1>3, <2>1, <2>2, <2>3 DEF DriveTypes
<1>5. CASE todo # {}
  <2>1. poll' = [pc |-> "handle", todo |-> todo] /\ UNCHANGED <<last, parentOf, told>>
    BY <1>5 DEF Handled
  <2> QED
    BY <2>1 DEF DriveTypes, TreeTypes
<1> QED
  BY <1>4, <1>5

LEMMA LastKnown == DriveTypes /\ last # None => last \in 0 .. Len(log) /\ last \in Nat
BY DEF DriveTypes

LEMMA PollTypes ==
  ASSUME DriveTypes, TreeTypes, Polling
  PROVE  DriveTypes' /\ TreeTypes' /\ UNCHANGED <<drive, log, dirs, fetch, disk, op, own>>
<1>1. CASE LatestEvent
  <2>1. last' \in 0 .. Len(log)
    BY <1>1 DEF LatestEvent, DriveTypes
  <2>2. poll.todo = {}
    BY <1>1, DirListingAssumption DEF LatestEvent, DriveTypes
  <2> QED
    BY <1>1, <2>1, <2>2 DEF LatestEvent, DriveTypes, TreeTypes, DirTypes
<1>2. CASE PollEvent
  <2>1. last \in Nat /\ last < Len(log) /\ Len(log) \in Nat
    BY <1>2, LastKnown DEF PollEvent, DriveTypes
  <2>2. log[last + 1] \in Events
    BY <2>1 DEF DriveTypes
  <2>3. ParentsToInvalidate(log[last + 1]) \in SUBSET Folders
    BY <2>2 DEF ParentsToInvalidate, Events, TreeTypes, FolderOrNone
  <2>4. \E todo \in SUBSET Folders : Handled(todo)
    BY <1>2, <2>3 DEF PollEvent
  <2>5. UNCHANGED <<drive, log, dirs, dir, fetch, disk, op, own>>
    BY <1>2 DEF PollEvent
  <2>6. DriveTypes' /\ parentOf' \in [Links -> FolderOrNone]
    BY <2>1, <2>4, <2>5, HandledTypes
  <2> QED
    BY <2>5, <2>6 DEF TreeTypes, DirTypes
<1>3. ASSUME NEW f \in Folders, Invalidate(f)
      PROVE  DriveTypes' /\ TreeTypes' /\ UNCHANGED <<drive, log, dirs, fetch, disk, op, own>>
  <2>1. last \in Nat /\ last < Len(log) /\ poll.todo \ {f} \in SUBSET Folders
    BY <1>3 DEF Invalidate, DriveTypes
  <2>2. UNCHANGED <<drive, log, dirs, fetch, disk, op, own>> /\ Handled(poll.todo \ {f})
    BY <1>3 DEF Invalidate
  <2>3. DriveTypes' /\ parentOf' \in [Links -> FolderOrNone]
    BY <2>1, <2>2, HandledTypes
  <2>4. DirTypes'
    <3>1. CASE dirs[f] = None
      BY <1>3, <3>1 DEF Invalidate, TreeTypes, DirTypes
    <3>2. CASE dirs[f] # None
      <4>1. dirs[f] \in DirNodes /\ dir' = [dir EXCEPT ![dirs[f]].fresh = FALSE]
        BY <1>3, <3>2 DEF Invalidate, TreeTypes
      <4> QED
        BY <4>1, ExpiresDoes DEF TreeTypes, Becomes
    <3> QED
      BY <3>1, <3>2
  <2> QED
    BY <2>2, <2>3, <2>4 DEF TreeTypes
<1> QED
  BY <1>1, <1>2, <1>3 DEF Polling

\* A step that changes one dirNode keeps what a handler has still to patch.
LEMMA PatchingKept ==
  ASSUME OpTypes, DirTypes, op' = op, NEW n \in DirNodes,
         \A m \in DirNodes \ {n} : dir'[m] = dir[m],
         n \in Patching => dir'[n].st = "live" /\ dir'[n].children # None
  PROVE  OpTypes'
<1>1. Patching' = Patching
  BY DEF Patching
<1>2. ASSUME NEW m \in Patching
      PROVE  m \in DirNodes /\ Live(m)' /\ Listed(m)'
  BY DEF OpTypes, Live, Listed
<1> QED
  BY <1>1, <1>2 DEF OpTypes

LEMMA NotesRaces == ASSUME races \subseteq ListingRaces, NEW h, Note(h) PROVE races' \subseteq ListingRaces
BY DEF Note

LEMMA FetchTyped ==
  ASSUME TreeTypes, NEW y \in Fetches
  PROVE  /\ fetch[y] \in FetchRecords /\ fetch[y].gen \in Nat /\ fetch[y].result \in SUBSET Links
         /\ fetch[y].pc # "idle" => fetch[y].node \in DirNodes /\ FolderOf(fetch[y].node) \in Folders
BY NodeFolder DEF TreeTypes, FetchRecords

\* Only the fetch y changed, and to x.
FetchBecomes(y, x) == x \in FetchRecords /\ (x.pc # "idle" => x.node \in DirNodes)
                      /\ fetch' = [fetch EXCEPT ![y] = x]

LEMMA FetchStays ==
  ASSUME TreeTypes, NEW y \in Fetches, NEW x, FetchBecomes(y, x)
  PROVE  /\ fetch' \in [Fetches -> FetchRecords]
         /\ \A z \in Fetches : fetch'[z].pc # "idle" => fetch'[z].node \in DirNodes
         /\ fetch'[y] = x /\ \A z \in Fetches \ {y} : fetch'[z] = fetch[z]
BY DEF TreeTypes, FetchBecomes

LEMMA NoFetchTyped == NoFetch \in FetchRecords /\ NoFetch.pc = "idle"
BY DEF NoFetch, FetchRecords

LEMMA StartFetchDoes ==
  ASSUME TreeTypes, NEW n \in DirNodes, StartFetch(n)
  PROVE  \E y \in Fetches, x \in FetchRecords :
           /\ FetchBecomes(y, x) /\ fetch[y].pc = "idle"
           /\ x.pc = "request" /\ x.node = n /\ x.gen = dir[n].gen
<1> PICK y \in Fetches :
      /\ fetch[y].pc = "idle"
      /\ fetch' = [fetch EXCEPT ![y] = [NoFetch EXCEPT !.pc = "request", !.node = n, !.gen = dir[n].gen]]
  BY DEF StartFetch
<1> DEFINE x == [NoFetch EXCEPT !.pc = "request", !.node = n, !.gen = dir[n].gen]
<1>1. dir[n].gen \in Nat
  BY FieldsTyped DEF TreeTypes
<1>2. /\ x \in FetchRecords /\ x.pc = "request" /\ x.node = n /\ x.gen = dir[n].gen
  BY <1>1 DEF NoFetch, FetchRecords
<1> HIDE DEF x
<1>3. fetch' = [fetch EXCEPT ![y] = x]
  BY DEF x
<1> QED
  BY <1>2, <1>3 DEF FetchBecomes

LEMMA LoadingTypes ==
  ASSUME Types, NEW n \in DirNodes, ServeFromDisk(n) \/ BeginLoad(n)
  PROVE  Types'
<1>0. DirTypes /\ TreeTypes /\ OpTypes /\ DriveTypes /\ FolderOf(n) \in Folders
  BY NodeFolder DEF Types, TreeTypes
<1>1. /\ Live(n) /\ StartFetch(n)
      /\ UNCHANGED <<drive, log, last, poll, dirs, parentOf, disk, op, told, own, races>>
  BY DEF ServeFromDisk, BeginLoad
<1>2. /\ DirTypes' /\ dir'[n].st = "live" /\ \A m \in DirNodes \ {n} : dir'[m] = dir[m]
      /\ Listed(n) => dir'[n].children # None
  <2>1. CASE ServeFromDisk(n)
    <3>1. disk[FolderOf(n)] # None /\ disk \in [Folders -> Listings]
      BY <2>1 DEF ServeFromDisk, Types, TreeTypes
    <3>2. Becomes(n, dir[n].st, disk[FolderOf(n)], FALSE, dir[n].gen, TRUE, dir[n].persisted,
                  dir[n].timer)
      BY <1>0, <2>1, <3>1, ServeFromDiskDoes
    <3> QED
      BY <1>1, <3>1, <3>2 DEF Becomes, Live
  <2>2. CASE BeginLoad(n)
    BY <1>0, <1>1, <2>2, BeginLoadDoes DEF Becomes, Live, Listed
  <2> QED
    BY <1>1, <2>1, <2>2
<1>3. OpTypes'
  BY <1>0, <1>1, <1>2, PatchingKept DEF OpTypes
<1>4. PICK y \in Fetches, x \in FetchRecords : FetchBecomes(y, x)
  BY <1>0, <1>1, StartFetchDoes
<1>5. TreeTypes'
  BY <1>0, <1>1, <1>2, <1>4, FetchStays DEF TreeTypes
<1>6. DriveTypes'
  BY <1>0, <1>1 DEF DriveTypes
<1> QED
  BY <1>1, <1>3, <1>5, <1>6 DEF Types

\* The fetches, up to what they persist.
LEMMA FetchingTypes ==
  ASSUME Types, NEW y \in Fetches, FetchAnswer(y) \/ FetchPublish(y) \/ FetchFails(y)
  PROVE  Types'
<1> DEFINE n == fetch[y].node
<1>0. /\ DirTypes /\ TreeTypes /\ OpTypes /\ DriveTypes /\ n \in DirNodes /\ FolderOf(n) \in Folders
      /\ races \subseteq ListingRaces /\ fetch[y] \in FetchRecords /\ fetch[y].result \in SUBSET Links
  BY FetchTyped DEF Types, TreeTypes, FetchAnswer, FetchPublish, FetchFails
<1>1. UNCHANGED <<drive, log, last, poll, dirs, parentOf, disk, op, told, own>>
  BY DEF FetchAnswer, FetchPublish, FetchFails
<1>2. \E x : FetchBecomes(y, x)
  <2>1. CASE FetchAnswer(y)
    <3> DEFINE x == [fetch[y] EXCEPT !.pc = "publish", !.result = Content(FolderOf(n))]
    <3>1. x \in FetchRecords /\ x.node = n
      BY <1>0 DEF FetchRecords, Content
    <3>2. fetch' = [fetch EXCEPT ![y] = x]
      BY <2>1 DEF FetchAnswer
    <3> QED
      BY <1>0, <3>1, <3>2 DEF FetchBecomes
  <2>2. CASE FetchPublish(y)
    <3> DEFINE x == [fetch[y] EXCEPT !.pc = "persist"]
    <3>1. x \in FetchRecords /\ x.node = n
      BY <1>0 DEF FetchRecords
    <3>2. fetch' = [fetch EXCEPT ![y] = x]
      BY <2>2 DEF FetchPublish, FetchStep
    <3> QED
      BY <1>0, <3>1, <3>2 DEF FetchBecomes
  <2>3. CASE FetchFails(y)
    BY <2>3, NoFetchTyped DEF FetchFails, FetchBecomes
  <2> QED
    BY <2>1, <2>2, <2>3
<1>3. /\ DirTypes' /\ dir'[n].st = dir[n].st /\ \A m \in DirNodes \ {n} : dir'[m] = dir[m]
      /\ Listed(n) => dir'[n].children # None
  <2>1. CASE FetchAnswer(y)
    BY <1>0, <2>1 DEF FetchAnswer, Listed, DirTypes
  <2>2. CASE FetchPublish(y)
    BY <1>0, <2>2, FetchPublishDoes, DirListingAssumption DEF Becomes, Listed
  <2>3. CASE FetchFails(y)
    BY <1>0, <2>3, FetchFailsDoes DEF Becomes, Listed
  <2> QED
    BY <2>1, <2>2, <2>3
<1> HIDE DEF n
<1>4. OpTypes'
  BY <1>0, <1>1, <1>3, PatchingKept DEF OpTypes, Live
<1>5. TreeTypes'
  BY <1>0, <1>1, <1>2, <1>3, FetchStays DEF TreeTypes
<1>6. DriveTypes'
  BY <1>0, <1>1 DEF DriveTypes
<1>7. races' \subseteq ListingRaces
  BY <1>0, NotesRaces DEF FetchAnswer, FetchPublish, FetchFails
<1> QED
  BY <1>4, <1>5, <1>6, <1>7 DEF Types

LEMMA FetchPersistTypes ==
  ASSUME Types, NEW y \in Fetches, FetchPersist(y)
  PROVE  Types'
<1> DEFINE n == fetch[y].node
<1>0. /\ DirTypes /\ TreeTypes /\ OpTypes /\ DriveTypes /\ n \in DirNodes /\ FolderOf(n) \in Folders
      /\ races \subseteq ListingRaces /\ fetch[y].gen \in Nat /\ fetch[y].result \in SUBSET Links
  BY FetchTyped DEF Types, TreeTypes, FetchPersist
<1>1. UNCHANGED <<drive, log, last, poll, dirs, op, told, own>>
  BY DEF FetchPersist
<1>2. FetchBecomes(y, NoFetch)
  BY NoFetchTyped DEF FetchPersist, FetchBecomes
<1>3. IF fetch[y].gen < dir[n].persisted
      THEN UNCHANGED <<disk, dir>>
      ELSE /\ disk' = [disk EXCEPT ![FolderOf(n)] = fetch[y].result]
           /\ Becomes(n, dir[n].st, dir[n].children, dir[n].fresh, dir[n].gen, dir[n].loading,
                      fetch[y].gen, dir[n].timer)
  BY <1>0, PersistDoes DEF FetchPersist
<1>4. parentOf' \in [Links -> FolderOrNone]
  BY <1>0 DEF FetchPersist, TreeTypes, FolderOrNone
<1>5. disk' \in [Folders -> Listings]
  BY <1>0, <1>3 DEF TreeTypes, Listings
<1>6. /\ DirTypes' /\ dir'[n].st = dir[n].st /\ dir'[n].children = dir[n].children
      /\ \A m \in DirNodes \ {n} : dir'[m] = dir[m]
  BY <1>0, <1>3 DEF Becomes, DirTypes
<1> HIDE DEF n
<1>7. OpTypes'
  BY <1>0, <1>1, <1>6, PatchingKept DEF OpTypes, Live, Listed
<1>8. TreeTypes'
  BY <1>0, <1>1, <1>2, <1>4, <1>5, <1>6, FetchStays DEF TreeTypes
<1>9. DriveTypes' /\ races' \subseteq ListingRaces
  BY <1>0, <1>1, NotesRaces DEF DriveTypes, FetchPersist
<1> QED
  BY <1>7, <1>8, <1>9 DEF Types

\* The changes of the drive, here and elsewhere.
LEMMA EntryTypes ==
  ASSUME Types, NEW n \in DirNodes, NEW m \in DirNodes, NEW l \in Links,
         CreateEntry(n, l) \/ RemoveEntry(n, l) \/ MoveEntry(n, m, l)
  PROVE  Types'
<1>0. /\ DirTypes /\ TreeTypes /\ OpTypes /\ DriveTypes
      /\ FolderOf(n) \in FolderOrNone /\ FolderOf(m) \in FolderOrNone /\ None \in FolderOrNone
  BY NodeFolder DEF Types, TreeTypes, FolderOrNone
<1>1. UNCHANGED <<last, poll, dirs, dir, fetch, parentOf, disk, told, own, races>>
  BY DEF CreateEntry, RemoveEntry, MoveEntry
<1>2. \E folder \in FolderOrNone : Change(l, folder, "update")
  BY <1>0 DEF CreateEntry, RemoveEntry, MoveEntry
<1>3. DriveTypes'
  BY <1>0, <1>1, <1>2, ChangeTypes DEF DriveTypes, Kinds
<1>4. Len(log) + 1 \in Nat
  BY <1>0 DEF DriveTypes
<1>5. op' \in Ops /\ op'.link = l /\ Live(n) /\ Listed(n)
      /\ \/ op'.pc = "upsert" /\ op'.to = n
         \/ op'.pc = "remove" /\ op'.from = n /\ op'.to = None
         \/ op'.pc = "remove" /\ op'.from = n /\ op'.to = m /\ Live(m) /\ Listed(m)
  BY <1>4 DEF CreateEntry, RemoveEntry, MoveEntry, Patch, Ops, Ready
<1>6. Patching' \subseteq {n, m} /\ \A k \in Patching' : Live(k) /\ Listed(k)
  BY <1>5 DEF Patching
<1>7. OpTypes'
  BY <1>1, <1>5, <1>6 DEF OpTypes, Live, Listed
<1>8. TreeTypes' /\ races' = races
  BY <1>0, <1>1 DEF TreeTypes, DirTypes
<1> QED
  BY <1>3, <1>7, <1>8 DEF Types

LEMMA RemoteTypes ==
  ASSUME Types, NEW l \in Links, NEW folder \in FolderOrNone, NEW kind \in Kinds,
         Remote(l, folder, kind)
  PROVE  Types'
<1>1. UNCHANGED <<last, poll, dirs, dir, fetch, parentOf, disk, op, told, races>>
  BY DEF Remote
<1>2. own' \in [Links -> SUBSET Folders]
  BY DEF Remote, Types, DriveTypes
<1>3. DriveTypes'
  BY <1>1, <1>2, ChangeTypes DEF Remote, Types
<1> QED
  BY <1>1, <1>3 DEF Types, TreeTypes, DirTypes, OpTypes, Patching, Live, Listed

LEMMA PatchedTypes ==
  ASSUME DriveTypes, op \in Ops, op.link \in Links, Patched
  PROVE  own' \in [Links -> SUBSET Folders]
<1>1. {FolderOf(n) : n \in {op.from, op.to} \ {None}} \subseteq Folders
  BY NodeFolder DEF Ops
<1> QED
  BY <1>1 DEF Patched, DriveTypes

\* The dirNode that is patched, and how.
LEMMA PatchDoes ==
  ASSUME Types, PatchRemove \/ PatchUpsert
  PROVE  \E n \in DirNodes :
           /\ n \in Patching /\ Live(n) /\ Listed(n)
           /\ n = IF op.pc = "upsert" THEN op.to ELSE op.from
           /\ Becomes(n, dir[n].st,
                      IF op.pc = "upsert" THEN dir[n].children \cup {op.link}
                      ELSE dir[n].children \ {op.link},
                      dir[n].fresh, dir[n].gen + 1, dir[n].loading, dir[n].persisted, TRUE)
           /\ parentOf' \in [Links -> FolderOrNone]
<1>0. DirTypes /\ op.link \in Links /\ parentOf \in [Links -> FolderOrNone]
  BY DEF Types, TreeTypes, OpTypes, PatchRemove, PatchUpsert
<1>1. CASE PatchRemove
  <2>1. /\ op.pc = "remove" /\ RemoveChild(op.from, op.link) /\ op.from \in Patching
        /\ op.from \in DirNodes /\ Live(op.from) /\ Listed(op.from)
    BY <1>1 DEF PatchRemove, Types, OpTypes, Patching
  <2>2. parentOf' \in [Links -> FolderOrNone]
    BY <1>0, <2>1 DEF RemoveChild, FolderOrNone
  <2>3. Becomes(op.from, dir[op.from].st, dir[op.from].children \ {op.link}, dir[op.from].fresh,
                dir[op.from].gen + 1, dir[op.from].loading, dir[op.from].persisted, TRUE)
    BY <1>0, <2>1, RemoveChildDoes
  <2> QED
    BY <2>1, <2>2, <2>3
<1>2. CASE PatchUpsert
  <2>1. /\ op.pc = "upsert" /\ UpsertChild(op.to, op.link) /\ op.to \in Patching
        /\ op.to \in DirNodes /\ Live(op.to) /\ Listed(op.to)
    BY <1>2 DEF PatchUpsert, Types, OpTypes, Patching
  <2>2. parentOf' \in [Links -> FolderOrNone]
    BY <1>0, <2>1, NodeFolder DEF UpsertChild, FolderOrNone
  <2>3. Becomes(op.to, dir[op.to].st, dir[op.to].children \cup {op.link}, dir[op.to].fresh,
                dir[op.to].gen + 1, dir[op.to].loading, dir[op.to].persisted, TRUE)
    BY <1>0, <2>1, UpsertChildDoes
  <2> QED
    BY <2>1, <2>2, <2>3
<1> QED
  BY <1>1, <1>2

LEMMA PatchTypes ==
  ASSUME Types, PatchRemove \/ PatchUpsert
  PROVE  Types'
<1>0. /\ DirTypes /\ TreeTypes /\ OpTypes /\ DriveTypes /\ op \in Ops /\ op.link \in Links
      /\ UNCHANGED <<drive, log, last, poll, dirs, fetch, disk, told>>
  BY DEF Types, TreeTypes, OpTypes, PatchRemove, PatchUpsert
<1>1. PICK n \in DirNodes :
        /\ Live(n) /\ Listed(n)
        /\ Becomes(n, dir[n].st,
                   IF op.pc = "upsert" THEN dir[n].children \cup {op.link}
                   ELSE dir[n].children \ {op.link},
                   dir[n].fresh, dir[n].gen + 1, dir[n].loading, dir[n].persisted, TRUE)
        /\ parentOf' \in [Links -> FolderOrNone]
  BY PatchDoes
<1>2. DirTypes' /\ \A m \in DirNodes : Live(m) /\ Listed(m) => Live(m)' /\ Listed(m)'
  <2>1. dir[n].children \in SUBSET Links
    BY <1>0, <1>1, FieldsTyped DEF Listed, Listings
  <2>2. dir'[n].children # None
    BY <1>0, <1>1, <2>1, DirListingAssumption DEF Becomes
  <2> QED
    BY <1>1, <2>2 DEF Becomes, Live, Listed
<1>3. own' \in [Links -> SUBSET Folders]
  <2>1. Patched \/ UNCHANGED own
    BY DEF PatchRemove, PatchUpsert
  <2> QED
    BY <1>0, <2>1, PatchedTypes DEF DriveTypes
<1>4. OpTypes'
  <2>1. CASE op' = NoPatch
    BY <2>1 DEF NoPatch, OpTypes, Ops, Patching
  <2>2. CASE op' # NoPatch
    <3>1. op.pc = "remove" /\ op.to # None /\ op' = [op EXCEPT !.pc = "upsert"]
      BY <2>2 DEF PatchRemove, PatchUpsert
    <3>2. op' \in Ops /\ op'.pc = "upsert" /\ op'.link = op.link /\ op'.to = op.to
      BY <1>0, <3>1 DEF Ops
    <3>3. op.to \in DirNodes /\ Live(op.to) /\ Listed(op.to)
      BY <1>0, <3>1 DEF OpTypes, Patching
    <3> QED
      BY <1>0, <1>2, <3>2, <3>3 DEF OpTypes, Patching
  <2> QED
    BY <2>1, <2>2
<1>5. TreeTypes' /\ DriveTypes'
  BY <1>0, <1>1, <1>2, <1>3 DEF TreeTypes, DriveTypes
<1>6. races' \subseteq ListingRaces
  BY NotesRaces DEF Types, PatchRemove, PatchUpsert
<1> QED
  BY <1>4, <1>5, <1>6 DEF Types

\* A write of a listing that is in memory.
LEMMA DiskTyped ==
  ASSUME TreeTypes, NEW n \in DirNodes,
         disk' = disk \/ disk' = [disk EXCEPT ![FolderOf(n)] = dir[n].children]
  PROVE  disk' \in [Folders -> Listings]
BY NodeFolder, FieldsTyped DEF TreeTypes

LEMMA TimerTypes ==
  ASSUME Types, NEW n \in DirNodes, Lapse(n) \/ TimerPersists(n)
  PROVE  Types'
<1>0. DirTypes /\ TreeTypes /\ OpTypes /\ DriveTypes
  BY DEF Types, TreeTypes
<1>1. UNCHANGED <<drive, log, last, poll, dirs, fetch, parentOf, op, told, own, races>>
  BY DEF Lapse, TimerPersists
<1>2. /\ DirTypes' /\ dir'[n].st = dir[n].st /\ dir'[n].children = dir[n].children
      /\ \A m \in DirNodes \ {n} : dir'[m] = dir[m]
      /\ disk' = disk \/ disk' = [disk EXCEPT ![FolderOf(n)] = dir[n].children]
  <2>1. CASE Lapse(n)
    BY <1>0, <2>1, LapseDoes DEF Becomes, Lapse
  <2>2. CASE TimerPersists(n)
    <3>1. FlushListing(n)
      BY <2>2 DEF TimerPersists
    <3> QED
      BY <1>0, <3>1, FlushListingDoes DEF Becomes
  <2> QED
    BY <2>1, <2>2
<1>3. OpTypes'
  BY <1>0, <1>1, <1>2, PatchingKept DEF OpTypes, Live, Listed
<1>4. disk' \in [Folders -> Listings]
  BY <1>0, <1>2, DiskTyped
<1> QED
  BY <1>0, <1>1, <1>2, <1>3, <1>4 DEF Types, TreeTypes, DriveTypes

LEMMA KnowingTypes ==
  ASSUME Types, NEW n \in DirNodes,
         Register(n) \/ KernelForgets(n) \/ Unregister(n) \/ Unregistered(n)
  PROVE  Types'
<1>0. DirTypes /\ TreeTypes /\ OpTypes /\ DriveTypes /\ FolderOf(n) \in Folders
  BY NodeFolder DEF Types, TreeTypes
<1>1. UNCHANGED <<drive, log, last, poll, fetch, op, told, own>>
  BY DEF Register, KernelForgets, Unregister, Unregistered
<1>2. /\ DirTypes' /\ \A m \in DirNodes \ {n} : dir'[m] = dir[m]
      /\ disk' = disk \/ disk' = [disk EXCEPT ![FolderOf(n)] = dir[n].children]
      /\ n \notin Patching
  <2>1. CASE Register(n)
    <3>1. disk' = disk /\ ~Live(n)
      BY <2>1 DEF Register, Live
    <3> QED
      BY <1>0, <2>1, <3>1, RegisterDoes DEF Becomes, OpTypes
  <2>2. CASE KernelForgets(n)
    <3>1. disk' = disk /\ n \notin {op.from, op.to}
      BY <2>2 DEF KernelForgets
    <3> QED
      BY <1>0, <2>2, <3>1, KernelForgetsDoes DEF Becomes, Patching
  <2>3. CASE Unregister(n)
    <3>1. ~Live(n)
      BY <2>3 DEF Unregister, Live
    <3> QED
      BY <1>0, <2>3, <3>1, UnregisterDoes DEF Becomes, OpTypes
  <2>4. CASE Unregistered(n)
    <3>1. disk' = disk /\ ~Live(n)
      BY <2>4 DEF Unregistered, Live
    <3> QED
      BY <1>0, <2>4, <3>1, UnregisteredDoes DEF Becomes, OpTypes
  <2> QED
    BY <2>1, <2>2, <2>3, <2>4
<1>3. OpTypes'
  BY <1>0, <1>1, <1>2, PatchingKept
<1>4. disk' \in [Folders -> Listings]
  BY <1>0, <1>2, DiskTyped
<1>5. /\ dirs' \in [Folders -> DirNodes \cup {None}] /\ parentOf' \in [Links -> FolderOrNone]
      /\ races' \subseteq ListingRaces
  <2>1. CASE Register(n)
    BY <1>0, <2>1, NotesRaces DEF Register, TreeTypes, Types
  <2>2. CASE KernelForgets(n) \/ Unregister(n)
    BY <1>0, <2>2 DEF KernelForgets, Unregister, TreeTypes, Types
  <2>3. CASE Unregistered(n)
    BY <1>0, <2>3 DEF Unregistered, TreeTypes, Types, FolderOrNone
  <2> QED
    BY <2>1, <2>2, <2>3
<1> QED
  BY <1>0, <1>1, <1>2, <1>3, <1>4, <1>5 DEF Types, TreeTypes, DriveTypes

LEMMA TypesInit == Init => Types
<1> SUFFICES ASSUME Init PROVE Types
  OBVIOUS
<1> PICK f \in BOOLEAN : f = FALSE
  OBVIOUS
<1>1. NoDirNode = [st |-> "none", children |-> None, fresh |-> f, gen |-> 0, loading |-> f,
                   persisted |-> 0, timer |-> f]
  BY Zenon DEF NoDirNode
<1>2. NoDirNode \in DirNodeRecords /\ [NoDirNode EXCEPT !.st = "live"] \in DirNodeRecords
  BY <1>1 DEF DirNodeRecords, Listings
<1>3. DirTypes
  BY <1>2 DEF Init, DirTypes
<1>4. fetch \in [Fetches -> FetchRecords] /\ \A y \in Fetches : fetch[y].pc = "idle"
  BY NoFetchTyped DEF Init
<1>5. RootNode \in DirNodes
  BY DEF DirNodes
<1>6. log \in Seq(Events) /\ Len(log) = 0
  BY DEF Init
<1>7. op \in Ops /\ Patching = {} /\ op.pc = "idle"
  BY DEF Init, NoPatch, Ops, Patching
<1>8. poll \in [pc : {"idle", "handle"}, todo : SUBSET Folders] /\ poll.todo = {}
  BY DEF Init, NoPoll
<1>9. DriveTypes
  BY <1>6, <1>8, DirListingAssumption DEF Init, DriveTypes, FolderOrNone
<1> QED
  BY <1>3, <1>4, <1>5, <1>7, <1>9, DirListingAssumption
  DEF Init, Types, TreeTypes, OpTypes, FolderOrNone, Listings

LEMMA TypesStep == Types /\ [Next]_listingVars => Types'
<1> SUFFICES ASSUME Types, [Next]_listingVars PROVE Types'
  OBVIOUS
<1>1. ASSUME NEW y \in Fetches, Fetching(y) PROVE Types'
  BY <1>1, FetchingTypes, FetchPersistTypes DEF Fetching
<1>2. ASSUME NEW n \in DirNodes, Lapse(n) \/ TimerPersists(n) PROVE Types'
  BY <1>2, TimerTypes
<1>3. CASE Polling
  <2>1. DriveTypes' /\ TreeTypes' /\ UNCHANGED op
    BY <1>3, PollTypes DEF Types
  <2>2. \A n \in DirNodes : Live(n) /\ Listed(n) => Live(n)' /\ Listed(n)'
    <3>1. CASE UNCHANGED dir
      BY <3>1 DEF Live, Listed
    <3>2. CASE \E n \in DirNodes : dir' = [dir EXCEPT ![n].fresh = FALSE]
      BY <3>2, ExpiresDoes DEF Types, TreeTypes, Becomes, Live, Listed
    <3>3. UNCHANGED dir \/ \E n \in DirNodes : dir' = [dir EXCEPT ![n].fresh = FALSE]
      BY <1>3 DEF Polling, LatestEvent, PollEvent, Invalidate, Types, TreeTypes
    <3> QED
      BY <3>1, <3>2, <3>3
  <2>3. OpTypes'
    BY <2>1, <2>2 DEF Types, OpTypes, Patching
  <2>4. races' \subseteq ListingRaces
    BY <1>3, NotesRaces DEF Types, Polling, LatestEvent, PollEvent, Invalidate
  <2> QED
    BY <2>1, <2>3, <2>4 DEF Types
<1>4. CASE Handling
  BY <1>4, PatchTypes, EntryTypes DEF Handling
<1>5. CASE Elsewhere
  BY <1>5, RemoteTypes DEF Elsewhere, Kinds, FolderOrNone
<1>6. CASE Loading
  BY <1>6, LoadingTypes DEF Loading
<1>7. CASE Knowing
  BY <1>7, KnowingTypes DEF Knowing
<1>8. CASE UNCHANGED listingVars
  BY <1>8 DEF listingVars, Types, DriveTypes, TreeTypes, DirTypes, OpTypes, Patching, Live, Listed
<1> QED
  BY <1>1, <1>2, <1>3, <1>4, <1>5, <1>6, <1>7, <1>8 DEF Next

LEMMA TypesAlways == Spec => []Types
BY TypesInit, TypesStep, PTL DEF Spec

\* Every variable keeps its type, the times a handler patches and the events it hears of
\* included.
THEOREM ListingTypes == Spec => []TypeOK
<1>1. Types => TypeOK
  BY DEF Types, DriveTypes, TreeTypes, DirTypes, TypeOK
<1> QED
  BY <1>1, TypesAlways, PTL

(***************************************************************************)
(* What is known is registered.                                            *)
(***************************************************************************)

LEMMA KnownStep == Types /\ KnownIsRegistered /\ [Next]_listingVars => KnownIsRegistered'
<1> SUFFICES ASSUME Types, KnownIsRegistered, [Next]_listingVars PROVE KnownIsRegistered'
  OBVIOUS
<1>0. DirTypes /\ TreeTypes /\ OpTypes
  BY DEF Types, TreeTypes
<1>1. ASSUME \A n \in DirNodes : dir'[n].st = "live" => dir[n].st = "live", dirs' = dirs
      PROVE  KnownIsRegistered'
  BY <1>1 DEF KnownIsRegistered, Live
<1>2. ASSUME NEW y \in Fetches, Fetching(y) PROVE KnownIsRegistered'
  <2> DEFINE n == fetch[y].node
  <2>0. n \in DirNodes /\ fetch[y].gen \in Nat /\ fetch[y].result \in SUBSET Links /\ dirs' = dirs
    BY <1>0, <1>2, FetchTyped DEF Fetching, FetchAnswer, FetchPublish, FetchFails, FetchPersist
  <2>1. CASE FetchAnswer(y)
    BY <1>1, <2>1 DEF FetchAnswer
  <2>2. CASE FetchPublish(y)
    BY <1>0, <1>1, <2>0, <2>2, FetchPublishDoes DEF Becomes
  <2>3. CASE FetchFails(y)
    BY <1>0, <1>1, <2>0, <2>3, FetchFailsDoes DEF Becomes
  <2>4. CASE FetchPersist(y)
    <3>1. Persist(n, fetch[y].result, fetch[y].gen)
      BY <2>4 DEF FetchPersist
    <3> QED
      BY <1>0, <1>1, <2>0, <3>1, PersistDoes DEF Becomes
  <2> QED
    BY <1>2, <2>1, <2>2, <2>3, <2>4 DEF Fetching
<1>3. ASSUME NEW n \in DirNodes, Lapse(n) \/ TimerPersists(n) PROVE KnownIsRegistered'
  BY <1>0, <1>1, <1>3, LapseDoes, FlushListingDoes DEF Becomes, Lapse, TimerPersists
<1>4. CASE Polling
  <2>1. UNCHANGED dir \/ \E n \in DirNodes : dir' = [dir EXCEPT ![n].fresh = FALSE]
    BY <1>0, <1>4 DEF Polling, LatestEvent, PollEvent, Invalidate, TreeTypes
  <2>2. dirs' = dirs
    BY <1>4 DEF Polling, LatestEvent, PollEvent, Invalidate
  <2> QED
    BY <1>0, <1>1, <2>1, <2>2, ExpiresDoes DEF Becomes
<1>5. CASE Handling
  <2>1. CASE PatchRemove \/ PatchUpsert
    <3>1. dirs' = dirs
      BY <2>1 DEF PatchRemove, PatchUpsert
    <3> QED
      BY <1>1, <2>1, <3>1, PatchDoes DEF Becomes
  <2>2. CASE ~(PatchRemove \/ PatchUpsert)
    BY <1>1, <1>5, <2>2 DEF Handling, CreateEntry, RemoveEntry, MoveEntry
  <2> QED
    BY <2>1, <2>2
<1>6. CASE Elsewhere
  BY <1>1, <1>6 DEF Elsewhere, Remote
<1>7. ASSUME NEW n \in DirNodes, ServeFromDisk(n) \/ BeginLoad(n) PROVE KnownIsRegistered'
  <2>1. dirs' = dirs /\ disk \in [Folders -> Listings] /\ FolderOf(n) \in Folders
    BY <1>0, <1>7, NodeFolder DEF ServeFromDisk, BeginLoad, TreeTypes
  <2> QED
    BY <1>0, <1>1, <1>7, <2>1, ServeFromDiskDoes, BeginLoadDoes DEF Becomes
<1>8. ASSUME NEW n \in DirNodes, Register(n) PROVE KnownIsRegistered'
  <2>1. /\ \A m \in DirNodes : FolderOf(m) = FolderOf(n) => ~Live(m)
        /\ dirs' = [dirs EXCEPT ![FolderOf(n)] = n]
    BY <1>8 DEF Register
  <2>2. \A m \in DirNodes \ {n} : dir'[m] = dir[m]
    BY <1>0, <1>8, RegisterDoes DEF Becomes
  <2>3. FolderOf(n) \in Folders /\ dirs \in [Folders -> DirNodes \cup {None}]
    BY <1>0, NodeFolder DEF TreeTypes
  <2> QED
    BY <2>1, <2>2, <2>3, NodeFolder DEF KnownIsRegistered, Live
<1>9. ASSUME NEW n \in DirNodes, Unregistered(n) PROVE KnownIsRegistered'
  <2>1. dirs' = dirs \/ (dirs[FolderOf(n)] = n /\ dirs' = [dirs EXCEPT ![FolderOf(n)] = None])
    BY <1>9 DEF Unregistered
  <2>2. dir'[n].st = "none" /\ \A m \in DirNodes \ {n} : dir'[m] = dir[m]
    BY <1>0, <1>9, UnregisteredDoes DEF Becomes
  <2>3. FolderOf(n) \in Folders /\ dirs \in [Folders -> DirNodes \cup {None}]
    BY <1>0, NodeFolder DEF TreeTypes
  <2> QED
    BY <2>1, <2>2, <2>3, NodeFolder DEF KnownIsRegistered, Live
<1>10. ASSUME NEW n \in DirNodes, KernelForgets(n) \/ Unregister(n) PROVE KnownIsRegistered'
  <2>1. dirs' = dirs
    BY <1>10 DEF KernelForgets, Unregister
  <2> QED
    BY <1>0, <1>1, <1>10, <2>1, KernelForgetsDoes, UnregisterDoes DEF Becomes
<1>11. CASE UNCHANGED listingVars
  BY <1>1, <1>11 DEF listingVars
<1> QED
  BY <1>2, <1>3, <1>4, <1>5, <1>6, <1>7, <1>8, <1>9, <1>10, <1>11 DEF Next, Loading, Knowing

LEMMA KnownInit == Init => KnownIsRegistered
<1> SUFFICES ASSUME Init, NEW n \in DirNodes, Live(n) PROVE dirs[FolderOf(n)] = n
  BY DEF KnownIsRegistered
<1>1. dir[n].st = IF n = RootNode THEN "live" ELSE "none"
  BY DEF Init, NoDirNode
<1>2. n = RootNode /\ FolderOf(n) = Root /\ Root \in Folders
  BY <1>1, DirListingAssumption DEF Live, RootNode, FolderOf
<1> QED
  BY <1>2 DEF Init

\* Whatever the kernel forgets and looks up again, and however late unregister runs, the events
\* reach every folder that is known.  (register, unregister.)
THEOREM KnownHear == Spec => []KnownIsRegistered
BY KnownInit, KnownStep, TypesAlways, PTL DEF Spec

(***************************************************************************)
(* One goroutine fetches a folder.                                         *)
(***************************************************************************)

LoadingInv == \A n \in DirNodes :
  IF dir[n].loading THEN \E y \in Fetches : Unpublished(n) = {y} ELSE Unpublished(n) = {}

\* What the fetches and the waiters of every dirNode see of a step that is none of theirs.
LEMMA LoadingKept ==
  ASSUME LoadingInv, \A n \in DirNodes : dir'[n].loading = dir[n].loading, fetch' = fetch
  PROVE  LoadingInv'
BY DEF LoadingInv, Unpublished, FetchesOf

\* A fetch that has published, or has still to answer, is told apart by no one that waits.
LEMMA LoadingSame ==
  ASSUME LoadingInv, \A n \in DirNodes : dir'[n].loading = dir[n].loading,
         \A n \in DirNodes : Unpublished(n)' = Unpublished(n)
  PROVE  LoadingInv'
BY DEF LoadingInv

LEMMA LoadingFetches ==
  ASSUME Types, LoadingInv, NEW y \in Fetches, Fetching(y)
  PROVE  LoadingInv'
<1> PICK n \in DirNodes : fetch[y].node = n
  BY FetchTyped DEF Types, Fetching, FetchAnswer, FetchPublish, FetchFails, FetchPersist
<1>0. /\ DirTypes /\ TreeTypes /\ n \in DirNodes /\ fetch[y].gen \in Nat
      /\ fetch[y].result \in SUBSET Links /\ fetch[y].pc # "idle" /\ fetch[y] \in FetchRecords
  BY FetchTyped DEF Types, TreeTypes, Fetching, FetchAnswer, FetchPublish, FetchFails, FetchPersist
<1>1. /\ fetch' \in [Fetches -> FetchRecords] /\ \A z \in Fetches \ {y} : fetch'[z] = fetch[z]
      /\ fetch'[y].pc # "idle" => fetch'[y].node = n
      /\ \/ fetch[y].pc = "request" /\ fetch'[y].pc = "publish" /\ dir' = dir
         \/ fetch[y].pc \in {"request", "publish"} /\ fetch'[y].pc \in {"idle", "persist"}
            /\ dir'[n].loading = FALSE /\ \A m \in DirNodes \ {n} : dir'[m] = dir[m]
         \/ fetch[y].pc = "persist" /\ fetch'[y].pc = "idle"
            /\ \A m \in DirNodes : dir'[m].loading = dir[m].loading
  <2>1. CASE FetchAnswer(y)
    <3> DEFINE x == [fetch[y] EXCEPT !.pc = "publish", !.result = Content(FolderOf(n))]
    <3>1. x \in FetchRecords /\ x.node = n /\ x.pc = "publish"
      BY <1>0 DEF FetchRecords, Content
    <3>2. fetch' = [fetch EXCEPT ![y] = x] /\ fetch[y].pc = "request" /\ dir' = dir
      BY <2>1 DEF FetchAnswer
    <3> HIDE DEF x
    <3> QED
      BY <1>0, <3>1, <3>2 DEF TreeTypes
  <2>2. CASE FetchPublish(y)
    <3> DEFINE x == [fetch[y] EXCEPT !.pc = "persist"]
    <3>1. x \in FetchRecords /\ x.node = n /\ x.pc = "persist"
      BY <1>0 DEF FetchRecords
    <3>2. fetch' = [fetch EXCEPT ![y] = x] /\ fetch[y].pc = "publish"
      BY <2>2 DEF FetchPublish, FetchStep
    <3> HIDE DEF x
    <3>3. dir'[n].loading = FALSE /\ \A m \in DirNodes \ {n} : dir'[m] = dir[m]
      <4>1. (dir'[n].loading <=> FALSE) /\ DirTypes' /\ \A m \in DirNodes \ {n} : dir'[m] = dir[m]
        BY <1>0, <2>2, FetchPublishDoes DEF Becomes
      <4>2. dir'[n].loading \in BOOLEAN
        BY <1>0, <4>1 DEF DirTypes, DirNodeRecords
      <4> QED
        BY <4>1, <4>2
    <3> QED
      BY <1>0, <3>1, <3>2, <3>3 DEF TreeTypes
  <2>3. CASE FetchFails(y)
    <3>1. fetch' = [fetch EXCEPT ![y] = NoFetch] /\ fetch[y].pc = "request"
      BY <2>3 DEF FetchFails
    <3>2. dir'[n].loading = FALSE /\ \A m \in DirNodes \ {n} : dir'[m] = dir[m]
      <4>1. (dir'[n].loading <=> FALSE) /\ DirTypes' /\ \A m \in DirNodes \ {n} : dir'[m] = dir[m]
        BY <1>0, <2>3, FetchFailsDoes DEF Becomes
      <4>2. dir'[n].loading \in BOOLEAN
        BY <1>0, <4>1 DEF DirTypes, DirNodeRecords
      <4> QED
        BY <4>1, <4>2
    <3> QED
      BY <1>0, <3>1, <3>2, NoFetchTyped DEF TreeTypes
  <2>4. CASE FetchPersist(y)
    <3>1. /\ fetch' = [fetch EXCEPT ![y] = NoFetch] /\ fetch[y].pc = "persist"
          /\ Persist(n, fetch[y].result, fetch[y].gen)
      BY <2>4 DEF FetchPersist
    <3>2. \A m \in DirNodes : dir'[m].loading = dir[m].loading
      <4>1. UNCHANGED dir \/ (/\ DirTypes' /\ (dir'[n].loading <=> dir[n].loading)
                              /\ \A m \in DirNodes \ {n} : dir'[m] = dir[m])
        BY <1>0, <3>1, PersistDoes DEF Becomes
      <4>2. DirTypes' => dir'[n].loading \in BOOLEAN /\ dir[n].loading \in BOOLEAN
        BY <1>0 DEF DirTypes, DirNodeRecords
      <4> QED
        BY <4>1, <4>2
    <3> QED
      BY <1>0, <3>1, <3>2, NoFetchTyped DEF TreeTypes
  <2> QED
    BY <2>1, <2>2, <2>3, <2>4 DEF Fetching
<1>2. \A m \in DirNodes : \A z \in Fetches :
        z \in Unpublished(m) <=> fetch[z].node = m /\ fetch[z].pc \in {"request", "publish"}
  BY DEF Unpublished, FetchesOf
<1>3. \A m \in DirNodes : \A z \in Fetches :
        z \in Unpublished(m)' <=> fetch'[z].node = m /\ fetch'[z].pc \in {"request", "publish"}
  BY DEF Unpublished, FetchesOf
<1>4. \A m \in DirNodes : Unpublished(m) \subseteq Fetches /\ Unpublished(m)' \subseteq Fetches
  BY DEF Unpublished, FetchesOf
<1>7. fetch[y].node = n
  OBVIOUS
<1>5. CASE fetch[y].pc \in {"request", "publish"} /\ fetch'[y].pc \in {"idle", "persist"}
  <2>1. dir'[n].loading = FALSE /\ \A m \in DirNodes \ {n} : dir'[m] = dir[m]
    BY <1>1, <1>5
  <2>2. Unpublished(n) = {y}
    <3>1. y \in Unpublished(n)
      BY <1>0, <1>2, <1>5, <1>7
    <3>2. \E z \in Fetches : Unpublished(n) = {z}
      BY <1>0, <3>1 DEF LoadingInv
    <3> QED
      BY <3>1, <3>2
  <2>3. Unpublished(n)' = {}
    <3>1. ASSUME NEW z \in Fetches, z \in Unpublished(n)' PROVE FALSE
      <4>1. fetch'[z].node = n /\ fetch'[z].pc \in {"request", "publish"}
        BY <1>0, <1>3, <3>1
      <4>2. z # y /\ fetch'[z] = fetch[z]
        BY <1>1, <1>5, <4>1
      <4>3. z \in Unpublished(n)
        BY <1>0, <1>2, <4>1, <4>2
      <4> QED
        BY <2>2, <4>2, <4>3
    <3> QED
      BY <1>0, <1>4, <3>1
  <2>4. ASSUME NEW m \in DirNodes \ {n} PROVE Unpublished(m)' = Unpublished(m)
    <3>1. ASSUME NEW z \in Fetches PROVE z \in Unpublished(m)' <=> z \in Unpublished(m)
      <4>1. CASE z = y
        BY <1>1, <1>2, <1>3, <1>5, <1>7, <4>1
      <4>2. CASE z # y
        BY <1>1, <1>2, <1>3, <4>2
      <4> QED
        BY <4>1, <4>2
    <3> QED
      BY <1>4, <3>1
  <2>5. ASSUME NEW m \in DirNodes
        PROVE  IF dir'[m].loading THEN \E z \in Fetches : Unpublished(m)' = {z}
               ELSE Unpublished(m)' = {}
    BY <2>1, <2>3, <2>4 DEF LoadingInv
  <2> QED
    BY <2>5 DEF LoadingInv
<1>6. CASE ~(fetch[y].pc \in {"request", "publish"} /\ fetch'[y].pc \in {"idle", "persist"})
  <2>1. \A m \in DirNodes : dir'[m].loading = dir[m].loading
    BY <1>1, <1>6
  <2>2. ASSUME NEW m \in DirNodes PROVE Unpublished(m)' = Unpublished(m)
    <3>1. ASSUME NEW z \in Fetches PROVE z \in Unpublished(m)' <=> z \in Unpublished(m)
      <4>1. CASE z = y
        BY <1>1, <1>2, <1>3, <1>6, <1>7, <4>1
      <4>2. CASE z # y
        BY <1>1, <1>2, <1>3, <4>2
      <4> QED
        BY <4>1, <4>2
    <3> QED
      BY <1>4, <3>1
  <2> QED
    BY <2>1, <2>2, LoadingSame
<1> QED
  BY <1>5, <1>6

LEMMA LoadingUnchanged ==
  ASSUME DirTypes, LoadingInv, NEW n \in DirNodes, fetch' = fetch, DirTypes',
         dir'[n].loading <=> dir[n].loading, \A m \in DirNodes \ {n} : dir'[m] = dir[m]
  PROVE  LoadingInv'
<1>1. dir'[n].loading \in BOOLEAN /\ dir[n].loading \in BOOLEAN
  BY DEF DirTypes, DirNodeRecords
<1> QED
  BY <1>1, LoadingKept

\* Who starts a fetch finds none that has still to publish.
LEMMA LoadingStarts ==
  ASSUME Types, LoadingInv, NEW n \in DirNodes, ServeFromDisk(n) \/ BeginLoad(n)
  PROVE  LoadingInv'
<1>0. /\ DirTypes /\ TreeTypes /\ ~dir[n].loading /\ StartFetch(n)
      /\ disk \in [Folders -> Listings] /\ FolderOf(n) \in Folders
  BY NodeFolder DEF Types, TreeTypes, ServeFromDisk, BeginLoad, Cold
<1>1. dir'[n].loading /\ \A m \in DirNodes \ {n} : dir'[m] = dir[m]
  BY <1>0, ServeFromDiskDoes, BeginLoadDoes DEF Becomes
<1>2. PICK y \in Fetches, x \in FetchRecords :
        FetchBecomes(y, x) /\ fetch[y].pc = "idle" /\ x.pc = "request" /\ x.node = n
  BY <1>0, StartFetchDoes
<1>3. fetch'[y] = x /\ \A z \in Fetches \ {y} : fetch'[z] = fetch[z]
  BY <1>0, <1>2, FetchStays
<1>4. Unpublished(n) = {}
  BY <1>0 DEF LoadingInv
<1>5. Unpublished(n)' = {y}
  BY <1>2, <1>3, <1>4 DEF Unpublished, FetchesOf
<1>6. ASSUME NEW m \in DirNodes \ {n} PROVE Unpublished(m)' = Unpublished(m)
  BY <1>2, <1>3 DEF Unpublished, FetchesOf
<1>7. ASSUME NEW m \in DirNodes
      PROVE  IF dir'[m].loading THEN \E z \in Fetches : Unpublished(m)' = {z}
             ELSE Unpublished(m)' = {}
  BY <1>1, <1>5, <1>6 DEF LoadingInv
<1> QED
  BY <1>7 DEF LoadingInv

LEMMA LoadingStep == Types /\ LoadingInv /\ [Next]_listingVars => LoadingInv'
<1> SUFFICES ASSUME Types, LoadingInv, [Next]_listingVars PROVE LoadingInv'
  OBVIOUS
<1>0. DirTypes /\ TreeTypes /\ OpTypes
  BY DEF Types, TreeTypes
<1>1. ASSUME NEW y \in Fetches, Fetching(y) PROVE LoadingInv'
  BY <1>1, LoadingFetches
<1>2. ASSUME NEW n \in DirNodes, Lapse(n) \/ TimerPersists(n) PROVE LoadingInv'
  BY <1>0, <1>2, LapseDoes, FlushListingDoes, LoadingUnchanged DEF Becomes, Lapse, TimerPersists
<1>3. CASE Polling
  <2>1. UNCHANGED dir \/ \E n \in DirNodes : dir' = [dir EXCEPT ![n].fresh = FALSE]
    BY <1>0, <1>3 DEF Polling, LatestEvent, PollEvent, Invalidate, TreeTypes
  <2>2. fetch' = fetch
    BY <1>3 DEF Polling, LatestEvent, PollEvent, Invalidate
  <2>3. CASE UNCHANGED dir
    BY <2>2, <2>3, LoadingKept
  <2>4. ASSUME NEW n \in DirNodes, dir' = [dir EXCEPT ![n].fresh = FALSE] PROVE LoadingInv'
    BY <1>0, <2>2, <2>4, ExpiresDoes, LoadingUnchanged DEF Becomes
  <2> QED
    BY <2>1, <2>3, <2>4
<1>4. CASE Handling
  <2>1. CASE PatchRemove \/ PatchUpsert
    <3>1. fetch' = fetch
      BY <2>1 DEF PatchRemove, PatchUpsert
    <3> QED
      BY <1>0, <2>1, <3>1, PatchDoes, LoadingUnchanged DEF Becomes
  <2>2. CASE ~(PatchRemove \/ PatchUpsert)
    BY <1>4, <2>2, LoadingKept DEF Handling, CreateEntry, RemoveEntry, MoveEntry
  <2> QED
    BY <2>1, <2>2
<1>5. CASE Elsewhere \/ UNCHANGED listingVars
  BY <1>5, LoadingKept DEF Elsewhere, Remote, listingVars
<1>6. CASE Loading
  BY <1>6, LoadingStarts DEF Loading
<1>7. ASSUME NEW n \in DirNodes, Register(n) PROVE LoadingInv'
  <2>1. fetch' = fetch /\ FetchesOf(n) = {}
    BY <1>7 DEF Register
  <2>2. ~dir[n].loading
    BY <2>1 DEF LoadingInv, Unpublished
  <2> QED
    BY <1>0, <1>7, <2>1, <2>2, RegisterDoes, LoadingUnchanged DEF Becomes
<1>8. ASSUME NEW n \in DirNodes, KernelForgets(n) \/ Unregister(n) \/ Unregistered(n)
      PROVE  LoadingInv'
  <2>1. fetch' = fetch
    BY <1>8 DEF KernelForgets, Unregister, Unregistered
  <2> QED
    BY <1>0, <1>8, <2>1, KernelForgetsDoes, UnregisterDoes, UnregisteredDoes, LoadingUnchanged
    DEF Becomes
<1> QED
  BY <1>1, <1>2, <1>3, <1>4, <1>5, <1>6, <1>7, <1>8 DEF Next, Knowing

LEMMA LoadingInit == Init => LoadingInv
<1> SUFFICES ASSUME Init, NEW n \in DirNodes
             PROVE  IF dir[n].loading THEN \E y \in Fetches : Unpublished(n) = {y}
                    ELSE Unpublished(n) = {}
  BY DEF LoadingInv
<1>1. \A y \in Fetches : fetch[y].pc = "idle"
  BY NoFetchTyped DEF Init
<1>2. ~dir[n].loading
  BY DEF Init, NoDirNode
<1> QED
  BY <1>1, <1>2 DEF Unpublished, FetchesOf

\* However many ask for a folder, forget it or patch it: one goroutine fetches it until its
\* listing is published, and who waits waits for that one.  (beginLoad, serveFromDiskCache,
\* publish.)
THEOREM FoldersFetchedOnce == Spec => []OneFetchPerFolder
<1>1. LoadingInv => OneFetchPerFolder
  <2> SUFFICES ASSUME LoadingInv, NEW n \in DirNodes
               PROVE  Cardinality(Unpublished(n)) = IF dir[n].loading THEN 1 ELSE 0
    BY DEF OneFetchPerFolder
  <2>1. CASE dir[n].loading
    <3>1. PICK y \in Fetches : Unpublished(n) = {y}
      BY <2>1 DEF LoadingInv
    <3> QED
      BY <2>1, <3>1, FS_Singleton
  <2>2. CASE ~dir[n].loading
    BY <2>2, FS_EmptySet DEF LoadingInv
  <2> QED
    BY <2>1, <2>2
<1> QED
  BY <1>1, LoadingInit, LoadingStep, TypesAlways, PTL DEF Spec

(***************************************************************************)
(* What is in memory is persisted, or about to be.                         *)
(***************************************************************************)

PersistRaces  == {"reorderedPersist", "outlivedPersist", "discardedWrite"}
NoPersistRace == races \cap PersistRaces = {}

OnDisk(n) == disk[FolderOf(n)] = dir[n].children

\* A fetch that no patch has overtaken has still to persist what it brought.
Persisting(n) == \E y \in Fetches :
  fetch[y].pc = "persist" /\ fetch[y].node = n /\ fetch[y].gen = dir[n].gen

\* The patch counts: what is persisted is no newer than what is listed, and no older unless
\* a write waits.
Counts(n) == /\ dir[n].persisted =< dir[n].gen
             /\ Live(n) /\ ~dir[n].timer => dir[n].persisted = dir[n].gen
             /\ Live(n) /\ ~Listed(n) => dir[n].gen = 0

FetchCounts == \A y \in Fetches :
  fetch[y].pc # "idle" => fetch[y].gen =< dir[fetch[y].node].gen

\* No other dirNode of a folder that is known has a write waiting.
LoneTimer(n) == NoPersistRace /\ Live(n) =>
  \A m \in DirNodes : FolderOf(m) = FolderOf(n) /\ dir[m].timer => m = n

DiskFollows(n) ==
  NoPersistRace /\ Live(n) /\ Listed(n) /\ ~dir[n].timer => OnDisk(n) \/ Persisting(n)

PersistInv == FetchCounts /\ \A n \in DirNodes : Counts(n) /\ LoneTimer(n) /\ DiskFollows(n)

\* A step that leaves the counts, the timers and the disk alone.
LEMMA PersistKept ==
  ASSUME Types, Types', PersistInv, NEW n \in DirNodes,
         \A m \in DirNodes \ {n} : dir'[m] = dir[m],
         dir'[n].st = "live" => Live(n), dir'[n].gen = dir[n].gen,
         dir'[n].persisted = dir[n].persisted, dir'[n].timer <=> dir[n].timer,
         Listed(n) => dir'[n].children # None,
         disk' = disk, races \subseteq races',
         \A y \in Fetches : fetch'[y].pc # "idle" => fetch'[y].gen =< dir[fetch'[y].node].gen,
         \A m \in DirNodes : Persisting(m) => Persisting(m)',
         \/ dir'[n].children = dir[n].children \/ dir'[n].children = disk[FolderOf(n)]
         \/ Persisting(n)' \/ ~Live(n)
  PROVE  PersistInv'
<1>1. FetchCounts'
  BY DEF PersistInv, FetchCounts, Types, TreeTypes
<1>2. NoPersistRace' => NoPersistRace
  BY DEF NoPersistRace
<1>3. ASSUME NEW m \in DirNodes PROVE Counts(m)' /\ LoneTimer(m)'
  BY <1>2, FieldsTyped DEF PersistInv, Counts, LoneTimer, Live, Listed, Types, TreeTypes
<1>4. ASSUME NEW m \in DirNodes PROVE DiskFollows(m)'
  BY <1>2 DEF PersistInv, DiskFollows, Live, Listed, OnDisk
<1> QED
  BY <1>1, <1>3, <1>4 DEF PersistInv

LEMMA PersistSame ==
  ASSUME Types, Types', PersistInv, dir' = dir, disk' = disk, fetch' = fetch, races \subseteq races'
  PROVE  PersistInv'
BY DEF PersistInv, FetchCounts, Counts, LoneTimer, DiskFollows, NoPersistRace, OnDisk, Persisting,
       Live, Listed

\* Timers and patches change no fetch.
LEMMA PersistingKept ==
  ASSUME fetch' = fetch, NEW n \in DirNodes, dir'[n].gen = dir[n].gen,
         \A m \in DirNodes \ {n} : dir'[m] = dir[m]
  PROVE  \A m \in DirNodes : Persisting(m) => Persisting(m)'
BY DEF Persisting

LEMMA PersistQuiet ==
  ASSUME Types, Types', PersistInv, NEW n \in DirNodes,
         \A m \in DirNodes \ {n} : dir'[m] = dir[m],
         dir'[n].st = "live" => Live(n), dir'[n].gen = dir[n].gen,
         dir'[n].persisted = dir[n].persisted, dir'[n].timer <=> dir[n].timer,
         dir'[n].children = dir[n].children,
         disk' = disk, races \subseteq races', fetch' = fetch
  PROVE  PersistInv'
<1>1. \A y \in Fetches : fetch'[y].pc # "idle" => fetch'[y].gen =< dir[fetch'[y].node].gen
  BY DEF PersistInv, FetchCounts
<1> QED
  BY <1>1, PersistingKept, PersistKept DEF Listed

LEMMA PersistStarts ==
  ASSUME Types, Types', PersistInv, NEW n \in DirNodes, ServeFromDisk(n) \/ BeginLoad(n)
  PROVE  PersistInv'
<1>0. /\ DirTypes /\ TreeTypes /\ StartFetch(n) /\ disk' = disk /\ races' = races
      /\ disk \in [Folders -> Listings] /\ FolderOf(n) \in Folders
  BY NodeFolder DEF Types, TreeTypes, ServeFromDisk, BeginLoad
<1>1. PICK y \in Fetches, x \in FetchRecords :
        FetchBecomes(y, x) /\ fetch[y].pc = "idle" /\ x.pc = "request" /\ x.node = n
        /\ x.gen = dir[n].gen
  BY <1>0, StartFetchDoes
<1>2. fetch'[y] = x /\ \A z \in Fetches \ {y} : fetch'[z] = fetch[z]
  BY <1>0, <1>1, FetchStays
<1>3. /\ \A m \in DirNodes \ {n} : dir'[m] = dir[m]
      /\ dir'[n].st = dir[n].st /\ dir'[n].gen = dir[n].gen
      /\ dir'[n].persisted = dir[n].persisted /\ (dir'[n].timer <=> dir[n].timer)
      /\ dir'[n].children = dir[n].children
         \/ (dir'[n].children = disk[FolderOf(n)] /\ disk[FolderOf(n)] # None)
  <2>1. CASE ServeFromDisk(n)
    <3>1. disk[FolderOf(n)] # None
      BY <2>1 DEF ServeFromDisk
    <3> QED
      BY <1>0, <2>1, <3>1, ServeFromDiskDoes DEF Becomes
  <2>2. CASE BeginLoad(n)
    BY <1>0, <2>2, BeginLoadDoes DEF Becomes
  <2> QED
    BY <2>1, <2>2
<1>4. dir[n].gen \in Nat
  BY <1>0, FieldsTyped
<1>5. \A z \in Fetches : fetch'[z].pc # "idle" => fetch'[z].gen =< dir[fetch'[z].node].gen
  BY <1>1, <1>2, <1>4 DEF PersistInv, FetchCounts
<1>6. \A m \in DirNodes : Persisting(m) => Persisting(m)'
  BY <1>1, <1>2, <1>3 DEF Persisting
<1>7. (dir'[n].st = "live" => Live(n)) /\ (Listed(n) => dir'[n].children # None)
  BY <1>3 DEF Live, Listed
<1>8. races \subseteq races'
  BY <1>0
<1> QED
  BY <1>0, <1>3, <1>5, <1>6, <1>7, <1>8, PersistKept

\* A fetch up to its publication: what it publishes it has then to persist.
LEMMA PersistPublish ==
  ASSUME Types, Types', PersistInv, NEW y \in Fetches,
         FetchAnswer(y) \/ FetchPublish(y) \/ FetchFails(y)
  PROVE  PersistInv'
<1> PICK n \in DirNodes : fetch[y].node = n
  BY FetchTyped DEF Types, FetchAnswer, FetchPublish, FetchFails
<1>0. /\ DirTypes /\ TreeTypes /\ fetch[y] \in FetchRecords /\ fetch[y].pc \in {"request", "publish"}
      /\ fetch[y].result \in SUBSET Links /\ disk' = disk /\ fetch[y].gen =< dir[n].gen
      /\ fetch[y].gen \in Nat /\ dir[n].gen \in Nat
  BY FetchTyped, FieldsTyped
  DEF Types, TreeTypes, FetchAnswer, FetchPublish, FetchFails, PersistInv, FetchCounts
<1>1. /\ fetch'[y].pc # "idle" => fetch'[y].node = n /\ fetch'[y].gen = fetch[y].gen
      /\ \A z \in Fetches \ {y} : fetch'[z] = fetch[z]
      /\ FetchPublish(y) => fetch'[y].pc = "persist"
  BY <1>0, NoFetchTyped DEF FetchAnswer, FetchPublish, FetchFails, FetchStep, TreeTypes, FetchRecords
<1>2. races \subseteq races'
  BY DEF FetchAnswer, FetchPublish, FetchFails, Note
<1>3. \A z \in Fetches : fetch'[z].pc # "idle" => fetch'[z].gen =< dir[fetch'[z].node].gen
  BY <1>0, <1>1 DEF PersistInv, FetchCounts
<1>4. /\ \A m \in DirNodes \ {n} : dir'[m] = dir[m]
      /\ dir'[n].st = dir[n].st /\ dir'[n].gen = dir[n].gen
      /\ dir'[n].persisted = dir[n].persisted /\ (dir'[n].timer <=> dir[n].timer)
      /\ \/ dir'[n].children = dir[n].children
         \/ FetchPublish(y) /\ ShouldPublish(y) /\ dir'[n].children # None
  <2>1. CASE FetchAnswer(y)
    BY <2>1 DEF FetchAnswer
  <2>2. CASE FetchPublish(y)
    <3>1. fetch[y].result # None
      BY <1>0, DirListingAssumption
    <3> QED
      BY <1>0, <2>2, <3>1, FetchPublishDoes DEF Becomes
  <2>3. CASE FetchFails(y)
    BY <1>0, <2>3, FetchFailsDoes DEF Becomes
  <2> QED
    BY <2>1, <2>2, <2>3
<1>5. \A m \in DirNodes : Persisting(m) => Persisting(m)'
  BY <1>0, <1>1, <1>4 DEF Persisting
<1>6. dir'[n].children = dir[n].children \/ Persisting(n)' \/ ~Live(n)
  <2> SUFFICES ASSUME FetchPublish(y), ShouldPublish(y), Live(n) PROVE Persisting(n)'
    BY <1>4
  <2>1. fetch[y].gen = dir[n].gen
    BY <1>0 DEF ShouldPublish, PersistInv, Counts
  <2> QED
    BY <1>1, <1>4, <2>1 DEF Persisting
<1>7. (dir'[n].st = "live" => Live(n)) /\ (Listed(n) => dir'[n].children # None)
  BY <1>4 DEF Live, Listed
<1> QED
  BY <1>0, <1>2, <1>3, <1>4, <1>5, <1>6, <1>7, PersistKept

\* What a finished fetch persists is what is listed, or another has still to persist that.
LEMMA PersistPersist ==
  ASSUME Types, Types', KnownIsRegistered, PersistInv, NEW y \in Fetches, FetchPersist(y)
  PROVE  PersistInv'
<1> PICK n \in DirNodes : fetch[y].node = n
  BY FetchTyped DEF Types, FetchPersist
<1>0. /\ DirTypes /\ TreeTypes /\ fetch[y].gen =< dir[n].gen /\ fetch[y].gen \in Nat
      /\ dir[n].gen \in Nat /\ dir[n].persisted \in Nat /\ fetch[y].pc = "persist"
      /\ Persist(n, fetch[y].result, fetch[y].gen) /\ FolderOf(n) \in Folders
      /\ disk \in [Folders -> Listings] /\ Counts(n)
  BY FetchTyped, FieldsTyped, NodeFolder
  DEF Types, TreeTypes, FetchPersist, PersistInv, FetchCounts
<1>1. fetch'[y].pc = "idle" /\ \A z \in Fetches \ {y} : fetch'[z] = fetch[z]
  BY <1>0, NoFetchTyped DEF FetchPersist, TreeTypes
<1>2. /\ races \subseteq races'
      /\ ~Live(n) => "outlivedPersist" \in races'
      /\ fetch[y].gen = dir[n].gen /\ dir[n].children # fetch[y].result
         /\ (\A z \in FetchesOf(n) \ {y} : fetch[z].pc = "persist" => fetch[z].gen # dir[n].gen)
           => "reorderedPersist" \in races'
  BY DEF FetchPersist, Note, NoRace, ListingRaces
<1>3. NoPersistRace' => NoPersistRace /\ Live(n)
  BY <1>2 DEF NoPersistRace, PersistRaces
<1>4. CASE fetch[y].gen < dir[n].persisted
  <2>1. dir' = dir /\ disk' = disk
    BY <1>0, <1>4, PersistDoes
  <2>2. FetchCounts'
    BY <1>1, <2>1 DEF PersistInv, FetchCounts
  <2>3. ASSUME NEW m \in DirNodes PROVE Counts(m)' /\ LoneTimer(m)'
    BY <1>3, <2>1 DEF PersistInv, Counts, LoneTimer, Live, Listed
  <2>4. ASSUME NEW m \in DirNodes PROVE DiskFollows(m)'
    <3>1. Persisting(m) => Persisting(m)' \/ (m = n /\ fetch[y].gen = dir[n].gen)
      BY <1>1, <2>1 DEF Persisting
    <3>2. fetch[y].gen = dir[n].gen => FALSE
      BY <1>0, <1>4 DEF Counts
    <3> QED
      BY <1>3, <2>1, <3>1, <3>2 DEF PersistInv, DiskFollows, Live, Listed, OnDisk
  <2> QED
    BY <2>2, <2>3, <2>4 DEF PersistInv
<1>5. CASE ~(fetch[y].gen < dir[n].persisted)
  <2>1. /\ disk' = [disk EXCEPT ![FolderOf(n)] = fetch[y].result]
        /\ \A m \in DirNodes \ {n} : dir'[m] = dir[m]
        /\ dir'[n].st = dir[n].st /\ dir'[n].gen = dir[n].gen /\ dir'[n].children = dir[n].children
        /\ dir'[n].persisted = fetch[y].gen /\ (dir'[n].timer <=> dir[n].timer)
    BY <1>0, <1>5, PersistDoes DEF Becomes
  <2>2. FetchCounts'
    BY <1>0, <1>1, <2>1, FetchTyped DEF PersistInv, FetchCounts
  <2>3. Counts(n)'
    BY <1>0, <1>5, <2>1 DEF Counts, Live, Listed
  <2>4. ASSUME NEW m \in DirNodes \ {n} PROVE Counts(m)'
    BY <2>1 DEF PersistInv, Counts, Live, Listed
  <2>5. ASSUME NEW m \in DirNodes PROVE LoneTimer(m)'
    BY <1>3, <2>1 DEF PersistInv, LoneTimer, Live
  <2>6. DiskFollows(n)'
    <3> SUFFICES ASSUME NoPersistRace', Live(n)', ~dir'[n].timer
                 PROVE  OnDisk(n)' \/ Persisting(n)'
      BY DEF DiskFollows
    <3>1. fetch[y].gen = dir[n].gen
      BY <1>0, <1>5, <2>1 DEF Counts, Live
    <3>2. CASE dir[n].children = fetch[y].result
      BY <1>0, <2>1, <3>2 DEF OnDisk
    <3>3. CASE dir[n].children # fetch[y].result
      <4>1. PICK z \in FetchesOf(n) \ {y} : fetch[z].pc = "persist" /\ fetch[z].gen = dir[n].gen
        BY <1>2, <3>1, <3>3 DEF NoPersistRace, PersistRaces
      <4>2. z \in Fetches /\ fetch[z].node = n
        BY DEF FetchesOf
      <4> QED
        BY <1>1, <2>1, <4>1, <4>2 DEF Persisting
    <3> QED
      BY <3>2, <3>3
  <2>7. ASSUME NEW m \in DirNodes \ {n} PROVE DiskFollows(m)'
    <3> SUFFICES ASSUME NoPersistRace', Live(m)', Listed(m)', ~dir'[m].timer
                 PROVE  OnDisk(m)' \/ Persisting(m)'
      BY DEF DiskFollows
    <3>1. Live(m) /\ Live(n) /\ Listed(m) /\ ~dir[m].timer /\ NoPersistRace
      BY <1>3, <2>1 DEF Live, Listed
    <3>2. FolderOf(m) # FolderOf(n)
      BY <3>1 DEF KnownIsRegistered
    <3>3. disk'[FolderOf(m)] = disk[FolderOf(m)]
      BY <1>0, <2>1, <3>2, NodeFolder
    <3>4. OnDisk(m) \/ Persisting(m)
      BY <3>1 DEF PersistInv, DiskFollows
    <3>5. Persisting(m) => Persisting(m)'
      BY <1>1, <2>1 DEF Persisting
    <3> QED
      BY <2>1, <3>3, <3>4, <3>5 DEF OnDisk
  <2> QED
    BY <2>2, <2>3, <2>4, <2>5, <2>6, <2>7 DEF PersistInv
<1> QED
  BY <1>4, <1>5

\* The write that waited goes out.
LEMMA PersistTimer ==
  ASSUME Types, Types', PersistInv, NEW n \in DirNodes, TimerPersists(n)
  PROVE  PersistInv'
<1>0. /\ DirTypes /\ TreeTypes /\ dir[n].gen \in Nat /\ dir[n].persisted \in Nat /\ dir[n].timer
      /\ FlushListing(n) /\ disk \in [Folders -> Listings] /\ FolderOf(n) \in Folders
      /\ Counts(n) /\ fetch' = fetch /\ races' = races
  BY FieldsTyped, NodeFolder DEF Types, TreeTypes, TimerPersists, FlushListing, PersistInv
<1>1. /\ \A m \in DirNodes \ {n} : dir'[m] = dir[m]
      /\ dir'[n].st = dir[n].st /\ dir'[n].gen = dir[n].gen /\ dir'[n].children = dir[n].children
      /\ dir'[n].persisted = dir[n].gen /\ ~dir'[n].timer
      /\ disk' = [disk EXCEPT ![FolderOf(n)] = dir[n].children]
  BY <1>0, FlushListingDoes DEF Becomes, Counts
<1>2. FetchCounts'
  BY <1>0, <1>1, FetchTyped DEF PersistInv, FetchCounts
<1>3. NoPersistRace' => NoPersistRace
  BY <1>0 DEF NoPersistRace
<1>4. ASSUME NEW m \in DirNodes PROVE Counts(m)' /\ LoneTimer(m)'
  BY <1>0, <1>1, <1>3 DEF PersistInv, Counts, LoneTimer, Live, Listed
<1>5. ASSUME NEW m \in DirNodes PROVE DiskFollows(m)'
  <2> SUFFICES ASSUME NoPersistRace', Live(m)', Listed(m)', ~dir'[m].timer
               PROVE  OnDisk(m)' \/ Persisting(m)'
    BY DEF DiskFollows
  <2>1. CASE m = n
    BY <1>0, <1>1, <2>1 DEF OnDisk
  <2>2. CASE m # n
    <3>1. Live(m) /\ Listed(m) /\ ~dir[m].timer /\ NoPersistRace
      BY <1>1, <1>3, <2>2 DEF Live, Listed
    <3>2. FolderOf(m) # FolderOf(n)
      BY <1>0, <2>2, <3>1 DEF PersistInv, LoneTimer
    <3>3. OnDisk(m) \/ Persisting(m)
      BY <3>1 DEF PersistInv, DiskFollows
    <3> QED
      BY <1>0, <1>1, <2>2, <3>2, <3>3, NodeFolder DEF OnDisk, Persisting
  <2> QED
    BY <2>1, <2>2
<1> QED
  BY <1>2, <1>4, <1>5 DEF PersistInv

\* A patch arms the timer of the one dirNode of its folder that is known.
LEMMA PersistPatch ==
  ASSUME Types, Types', KnownIsRegistered, PersistInv, PatchRemove \/ PatchUpsert
  PROVE  PersistInv'
<1>0. /\ DirTypes /\ TreeTypes /\ fetch' = fetch /\ disk' = disk /\ races \subseteq races'
      /\ DirTypes'
  BY DEF Types, TreeTypes, PatchRemove, PatchUpsert, Note
<1>1. PICK n \in DirNodes :
        /\ Live(n) /\ Listed(n)
        /\ Becomes(n, dir[n].st,
                   IF op.pc = "upsert" THEN dir[n].children \cup {op.link}
                   ELSE dir[n].children \ {op.link},
                   dir[n].fresh, dir[n].gen + 1, dir[n].loading, dir[n].persisted, TRUE)
  BY PatchDoes
<1>2. /\ \A m \in DirNodes \ {n} : dir'[m] = dir[m]
      /\ dir'[n].st = dir[n].st /\ dir'[n].gen = dir[n].gen + 1
      /\ dir'[n].persisted = dir[n].persisted /\ dir'[n].timer
  BY <1>1 DEF Becomes
<1>3. dir'[n].children # None
  <2>1. op.link \in Links /\ dir[n].children \in SUBSET Links
    BY <1>0, <1>1, FieldsTyped DEF Types, OpTypes, PatchRemove, PatchUpsert, Listed, Listings
  <2> QED
    BY <1>1, <2>1, DirListingAssumption DEF Becomes
<1>4. dir[n].gen \in Nat /\ dir[n].persisted \in Nat
  BY <1>0, FieldsTyped
<1>5. FetchCounts'
  <2> SUFFICES ASSUME NEW y \in Fetches, fetch[y].pc # "idle"
               PROVE  fetch[y].gen =< dir'[fetch[y].node].gen
    BY <1>0 DEF FetchCounts
  <2>1. fetch[y].gen =< dir[fetch[y].node].gen /\ fetch[y].node \in DirNodes /\ fetch[y].gen \in Nat
    BY <1>0, FetchTyped DEF PersistInv, FetchCounts
  <2> QED
    BY <1>2, <1>4, <2>1
<1>6. NoPersistRace' => NoPersistRace
  BY <1>0 DEF NoPersistRace
<1>7. ASSUME NEW m \in DirNodes PROVE Counts(m)'
  BY <1>2, <1>3, <1>4 DEF PersistInv, Counts, Live, Listed
<1>8. ASSUME NEW m \in DirNodes PROVE LoneTimer(m)'
  <2>1. m # n /\ Live(m) => FolderOf(m) # FolderOf(n)
    BY <1>1 DEF KnownIsRegistered
  <2> QED
    BY <1>1, <1>2, <1>6, <2>1 DEF PersistInv, LoneTimer, Live
<1>9. ASSUME NEW m \in DirNodes PROVE DiskFollows(m)'
  BY <1>0, <1>2, <1>6 DEF PersistInv, DiskFollows, Live, Listed, OnDisk, Persisting
<1> QED
  BY <1>5, <1>7, <1>8, <1>9 DEF PersistInv

\* A dirNode that takes over starts anew, with nothing listed.
LEMMA PersistRegister ==
  ASSUME Types, Types', PersistInv, NEW n \in DirNodes, Register(n)
  PROVE  PersistInv'
<1>0. /\ DirTypes /\ TreeTypes /\ fetch' = fetch /\ disk' = disk /\ races \subseteq races'
      /\ FetchesOf(n) = {}
  BY DEF Types, TreeTypes, Register, Note
<1>1. /\ \A m \in DirNodes \ {n} : dir'[m] = dir[m]
      /\ dir'[n].st = "live" /\ dir'[n].gen = 0 /\ dir'[n].persisted = 0 /\ ~dir'[n].timer
      /\ dir'[n].children = None
  BY <1>0, RegisterDoes DEF Becomes
<1>2. NoPersistRace' => /\ NoPersistRace
                        /\ \A m \in DirNodes : FolderOf(m) = FolderOf(n) => ~dir[m].timer
  <2>1. (\E m \in DirNodes : FolderOf(m) = FolderOf(n) /\ dir[m].timer)
          => "discardedWrite" \in races'
    BY DEF Register, Note, NoRace, ListingRaces
  <2> QED
    BY <1>0, <2>1 DEF NoPersistRace, PersistRaces
<1>3. FetchCounts'
  BY <1>0, <1>1, FetchTyped DEF PersistInv, FetchCounts, FetchesOf
<1>4. ASSUME NEW m \in DirNodes PROVE Counts(m)' /\ LoneTimer(m)'
  BY <1>1, <1>2 DEF PersistInv, Counts, LoneTimer, Live, Listed
<1>5. ASSUME NEW m \in DirNodes PROVE DiskFollows(m)'
  BY <1>0, <1>1, <1>2 DEF PersistInv, DiskFollows, Live, Listed, OnDisk, Persisting
<1> QED
  BY <1>3, <1>4, <1>5 DEF PersistInv

\* The dirNode that goes writes to its folder's listing only while no other took over.
LEMMA PersistUnregister ==
  ASSUME Types, Types', KnownIsRegistered, PersistInv, NEW n \in DirNodes, Unregister(n)
  PROVE  PersistInv'
<1>0. /\ DirTypes /\ TreeTypes /\ fetch' = fetch /\ races' = races /\ ~Live(n)
      /\ dir[n].gen \in Nat /\ dir[n].persisted \in Nat
      /\ disk \in [Folders -> Listings] /\ FolderOf(n) \in Folders /\ Counts(n)
  BY FieldsTyped, NodeFolder DEF Types, TreeTypes, Unregister, Live, PersistInv
<1>1. /\ \A m \in DirNodes \ {n} : dir'[m] = dir[m]
      /\ dir'[n].st # "live" /\ dir'[n].gen = dir[n].gen /\ ~dir'[n].timer
      /\ dir'[n].persisted \in {dir[n].persisted, dir[n].gen}
      /\ disk' = disk \/ (/\ disk' = [disk EXCEPT ![FolderOf(n)] = dir[n].children]
                          /\ dirs[FolderOf(n)] = n)
  BY <1>0, UnregisterDoes DEF Becomes
<1>2. FetchCounts'
  BY <1>0, <1>1, FetchTyped DEF PersistInv, FetchCounts
<1>3. NoPersistRace' => NoPersistRace
  BY <1>0 DEF NoPersistRace
<1>4. ASSUME NEW m \in DirNodes PROVE Counts(m)' /\ LoneTimer(m)'
  BY <1>0, <1>1, <1>3 DEF PersistInv, Counts, LoneTimer, Live, Listed
<1>5. ASSUME NEW m \in DirNodes PROVE DiskFollows(m)'
  <2> SUFFICES ASSUME NoPersistRace', Live(m)', Listed(m)', ~dir'[m].timer
               PROVE  OnDisk(m)' \/ Persisting(m)'
    BY DEF DiskFollows
  <2>1. m # n /\ Live(m) /\ Listed(m) /\ ~dir[m].timer /\ NoPersistRace /\ dir'[m] = dir[m]
    BY <1>1, <1>3 DEF Live, Listed
  <2>2. disk'[FolderOf(m)] = disk[FolderOf(m)]
    BY <1>0, <1>1, <2>1, NodeFolder DEF KnownIsRegistered
  <2>3. OnDisk(m) \/ Persisting(m)
    BY <2>1 DEF PersistInv, DiskFollows
  <2> QED
    BY <1>0, <2>1, <2>2, <2>3 DEF OnDisk, Persisting
<1> QED
  BY <1>2, <1>4, <1>5 DEF PersistInv

LEMMA PersistStep ==
  Types /\ Types' /\ KnownIsRegistered /\ PersistInv /\ [Next]_listingVars => PersistInv'
<1> SUFFICES ASSUME Types, Types', KnownIsRegistered, PersistInv, [Next]_listingVars
             PROVE  PersistInv'
  OBVIOUS
<1>0. DirTypes /\ TreeTypes
  BY DEF Types, TreeTypes
<1>1. ASSUME NEW y \in Fetches, Fetching(y) PROVE PersistInv'
  BY <1>1, PersistPublish, PersistPersist DEF Fetching
<1>2. ASSUME NEW n \in DirNodes, Lapse(n) PROVE PersistInv'
  BY <1>0, <1>2, LapseDoes, PersistQuiet DEF Becomes, Lapse, Live
<1>3. ASSUME NEW n \in DirNodes, TimerPersists(n) PROVE PersistInv'
  BY <1>3, PersistTimer
<1>4. CASE Polling
  <2>1. UNCHANGED dir \/ \E n \in DirNodes : dir' = [dir EXCEPT ![n].fresh = FALSE]
    BY <1>0, <1>4 DEF Polling, LatestEvent, PollEvent, Invalidate, TreeTypes
  <2>2. fetch' = fetch /\ disk' = disk /\ races \subseteq races'
    BY <1>4 DEF Polling, LatestEvent, PollEvent, Invalidate, Note
  <2>3. CASE UNCHANGED dir
    BY <2>2, <2>3, PersistSame
  <2>4. ASSUME NEW n \in DirNodes, dir' = [dir EXCEPT ![n].fresh = FALSE] PROVE PersistInv'
    BY <1>0, <2>2, <2>4, ExpiresDoes, PersistQuiet DEF Becomes, Live
  <2> QED
    BY <2>1, <2>3, <2>4
<1>5. CASE Handling
  <2>1. CASE PatchRemove \/ PatchUpsert
    BY <2>1, PersistPatch
  <2>2. CASE ~(PatchRemove \/ PatchUpsert)
    BY <1>5, <2>2, PersistSame DEF Handling, CreateEntry, RemoveEntry, MoveEntry
  <2> QED
    BY <2>1, <2>2
<1>6. CASE Elsewhere \/ UNCHANGED listingVars
  BY <1>6, PersistSame DEF Elsewhere, Remote, listingVars
<1>7. CASE Loading
  BY <1>7, PersistStarts DEF Loading
<1>8. ASSUME NEW n \in DirNodes, Register(n) \/ Unregister(n) PROVE PersistInv'
  BY <1>8, PersistRegister, PersistUnregister
<1>9. ASSUME NEW n \in DirNodes, KernelForgets(n) \/ Unregistered(n) PROVE PersistInv'
  <2>1. fetch' = fetch /\ disk' = disk /\ races' = races
    BY <1>9 DEF KernelForgets, Unregistered
  <2> QED
    BY <1>0, <1>9, <2>1, KernelForgetsDoes, UnregisteredDoes, PersistQuiet DEF Becomes
<1> QED
  BY <1>1, <1>2, <1>3, <1>4, <1>5, <1>6, <1>7, <1>8, <1>9 DEF Next, Knowing

LEMMA PersistInit == Init => PersistInv
<1> SUFFICES ASSUME Init PROVE PersistInv
  OBVIOUS
<1>1. \A y \in Fetches : fetch[y].pc = "idle"
  BY NoFetchTyped DEF Init
<1>2. \A n \in DirNodes : /\ dir[n].gen = 0 /\ dir[n].persisted = 0 /\ ~dir[n].timer
                          /\ dir[n].children = None
  BY DEF Init, NoDirNode
<1> QED
  BY <1>1, <1>2 DEF PersistInv, FetchCounts, Counts, LoneTimer, DiskFollows, Listed

\* However many fetches of a folder run at once and however its patches and its writes are
\* ordered, what rests in memory is what is on disk, outside the named races.  (persistListing,
\* schedulePersist, flushListing, unregister.)
THEOREM ListingsPersisted == Spec => []PersistedAgrees
<1>1. PersistInv => PersistedAgrees
  <2> SUFFICES ASSUME PersistInv, NoPersistRace, NEW n \in DirNodes, Live(n), Listed(n),
                      ~dir[n].timer, FetchesOf(n) = {}
               PROVE  disk[FolderOf(n)] = dir[n].children
    BY DEF PersistedAgrees, NoPersistRace, PersistRaces
  <2>1. ~Persisting(n)
    BY DEF Persisting, FetchesOf
  <2> QED
    BY <2>1 DEF PersistInv, DiskFollows, OnDisk
<1> QED
  BY <1>1, PersistInit, PersistStep, TypesAlways, KnownHear, PTL DEF Spec

(***************************************************************************)
(* What this mount changed itself.                                         *)
(***************************************************************************)

\* The folders in which l is listed, or not, for what this mount did.  While a handler moves
\* it, that is the folder it was removed from.
Mine(l) == IF op.pc # "idle" /\ op.link = l
           THEN IF op.pc = "upsert" /\ Latest(l) = op.ev
                THEN {FolderOf(n) : n \in {op.from} \ {None}} ELSE {}
           ELSE own[l]

\* A dirNode that is known, or has a write waiting.
Active(n) == Live(n) \/ dir[n].timer

ShownInMemory == \A l \in Links, n \in DirNodes :
  FolderOf(n) \in Mine(l) /\ Active(n) /\ Listed(n)
    => (l \in dir[n].children <=> drive[l] = FolderOf(n))

\* What a fetch that no patch has overtaken brings has it too.
ShownInFetches == \A l \in Links, y \in Fetches, n \in DirNodes :
  fetch[y].pc \in {"publish", "persist"} /\ fetch[y].node = n
    /\ Active(n) /\ fetch[y].gen = dir[n].gen /\ FolderOf(n) \in Mine(l)
      => (l \in fetch[y].result <=> drive[l] = FolderOf(n))

ShownOnDisk == \A l \in Links : \A f \in Mine(l) :
  \/ disk[f] = None
  \/ (l \in disk[f] <=> drive[l] = f)
  \/ \E n \in DirNodes : FolderOf(n) = f /\ dir[n].timer

TimersKnown == \A n \in DirNodes :
  dir[n].timer => dirs[FolderOf(n)] = n /\ dir[n].st \in {"live", "forgotten"}

\* What a handler's change of the drive means, until someone else changes the link.
OpMeans == op.pc # "idle" =>
  /\ op.ev =< Len(log)
  /\ Latest(op.link) = op.ev =>
       drive[op.link] = IF op.to = None THEN None ELSE FolderOf(op.to)
  /\ op.pc = "remove" /\ op.to # None => FolderOf(op.from) # FolderOf(op.to)

TimersListed == \A n \in DirNodes : dir[n].timer => Listed(n)

OwnInv == /\ OpMeans /\ TimersListed
          /\ NoPersistRace => ShownInMemory /\ ShownInFetches /\ ShownOnDisk /\ TimersKnown

LEMMA MineFolders ==
  ASSUME Types, NEW l \in Links
  PROVE  Mine(l) \subseteq Folders
BY NodeFolder DEF Mine, Types, DriveTypes, OpTypes, Ops

\* A step of the mount that patches nothing and writes nothing: it may show what is on disk
\* or what a fetch brought, and let a fetch answer.
LEMMA OwnKept ==
  ASSUME Types, Types', KnownIsRegistered, PersistInv, OwnInv, NEW n \in DirNodes,
         UNCHANGED <<drive, log, own, op, disk, dirs>>, races \subseteq races',
         \A m \in DirNodes \ {n} : dir'[m] = dir[m],
         dir'[n].st = "live" => Live(n), dir'[n].gen = dir[n].gen,
         dir'[n].timer <=> dir[n].timer,
         dir[n].timer /\ dir[n].st \in {"live", "forgotten"} => dir'[n].st \in {"live", "forgotten"},
         \/ dir'[n].children = dir[n].children
         \/ dir'[n].children = disk[FolderOf(n)] /\ ~Listed(n) /\ Live(n) /\ dir'[n].children # None
         \/ /\ dir'[n].children # None
            /\ \E y \in Fetches : /\ fetch[y].pc = "publish" /\ fetch[y].node = n
                                  /\ fetch[y].result = dir'[n].children
                                  /\ Active(n) => fetch[y].gen = dir[n].gen,
         \A y \in Fetches : fetch'[y].pc \in {"publish", "persist"} =>
           /\ fetch'[y].node = fetch[y].node /\ fetch'[y].gen = fetch[y].gen
           /\ \/ fetch[y].pc \in {"publish", "persist"} /\ fetch'[y].result = fetch[y].result
              \/ fetch'[y].result = Content(FolderOf(fetch[y].node))
  PROVE  OwnInv'
<1>0. /\ DirTypes /\ DirTypes' /\ (NoPersistRace' => NoPersistRace)
      /\ \A m \in DirNodes : FolderOf(m) \in Folders
  BY NodeFolder DEF Types, TreeTypes, NoPersistRace
<1>1. \A l \in Links : Mine(l)' = Mine(l)
  BY DEF Mine, Latest
<1>2. \A m \in DirNodes : Active(m)' => Active(m)
  BY DEF Active, Live
<1>3. OpMeans'
  BY DEF OwnInv, OpMeans, Latest
<1>4. TimersListed'
  BY DEF OwnInv, TimersListed, Listed
<1>5. ASSUME NoPersistRace' PROVE TimersKnown'
  BY <1>0, <1>5 DEF OwnInv, TimersKnown
<1>6. ASSUME NoPersistRace' PROVE ShownOnDisk'
  BY <1>0, <1>1, <1>6 DEF OwnInv, ShownOnDisk
<1>7. ASSUME NoPersistRace' PROVE ShownInFetches'
  <2> SUFFICES ASSUME NEW l \in Links, NEW y \in Fetches, NEW m \in DirNodes,
                      fetch'[y].pc \in {"publish", "persist"}, fetch'[y].node = m,
                      Active(m)', fetch'[y].gen = dir'[m].gen, FolderOf(m) \in Mine(l)'
               PROVE  l \in fetch'[y].result <=> drive'[l] = FolderOf(m)
    BY DEF ShownInFetches
  <2>1. /\ fetch[y].node = m /\ fetch[y].gen = dir[m].gen /\ Active(m) /\ FolderOf(m) \in Mine(l)
    BY <1>1, <1>2
  <2>2. CASE fetch[y].pc \in {"publish", "persist"} /\ fetch'[y].result = fetch[y].result
    BY <1>0, <1>7, <2>1, <2>2 DEF OwnInv, ShownInFetches
  <2>3. CASE fetch'[y].result = Content(FolderOf(fetch[y].node))
    BY <2>1, <2>3 DEF Content
  <2> QED
    BY <2>2, <2>3
<1>8. ASSUME NoPersistRace' PROVE ShownInMemory'
  <2> SUFFICES ASSUME NEW l \in Links, NEW m \in DirNodes, FolderOf(m) \in Mine(l)', Active(m)',
                      Listed(m)'
               PROVE  l \in dir'[m].children <=> drive'[l] = FolderOf(m)
    BY DEF ShownInMemory
  <2>1. Active(m) /\ FolderOf(m) \in Mine(l)
    BY <1>1, <1>2
  <2>2. CASE dir'[m].children = dir[m].children
    BY <1>0, <1>8, <2>1, <2>2 DEF OwnInv, ShownInMemory, Listed
  <2>3. CASE m = n /\ dir'[n].children = disk[FolderOf(n)] /\ ~Listed(n) /\ Live(n)
             /\ dir'[n].children # None
    <3>1. dirs[FolderOf(n)] = n /\ ~dir[n].timer
      BY <2>3 DEF KnownIsRegistered, OwnInv, TimersListed
    <3>2. \A k \in DirNodes : FolderOf(k) = FolderOf(n) => ~dir[k].timer
      BY <1>0, <1>8, <3>1 DEF OwnInv, TimersKnown
    <3> QED
      BY <1>0, <1>8, <2>1, <2>3, <3>2 DEF OwnInv, ShownOnDisk
  <2>4. ASSUME m = n, NEW y \in Fetches, fetch[y].pc = "publish", fetch[y].node = n,
               fetch[y].result = dir'[n].children, Active(n) => fetch[y].gen = dir[n].gen
        PROVE  l \in dir'[m].children <=> drive'[l] = FolderOf(m)
    BY <1>0, <1>8, <2>1, <2>4 DEF OwnInv, ShownInFetches
  <2> QED
    BY <2>2, <2>3, <2>4
<1> QED
  BY <1>3, <1>4, <1>5, <1>6, <1>7, <1>8 DEF OwnInv

LEMMA OwnQuiet ==
  ASSUME Types, Types', KnownIsRegistered, PersistInv, OwnInv, NEW n \in DirNodes,
         \/ Lapse(n) \/ KernelForgets(n) \/ ServeFromDisk(n) \/ BeginLoad(n)
  PROVE  OwnInv'
<1>0. /\ DirTypes /\ TreeTypes /\ disk \in [Folders -> Listings] /\ FolderOf(n) \in Folders
      /\ UNCHANGED <<drive, log, own, op, disk, dirs>> /\ races \subseteq races'
  BY NodeFolder DEF Types, TreeTypes, Lapse, KernelForgets, ServeFromDisk, BeginLoad
<1>1. /\ \A m \in DirNodes \ {n} : dir'[m] = dir[m]
      /\ dir'[n].st = dir[n].st \/ dir'[n].st = "forgotten"
      /\ dir'[n].gen = dir[n].gen /\ (dir'[n].timer <=> dir[n].timer)
      /\ \/ dir'[n].children = dir[n].children
         \/ dir'[n].children = disk[FolderOf(n)] /\ ~Listed(n) /\ Live(n) /\ dir'[n].children # None
  <2>1. CASE Lapse(n) \/ KernelForgets(n) \/ BeginLoad(n)
    BY <1>0, <2>1, LapseDoes, KernelForgetsDoes, BeginLoadDoes DEF Becomes
  <2>2. CASE ServeFromDisk(n)
    <3>1. disk[FolderOf(n)] # None /\ ~Listed(n) /\ Live(n)
      BY <2>2 DEF ServeFromDisk, Cold
    <3> QED
      BY <1>0, <2>2, <3>1, ServeFromDiskDoes DEF Becomes
  <2> QED
    BY <2>1, <2>2
<1>2. \A y \in Fetches : fetch'[y].pc \in {"publish", "persist"} => fetch'[y] = fetch[y]
  <2>1. CASE StartFetch(n)
    <3>1. PICK y \in Fetches, x \in FetchRecords : FetchBecomes(y, x) /\ x.pc = "request"
      BY <1>0, <2>1, StartFetchDoes
    <3>2. fetch'[y] = x /\ \A z \in Fetches \ {y} : fetch'[z] = fetch[z]
      BY <1>0, <3>1, FetchStays
    <3> QED
      BY <3>1, <3>2
  <2>2. CASE fetch' = fetch
    BY <2>2
  <2> QED
    BY <2>1, <2>2 DEF Lapse, KernelForgets, ServeFromDisk, BeginLoad
<1>3. dir'[n].st = "live" => Live(n)
  BY <1>1 DEF Live
<1> QED
  BY <1>0, <1>1, <1>2, <1>3, OwnKept

LEMMA OwnExpires ==
  ASSUME Types, Types', KnownIsRegistered, PersistInv, OwnInv, Polling
  PROVE  OwnInv'
<1>0. /\ DirTypes /\ UNCHANGED <<drive, log, own, op, disk, dirs, fetch>> /\ races \subseteq races'
      /\ UNCHANGED dir \/ \E n \in DirNodes : dir' = [dir EXCEPT ![n].fresh = FALSE]
  BY DEF Types, TreeTypes, Polling, LatestEvent, PollEvent, Invalidate, Note
<1>1. RootNode \in DirNodes
  BY DEF DirNodes
<1>2. PICK n \in DirNodes : /\ \A m \in DirNodes \ {n} : dir'[m] = dir[m]
                            /\ dir'[n].st = dir[n].st /\ dir'[n].gen = dir[n].gen
                            /\ (dir'[n].timer <=> dir[n].timer)
                            /\ dir'[n].children = dir[n].children
  BY <1>0, <1>1, ExpiresDoes DEF Becomes
<1>3. dir'[n].st = "live" => Live(n)
  BY <1>2 DEF Live
<1> QED
  BY <1>0, <1>2, <1>3, OwnKept

LEMMA OwnFetches ==
  ASSUME Types, Types', KnownIsRegistered, PersistInv, OwnInv, NEW y \in Fetches,
         FetchAnswer(y) \/ FetchPublish(y) \/ FetchFails(y)
  PROVE  OwnInv'
<1> PICK n \in DirNodes : fetch[y].node = n
  BY FetchTyped DEF Types, FetchAnswer, FetchPublish, FetchFails
<1>0. /\ DirTypes /\ TreeTypes /\ fetch[y] \in FetchRecords /\ fetch[y].result \in SUBSET Links
      /\ fetch[y].gen =< dir[n].gen /\ fetch[y].gen \in Nat /\ dir[n].gen \in Nat /\ Counts(n)
      /\ UNCHANGED <<drive, log, own, op, disk, dirs>> /\ races \subseteq races'
  BY FetchTyped, FieldsTyped
  DEF Types, TreeTypes, FetchAnswer, FetchPublish, FetchFails, PersistInv, FetchCounts, Note
<1>1. /\ \A z \in Fetches \ {y} : fetch'[z] = fetch[z]
      /\ fetch'[y].pc \in {"publish", "persist"} =>
           /\ fetch'[y].node = fetch[y].node /\ fetch'[y].gen = fetch[y].gen
           /\ \/ fetch[y].pc \in {"publish", "persist"} /\ fetch'[y].result = fetch[y].result
              \/ fetch'[y].result = Content(FolderOf(fetch[y].node))
  BY <1>0, NoFetchTyped DEF FetchAnswer, FetchPublish, FetchFails, FetchStep, TreeTypes, FetchRecords
<1>2. /\ \A m \in DirNodes \ {n} : dir'[m] = dir[m]
      /\ dir'[n].st = dir[n].st /\ dir'[n].gen = dir[n].gen /\ (dir'[n].timer <=> dir[n].timer)
      /\ \/ dir'[n].children = dir[n].children
         \/ /\ dir'[n].children # None /\ fetch[y].pc = "publish"
            /\ fetch[y].result = dir'[n].children /\ ShouldPublish(y)
  <2>1. CASE FetchAnswer(y)
    BY <2>1 DEF FetchAnswer
  <2>2. CASE FetchPublish(y)
    <3>1. fetch[y].result # None /\ fetch[y].pc = "publish"
      BY <1>0, <2>2, DirListingAssumption DEF FetchPublish
    <3> QED
      BY <1>0, <2>2, <3>1, FetchPublishDoes DEF Becomes
  <2>3. CASE FetchFails(y)
    BY <1>0, <2>3, FetchFailsDoes DEF Becomes
  <2> QED
    BY <2>1, <2>2, <2>3
<1>3. ShouldPublish(y) /\ Active(n) => fetch[y].gen = dir[n].gen
  BY <1>0 DEF ShouldPublish, Active, Counts, OwnInv, TimersListed
<1>4. dir'[n].st = "live" => Live(n)
  BY <1>2 DEF Live
<1> QED
  BY <1>0, <1>1, <1>2, <1>3, <1>4, OwnKept

\* A step that writes to the disk or registers a dirNode, but lists nothing else.
LEMMA OwnWrites ==
  ASSUME OwnInv, UNCHANGED <<drive, log, own, op>>, races \subseteq races',
         \A m \in DirNodes : /\ dir'[m].timer => dir[m].timer /\ dir'[m].children = dir[m].children
                             /\ Active(m)' => \/ ~Listed(m)'
                                              \/ Active(m) /\ dir'[m].children = dir[m].children,
         \A y \in Fetches : fetch'[y].pc \in {"publish", "persist"} =>
           /\ fetch'[y] = fetch[y]
           /\ Active(fetch[y].node)' => Active(fetch[y].node)
           /\ dir'[fetch[y].node].gen = dir[fetch[y].node].gen,
         NoPersistRace' => ShownOnDisk' /\ TimersKnown'
  PROVE  OwnInv'
<1>0. NoPersistRace' => NoPersistRace
  BY DEF NoPersistRace
<1>1. \A l \in Links : Mine(l)' = Mine(l)
  BY DEF Mine, Latest
<1>2. OpMeans'
  BY DEF OwnInv, OpMeans, Latest
<1>3. TimersListed'
  BY DEF OwnInv, TimersListed, Listed
<1>4. ASSUME NoPersistRace' PROVE ShownInMemory'
  BY <1>0, <1>1, <1>4 DEF OwnInv, ShownInMemory, Listed
<1>5. ASSUME NoPersistRace' PROVE ShownInFetches'
  BY <1>0, <1>1, <1>5 DEF OwnInv, ShownInFetches
<1> QED
  BY <1>2, <1>3, <1>4, <1>5 DEF OwnInv

LEMMA OwnPersist ==
  ASSUME Types, Types', KnownIsRegistered, PersistInv, OwnInv, NEW y \in Fetches, FetchPersist(y)
  PROVE  OwnInv'
<1> PICK n \in DirNodes : fetch[y].node = n
  BY FetchTyped DEF Types, FetchPersist
<1>0. /\ DirTypes /\ TreeTypes /\ fetch[y].gen =< dir[n].gen /\ fetch[y].gen \in Nat
      /\ dir[n].gen \in Nat /\ dir[n].persisted \in Nat /\ fetch[y].pc = "persist"
      /\ Persist(n, fetch[y].result, fetch[y].gen) /\ FolderOf(n) \in Folders
      /\ disk \in [Folders -> Listings] /\ Counts(n)
      /\ UNCHANGED <<drive, log, own, op, dirs>>
  BY FetchTyped, FieldsTyped, NodeFolder
  DEF Types, TreeTypes, FetchPersist, PersistInv, FetchCounts
<1>1. fetch'[y].pc = "idle" /\ \A z \in Fetches \ {y} : fetch'[z] = fetch[z]
  BY <1>0, NoFetchTyped DEF FetchPersist, TreeTypes
<1>2. races \subseteq races' /\ (~Live(n) => "outlivedPersist" \in races')
  BY DEF FetchPersist, Note, NoRace, ListingRaces
<1>3. NoPersistRace' => NoPersistRace /\ Live(n)
  BY <1>2 DEF NoPersistRace, PersistRaces
<1>4. /\ \A m \in DirNodes : /\ dir'[m].st = dir[m].st /\ dir'[m].children = dir[m].children
                             /\ dir'[m].gen = dir[m].gen /\ (dir'[m].timer <=> dir[m].timer)
      /\ \/ disk' = disk
         \/ /\ disk' = [disk EXCEPT ![FolderOf(n)] = fetch[y].result]
            /\ ~(fetch[y].gen < dir[n].persisted)
  BY <1>0, PersistDoes DEF Becomes
<1>5. ASSUME NoPersistRace' PROVE TimersKnown'
  BY <1>0, <1>3, <1>4, <1>5 DEF OwnInv, TimersKnown
<1>6. ASSUME NoPersistRace' PROVE ShownOnDisk'
  <2> SUFFICES ASSUME NEW l \in Links, NEW f \in Mine(l)'
               PROVE  \/ disk'[f] = None \/ (l \in disk'[f] <=> drive'[l] = f)
                      \/ \E m \in DirNodes : FolderOf(m) = f /\ dir'[m].timer
    BY DEF ShownOnDisk
  <2>1. f \in Mine(l) /\ f \in Folders
    BY <1>0, MineFolders DEF Mine, Latest
  <2>2. CASE disk'[f] = disk[f]
    BY <1>0, <1>3, <1>4, <1>6, <2>1, <2>2 DEF OwnInv, ShownOnDisk
  <2>3. CASE disk'[f] # disk[f] /\ dir[n].timer
    BY <1>0, <1>4, <2>1, <2>3
  <2>4. CASE disk'[f] # disk[f] /\ ~dir[n].timer
    <3>1. f = FolderOf(n) /\ disk'[f] = fetch[y].result
      BY <1>0, <1>4, <2>1, <2>4
    <3>2. fetch[y].gen = dir[n].gen
      BY <1>0, <1>3, <1>4, <1>6, <2>4 DEF Counts
    <3> QED
      BY <1>0, <1>3, <1>6, <2>1, <3>1, <3>2 DEF OwnInv, ShownInFetches, Active
  <2> QED
    BY <2>2, <2>3, <2>4
<1> QED
  BY <1>0, <1>1, <1>2, <1>4, <1>5, <1>6, FetchTyped, OwnWrites DEF Active, Live

LEMMA OwnTimer ==
  ASSUME Types, Types', KnownIsRegistered, PersistInv, OwnInv, NEW n \in DirNodes,
         TimerPersists(n) \/ Unregister(n)
  PROVE  OwnInv'
<1>0. /\ DirTypes /\ TreeTypes /\ dir[n].gen \in Nat /\ dir[n].persisted \in Nat
      /\ disk \in [Folders -> Listings] /\ FolderOf(n) \in Folders /\ Counts(n)
      /\ UNCHANGED <<drive, log, own, op, dirs, fetch, races>>
  BY FieldsTyped, NodeFolder DEF Types, TreeTypes, TimerPersists, Unregister, PersistInv
<1>1. /\ \A m \in DirNodes \ {n} : dir'[m] = dir[m]
      /\ dir'[n].st = "live" => Live(n)
      /\ dir'[n].gen = dir[n].gen /\ dir'[n].children = dir[n].children /\ ~dir'[n].timer
  <2>1. CASE TimerPersists(n)
    BY <1>0, <2>1, FlushListingDoes DEF Becomes, TimerPersists, Live
  <2>2. CASE Unregister(n)
    BY <1>0, <2>2, UnregisterDoes DEF Becomes
  <2> QED
    BY <2>1, <2>2
<1>2. NoPersistRace' => NoPersistRace
  BY <1>0 DEF NoPersistRace
<1>3. ASSUME NoPersistRace
      PROVE  IF dir[n].timer THEN disk' = [disk EXCEPT ![FolderOf(n)] = dir[n].children]
             ELSE disk' = disk
  <2>1. dir[n].timer => dirs[FolderOf(n)] = n
    BY <1>3 DEF OwnInv, TimersKnown
  <2>2. dir[n].gen >= dir[n].persisted /\ ~(dir[n].gen < dir[n].persisted)
    BY <1>0 DEF Counts
  <2> QED
    BY <2>1, <2>2 DEF TimerPersists, FlushListing, Unregister
<1>4. ASSUME NoPersistRace' PROVE TimersKnown'
  BY <1>0, <1>1, <1>2, <1>4 DEF OwnInv, TimersKnown
<1>5. ASSUME NoPersistRace' PROVE ShownOnDisk'
  <2> SUFFICES ASSUME NEW l \in Links, NEW f \in Mine(l)'
               PROVE  \/ disk'[f] = None \/ (l \in disk'[f] <=> drive'[l] = f)
                      \/ \E m \in DirNodes : FolderOf(m) = f /\ dir'[m].timer
    BY DEF ShownOnDisk
  <2>1. f \in Mine(l) /\ f \in Folders
    BY <1>0, MineFolders DEF Mine, Latest
  <2>2. CASE f = FolderOf(n) /\ dir[n].timer
    <3>1. disk'[f] = dir[n].children
      BY <1>0, <1>2, <1>3, <1>5, <2>2
    <3> QED
      BY <1>0, <1>2, <1>5, <2>1, <2>2, <3>1 DEF OwnInv, ShownInMemory, TimersListed, Active
  <2>3. CASE ~(f = FolderOf(n) /\ dir[n].timer)
    <3>1. disk'[f] = disk[f]
      BY <1>0, <1>2, <1>3, <1>5, <2>1, <2>3
    <3>2. (\E m \in DirNodes : FolderOf(m) = f /\ dir[m].timer)
            => \E m \in DirNodes : FolderOf(m) = f /\ dir'[m].timer
      BY <1>1, <2>3
    <3> QED
      BY <1>0, <1>2, <1>5, <2>1, <3>1, <3>2 DEF OwnInv, ShownOnDisk
  <2> QED
    BY <2>2, <2>3
<1>6. \A m \in DirNodes : /\ dir'[m].timer => dir[m].timer /\ dir'[m].children = dir[m].children
                          /\ Active(m)' => Active(m) /\ dir'[m].children = dir[m].children
  BY <1>1 DEF Active, Live
<1> QED
  BY <1>0, <1>1, <1>4, <1>5, <1>6, FetchTyped, OwnWrites

LEMMA OwnRegister ==
  ASSUME Types, Types', KnownIsRegistered, PersistInv, OwnInv, NEW n \in DirNodes,
         Register(n) \/ Unregistered(n)
  PROVE  OwnInv'
<1>0. /\ DirTypes /\ TreeTypes /\ UNCHANGED <<drive, log, own, op, disk, fetch>>
      /\ races \subseteq races' /\ FolderOf(n) \in Folders /\ dirs \in [Folders -> DirNodes \cup {None}]
  BY NodeFolder DEF Types, TreeTypes, Register, Unregistered, Note
<1>1. /\ \A m \in DirNodes \ {n} : dir'[m] = dir[m]
      /\ \/ Register(n) /\ ~dir'[n].timer /\ dir'[n].children = None
         \/ /\ Unregistered(n) /\ dir'[n].st = "none" /\ (dir'[n].timer <=> dir[n].timer)
            /\ dir'[n].children = dir[n].children /\ dir'[n].gen = dir[n].gen
  BY <1>0, RegisterDoes, UnregisteredDoes DEF Becomes
<1>2. NoPersistRace' => NoPersistRace
  BY <1>0 DEF NoPersistRace
<1>3. ASSUME NoPersistRace', Register(n), NEW m \in DirNodes, dir[m].timer
      PROVE  FolderOf(m) # FolderOf(n)
  <2>1. (\E k \in DirNodes : FolderOf(k) = FolderOf(n) /\ dir[k].timer)
          => "discardedWrite" \in races'
    BY <1>3 DEF Register, Note, NoRace, ListingRaces
  <2> QED
    BY <1>3, <2>1 DEF NoPersistRace, PersistRaces
<1>4. ASSUME NoPersistRace', Unregistered(n)
      PROVE  ~dir[n].timer
  BY <1>0, <1>2, <1>4 DEF Unregistered, OwnInv, TimersKnown
<1>5. ASSUME NoPersistRace', NEW m \in DirNodes, dir[m].timer
      PROVE  m # n /\ dirs'[FolderOf(m)] = dirs[FolderOf(m)]
  <2>1. CASE Register(n)
    BY <1>0, <1>3, <1>5, <2>1 DEF Register
  <2>2. CASE Unregistered(n)
    <3>1. m # n /\ dirs[FolderOf(m)] = m
      BY <1>2, <1>4, <1>5, <2>2 DEF OwnInv, TimersKnown
    <3> QED
      BY <1>0, <2>2, <3>1, NodeFolder DEF Unregistered
  <2> QED
    BY <2>1, <2>2
<1>6. ASSUME NEW m \in DirNodes, dir'[m].timer
      PROVE  dir[m].timer
  <2>1. CASE m = n
    BY <1>1, <1>6, <2>1
  <2>2. CASE m # n
    BY <1>1, <1>6, <2>2
  <2> QED
    BY <2>1, <2>2
<1>7. ASSUME NoPersistRace' PROVE TimersKnown'
  BY <1>1, <1>2, <1>5, <1>6, <1>7 DEF OwnInv, TimersKnown
<1>8. ASSUME NoPersistRace' PROVE ShownOnDisk'
  <2>1. \A l \in Links : Mine(l)' = Mine(l)
    BY <1>0 DEF Mine, Latest
  <2>2. \A m \in DirNodes : dir[m].timer => dir'[m].timer
    BY <1>1, <1>5, <1>8
  <2> QED
    BY <1>0, <1>2, <1>8, <2>1, <2>2 DEF OwnInv, ShownOnDisk
<1>9. \A m \in DirNodes :
        /\ dir'[m].timer => dir[m].timer /\ dir'[m].children = dir[m].children
        /\ Active(m)' => \/ ~Listed(m)'
                         \/ Active(m) /\ dir'[m].children = dir[m].children
  BY <1>1 DEF Active, Live, Listed
<1>10. \A y \in Fetches : fetch'[y].pc \in {"publish", "persist"} =>
         /\ fetch'[y] = fetch[y]
         /\ Active(fetch[y].node)' => Active(fetch[y].node)
         /\ dir'[fetch[y].node].gen = dir[fetch[y].node].gen
  <2> SUFFICES ASSUME NEW y \in Fetches, fetch[y].pc \in {"publish", "persist"}
               PROVE  /\ Active(fetch[y].node)' => Active(fetch[y].node)
                      /\ dir'[fetch[y].node].gen = dir[fetch[y].node].gen
    BY <1>0
  <2>1. PICK m \in DirNodes : fetch[y].node = m
    BY FetchTyped DEF Types
  <2>2. Register(n) => m # n
    BY <2>1 DEF Register, FetchesOf
  <2>3. (Active(m)' => Active(m)) /\ dir'[m].gen = dir[m].gen
    BY <1>1, <2>2 DEF Active, Live
  <2>4. fetch'[y].node = m
    BY <1>0, <2>1
  <2> QED
    BY <2>1, <2>3, <2>4 DEF Active, Live
<1> QED
  BY <1>0, <1>7, <1>8, <1>9, <1>10, OwnWrites

LEMMA LatestAfter ==
  ASSUME DriveTypes, NEW l \in Links, NEW folder \in FolderOrNone, NEW kind \in Kinds,
         Change(l, folder, kind)
  PROVE  /\ Latest(l)' = Len(log)' /\ Len(log)' = Len(log) + 1 /\ Len(log) \in Nat
         /\ \A k \in Links \ {l} : Latest(k)' = Latest(k) /\ drive'[k] = drive[k]
         /\ drive'[l] = folder
<1>0. /\ log \in Seq(Events) /\ log' \in Seq(Events) /\ drive \in [Links -> FolderOrNone]
      /\ drive' = [drive EXCEPT ![l] = folder]
      /\ Len(log) \in Nat /\ Len(log') = Len(log) + 1 /\ log'[Len(log) + 1].link = l
      /\ \A i \in 1 .. Len(log) : log'[i] = log[i]
  BY LogGrows DEF DriveTypes
<1>1. DOMAIN log = 1 .. Len(log) /\ DOMAIN log' = 1 .. Len(log) + 1
  BY <1>0
<1>2. Latest(l)' = Len(log) + 1
  <2> DEFINE S == {0} \cup {i \in DOMAIN log' : log'[i].link = l}
             p == Len(log) + 1
  <2>1. p \in S /\ \A i \in S : i \in Int /\ p \in Int /\ i =< p
    BY <1>0, <1>1
  <2> HIDE DEF S, p
  <2>2. \A x \in S : (\A y \in S : x >= y) => x = p
    BY <2>1
  <2>3. \A y \in S : p >= y
    BY <2>1
  <2>4. Max(S) = p
    BY <2>1, <2>2, <2>3 DEF Max
  <2> QED
    BY <2>4 DEF S, p, Latest
<1>3. ASSUME NEW k \in Links \ {l} PROVE Latest(k)' = Latest(k)
  <2>1. {i \in DOMAIN log' : log'[i].link = k} = {i \in DOMAIN log : log[i].link = k}
    BY <1>0, <1>1
  <2> QED
    BY <2>1 DEF Latest
<1> QED
  BY <1>0, <1>2, <1>3

\* The drive changes under a link, which is not ours from then on.
LEMMA OwnChange ==
  ASSUME Types, OwnInv, NEW l \in Links, UNCHANGED <<dir, dirs, fetch, disk, races>>,
         \A k \in Links \ {l} : drive'[k] = drive[k] /\ Mine(k)' = Mine(k),
         Mine(l)' = {}, OpMeans'
  PROVE  OwnInv'
<1>1. TimersListed'
  BY DEF OwnInv, TimersListed, Listed
<1>2. \A m \in DirNodes : Active(m)' = Active(m) /\ Listed(m)' = Listed(m)
  BY DEF Active, Live, Listed
<1>3. NoPersistRace' => NoPersistRace
  BY DEF NoPersistRace
<1>4. ASSUME NoPersistRace' PROVE ShownInMemory'
  BY <1>2, <1>3, <1>4 DEF OwnInv, ShownInMemory
<1>5. ASSUME NoPersistRace' PROVE ShownInFetches'
  BY <1>2, <1>3, <1>5 DEF OwnInv, ShownInFetches
<1>6. ASSUME NoPersistRace' PROVE ShownOnDisk' /\ TimersKnown'
  BY <1>3, <1>6 DEF OwnInv, ShownOnDisk, TimersKnown
<1> QED
  BY <1>1, <1>4, <1>5, <1>6 DEF OwnInv

LEMMA OwnRemote ==
  ASSUME Types, OwnInv, NEW l \in Links, NEW folder \in FolderOrNone, NEW kind \in Kinds,
         Remote(l, folder, kind)
  PROVE  OwnInv'
<1>0. /\ DriveTypes /\ OpTypes /\ UNCHANGED <<dir, dirs, fetch, disk, races, op>>
      /\ own' = [own EXCEPT ![l] = {}] /\ own \in [Links -> SUBSET Folders]
  BY DEF Types, DriveTypes, Remote
<1>1. /\ Latest(l)' = Len(log)' /\ Len(log)' = Len(log) + 1 /\ Len(log) \in Nat
      /\ \A k \in Links \ {l} : Latest(k)' = Latest(k) /\ drive'[k] = drive[k]
  BY <1>0, LatestAfter DEF Remote
<1>2. op.pc # "idle" => /\ op.ev \in Nat /\ op.ev =< Len(log) /\ op.link \in Links
                        /\ op.link = l => Latest(l)' # op.ev
  BY <1>0, <1>1 DEF OwnInv, OpMeans, OpTypes, Ops
<1>3. Mine(l)' = {} /\ \A k \in Links \ {l} : Mine(k)' = Mine(k)
  BY <1>0, <1>1, <1>2 DEF Mine
<1>4. OpMeans'
  <2>1. CASE op.pc # "idle" /\ op.link = l
    BY <1>0, <1>1, <1>2, <2>1 DEF OwnInv, OpMeans
  <2>2. CASE op.pc # "idle" /\ op.link # l
    BY <1>0, <1>1, <1>2, <2>2 DEF OwnInv, OpMeans
  <2>3. CASE op.pc = "idle"
    BY <1>0, <2>3 DEF OpMeans
  <2> QED
    BY <2>1, <2>2, <2>3
<1> QED
  BY <1>0, <1>1, <1>3, <1>4, OwnChange

LEMMA OwnEntries ==
  ASSUME Types, KnownIsRegistered, OwnInv, NEW n \in DirNodes, NEW m \in DirNodes, NEW l \in Links,
         CreateEntry(n, l) \/ RemoveEntry(n, l) \/ MoveEntry(n, m, l)
  PROVE  OwnInv'
<1>0. /\ DriveTypes /\ OpTypes /\ UNCHANGED <<dir, dirs, fetch, disk, races, own>>
      /\ own \in [Links -> SUBSET Folders] /\ n # None /\ m # None /\ op.pc = "idle"
      /\ FolderOf(n) \in FolderOrNone /\ FolderOf(m) \in FolderOrNone /\ None \in FolderOrNone
      /\ "update" \in Kinds
  BY DirListingAssumption, NodeFolder
  DEF Types, DriveTypes, CreateEntry, RemoveEntry, MoveEntry, Ready, FolderOrNone, Kinds
<1>1. \E folder \in FolderOrNone, to \in {None, n, m} :
        /\ Change(l, folder, "update")
        /\ folder = IF to = None THEN None ELSE FolderOf(to)
        /\ \/ Patch("upsert", l, None, to)
           \/ Patch("remove", l, n, to) /\ (to # None => FolderOf(n) # FolderOf(to))
  <2>1. CASE CreateEntry(n, l)
    BY <1>0, <2>1 DEF CreateEntry
  <2>2. CASE RemoveEntry(n, l)
    BY <1>0, <2>2 DEF RemoveEntry
  <2>3. CASE MoveEntry(n, m, l)
    <3>1. FolderOf(n) # FolderOf(m)
      BY <2>3 DEF MoveEntry, Ready, KnownIsRegistered
    <3> QED
      BY <1>0, <2>3, <3>1 DEF MoveEntry
  <2> QED
    BY <2>1, <2>2, <2>3
<1>2. PICK folder \in FolderOrNone, to \in {None, n, m} :
        /\ Change(l, folder, "update")
        /\ folder = IF to = None THEN None ELSE FolderOf(to)
        /\ \/ Patch("upsert", l, None, to)
           \/ Patch("remove", l, n, to) /\ (to # None => FolderOf(n) # FolderOf(to))
  BY <1>1
<1>3. /\ Latest(l)' = Len(log)' /\ Len(log)' = Len(log) + 1 /\ Len(log) \in Nat
      /\ \A k \in Links \ {l} : Latest(k)' = Latest(k) /\ drive'[k] = drive[k]
      /\ drive'[l] = folder
  BY <1>0, <1>2, LatestAfter
<1>4. /\ op'.link = l /\ op'.to = to /\ op'.ev = Len(log) + 1
      /\ \/ op'.pc = "upsert" /\ op'.from = None
         \/ op'.pc = "remove" /\ op'.from = n /\ (to # None => FolderOf(n) # FolderOf(to))
  BY <1>2 DEF Patch
<1>5. Mine(l)' = {} /\ \A k \in Links \ {l} : Mine(k)' = Mine(k)
  BY <1>0, <1>4 DEF Mine
<1>6. OpMeans'
  BY <1>2, <1>3, <1>4 DEF OpMeans
<1> QED
  BY <1>0, <1>3, <1>5, <1>6, OwnChange

\* Only what is patched, and only in the folder of the dirNode patched, comes to count as ours.
LEMMA PatchMine ==
  ASSUME Types, OpMeans, PatchRemove \/ PatchUpsert, NEW n \in DirNodes, n \in Patching,
         NEW l \in Links, op.link = l,
         n = IF op.pc = "upsert" THEN op.to ELSE op.from
  PROVE  /\ \A k \in Links \ {l} : Mine(k)' = Mine(k)
         /\ Mine(l)' \subseteq {FolderOf(n)} \cup Mine(l)
         /\ Mine(l)' # {} => Latest(l) = op.ev
         /\ Latest(l) = op.ev =>
              IF op.pc = "upsert" THEN drive[l] = FolderOf(n)
              ELSE drive[l] # FolderOf(n)
         /\ OpMeans'
<1>0. /\ op \in Ops /\ op.link = l /\ own \in [Links -> SUBSET Folders]
      /\ UNCHANGED <<drive, log>> /\ op.pc # "idle" /\ n # None
      /\ FolderOf(n) \in Folders /\ None \notin Folders
  BY DirListingAssumption, NodeFolder DEF Types, OpTypes, DriveTypes, PatchRemove, PatchUpsert
<1>1. \A k \in Links : Latest(k)' = Latest(k)
  BY <1>0 DEF Latest
<1>2. \/ op' = NoPatch /\ Patched
      \/ /\ op.pc = "remove" /\ op.to # None /\ own' = own
         /\ op'.pc = "upsert" /\ op'.link = l /\ op'.from = op.from
         /\ op'.to = op.to /\ op'.ev = op.ev
  BY <1>0 DEF PatchRemove, PatchUpsert, Ops
<1>3. Latest(l) = op.ev =>
        IF op.pc = "upsert" THEN drive[l] = FolderOf(n)
        ELSE drive[l] # FolderOf(n)
  BY <1>0 DEF OpMeans, Ops
<1>4. CASE op' = NoPatch /\ Patched
  <2>1. \A k \in Links : Mine(k)' = own'[k]
    BY <1>4 DEF Mine, NoPatch
  <2>2. own'[l] = IF Latest(l) = op.ev
                        THEN {FolderOf(k) : k \in {op.from, op.to} \ {None}} ELSE {}
    BY <1>0, <1>4 DEF Patched
  <2>3. \A k \in Links \ {l} : own'[k] = own[k] /\ Mine(k) = own[k]
    BY <1>0, <1>4 DEF Patched, Mine
  <2>4. Latest(l) = op.ev =>
          {FolderOf(k) : k \in {op.from, op.to} \ {None}} \subseteq {FolderOf(n)} \cup Mine(l)
    <3>1. CASE op.pc = "upsert"
      BY <1>0, <3>1 DEF Mine
    <3>2. CASE op.pc # "upsert"
      <4>1. op.pc = "remove" /\ op.to = None
        BY <1>4, <3>2 DEF PatchRemove, PatchUpsert, NoPatch, Ops
      <4> QED
        BY <1>0, <4>1
    <3> QED
      BY <3>1, <3>2
  <2>5. OpMeans'
    BY <1>4 DEF OpMeans, NoPatch
  <2> QED
    BY <1>3, <2>1, <2>2, <2>3, <2>4, <2>5
<1>5. CASE ~(op' = NoPatch /\ Patched)
  <2>1. /\ op.pc = "remove" /\ op.to # None /\ own' = own
        /\ op'.pc = "upsert" /\ op'.link = l /\ op'.from = op.from
        /\ op'.to = op.to /\ op'.ev = op.ev
    BY <1>2, <1>5
  <2>2. \A k \in Links \ {l} : Mine(k)' = Mine(k)
    BY <2>1 DEF Mine
  <2>3. Mine(l)' = IF Latest(l) = op.ev THEN {FolderOf(k) : k \in {n} \ {None}} ELSE {}
    BY <1>0, <1>1, <2>1 DEF Mine
  <2>4. OpMeans'
    BY <1>0, <1>1, <2>1 DEF OpMeans
  <2> QED
    BY <1>3, <2>2, <2>3, <2>4
<1> QED
  BY <1>4, <1>5

LEMMA OwnPatch ==
  ASSUME Types, Types', KnownIsRegistered, PersistInv, OwnInv, PatchRemove \/ PatchUpsert
  PROVE  OwnInv'
<1>0. /\ DirTypes /\ TreeTypes /\ UNCHANGED <<drive, log, dirs, fetch, disk>>
      /\ races \subseteq races'
  BY DEF Types, TreeTypes, PatchRemove, PatchUpsert, Note
<1> PICK l \in Links : op.link = l
  BY DEF Types, OpTypes, PatchRemove, PatchUpsert
<1>1. PICK n \in DirNodes :
        /\ n \in Patching /\ Live(n) /\ Listed(n)
        /\ n = IF op.pc = "upsert" THEN op.to ELSE op.from
        /\ Becomes(n, dir[n].st,
                   IF op.pc = "upsert" THEN dir[n].children \cup {l} ELSE dir[n].children \ {l},
                   dir[n].fresh, dir[n].gen + 1, dir[n].loading, dir[n].persisted, TRUE)
  BY PatchDoes
<1>2. /\ \A k \in Links \ {l} : Mine(k)' = Mine(k)
      /\ Mine(l)' \subseteq {FolderOf(n)} \cup Mine(l)
      /\ Mine(l)' # {} => Latest(l) = op.ev
      /\ Latest(l) = op.ev =>
           IF op.pc = "upsert" THEN drive[l] = FolderOf(n) ELSE drive[l] # FolderOf(n)
      /\ OpMeans'
  BY <1>1, PatchMine DEF OwnInv
<1>3. /\ \A m \in DirNodes \ {n} : dir'[m] = dir[m]
      /\ dir'[n].st = "live" /\ dir'[n].gen = dir[n].gen + 1 /\ dir'[n].timer
      /\ dir'[n].children = IF op.pc = "upsert" THEN dir[n].children \cup {l}
                            ELSE dir[n].children \ {l}
  BY <1>1 DEF Becomes, Live
<1>4. dir[n].children \in SUBSET Links /\ dir'[n].children # None /\ dir[n].gen \in Nat
  <2>1. dir[n].children \in SUBSET Links /\ dir[n].gen \in Nat
    BY <1>0, <1>1, FieldsTyped DEF Listed, Listings
  <2> QED
    BY <1>3, <2>1, DirListingAssumption
<1>5. NoPersistRace' => NoPersistRace
  BY <1>0 DEF NoPersistRace
<1>6. ASSUME NEW k \in Links, FolderOf(n) \in Mine(k)'
      PROVE  \/ k = l /\ (k \in dir'[n].children <=> drive[k] = FolderOf(n))
             \/ FolderOf(n) \in Mine(k) /\ (k \in dir'[n].children <=> k \in dir[n].children)
  <2>1. CASE k = l
    BY <1>2, <1>3, <1>6, <2>1
  <2>2. CASE k # l
    BY <1>2, <1>3, <1>6, <2>2
  <2> QED
    BY <2>1, <2>2
<1>7. ASSUME NEW k \in Links, NEW f \in Mine(k)', f # FolderOf(n)
      PROVE  f \in Mine(k)
  BY <1>2, <1>7
<1>8. ASSUME NoPersistRace', NEW m \in DirNodes, Active(m)', m # n
      PROVE  dir'[m] = dir[m] /\ Active(m) /\ FolderOf(m) # FolderOf(n)
  <2>1. dir'[m] = dir[m] /\ Active(m)
    BY <1>3, <1>8 DEF Active, Live
  <2>2. dirs[FolderOf(m)] = m /\ dirs[FolderOf(n)] = n
    BY <1>1, <1>5, <1>8, <2>1 DEF Active, KnownIsRegistered, OwnInv, TimersKnown
  <2> QED
    BY <1>8, <2>1, <2>2
<1>9. ASSUME NoPersistRace' PROVE ShownInMemory'
  <2> SUFFICES ASSUME NEW k \in Links, NEW m \in DirNodes, FolderOf(m) \in Mine(k)', Active(m)',
                      Listed(m)'
               PROVE  k \in dir'[m].children <=> drive'[k] = FolderOf(m)
    BY DEF ShownInMemory
  <2>1. CASE m = n
    BY <1>0, <1>1, <1>5, <1>6, <1>9, <2>1 DEF OwnInv, ShownInMemory, Active
  <2>2. CASE m # n
    BY <1>0, <1>5, <1>7, <1>8, <1>9, <2>2 DEF OwnInv, ShownInMemory, Listed
  <2> QED
    BY <2>1, <2>2
<1>10. ASSUME NoPersistRace' PROVE ShownInFetches'
  <2> SUFFICES ASSUME NEW k \in Links, NEW y \in Fetches, NEW m \in DirNodes,
                      fetch[y].pc \in {"publish", "persist"}, fetch[y].node = m,
                      Active(m)', fetch[y].gen = dir'[m].gen, FolderOf(m) \in Mine(k)'
               PROVE  k \in fetch[y].result <=> drive'[k] = FolderOf(m)
    BY <1>0 DEF ShownInFetches
  <2>1. m # n
    <3>1. fetch[y].gen \in Nat /\ fetch[y].gen =< dir[m].gen
      BY <1>0, FetchTyped DEF PersistInv, FetchCounts
    <3> QED
      BY <1>3, <1>4, <3>1
  <2> QED
    BY <1>0, <1>5, <1>7, <1>8, <1>10, <2>1 DEF OwnInv, ShownInFetches
<1>11. ASSUME NoPersistRace' PROVE ShownOnDisk'
  <2> SUFFICES ASSUME NEW k \in Links, NEW f \in Mine(k)'
               PROVE  \/ disk[f] = None \/ (k \in disk[f] <=> drive[k] = f)
                      \/ \E m \in DirNodes : FolderOf(m) = f /\ dir'[m].timer
    BY <1>0 DEF ShownOnDisk
  <2>1. CASE f = FolderOf(n)
    BY <1>3, <2>1
  <2>2. CASE f # FolderOf(n)
    <3>1. f \in Mine(k)
      BY <1>7, <2>2
    <3>2. \A m \in DirNodes : FolderOf(m) = f => dir'[m] = dir[m]
      BY <1>3, <2>2
    <3> QED
      BY <1>5, <1>11, <3>1, <3>2 DEF OwnInv, ShownOnDisk
  <2> QED
    BY <2>1, <2>2
<1>12. ASSUME NoPersistRace' PROVE TimersKnown'
  BY <1>0, <1>1, <1>3, <1>5, <1>12 DEF OwnInv, TimersKnown, KnownIsRegistered
<1>13. TimersListed'
  BY <1>3, <1>4 DEF OwnInv, TimersListed, Listed
<1> QED
  BY <1>2, <1>9, <1>10, <1>11, <1>12, <1>13 DEF OwnInv

LEMMA OwnStep ==
  Types /\ Types' /\ KnownIsRegistered /\ PersistInv /\ OwnInv /\ [Next]_listingVars => OwnInv'
<1> SUFFICES ASSUME Types, Types', KnownIsRegistered, PersistInv, OwnInv, [Next]_listingVars
             PROVE  OwnInv'
  OBVIOUS
<1>1. ASSUME NEW y \in Fetches, Fetching(y) PROVE OwnInv'
  BY <1>1, OwnFetches, OwnPersist DEF Fetching
<1>2. ASSUME NEW n \in DirNodes, Lapse(n) \/ TimerPersists(n) PROVE OwnInv'
  BY <1>2, OwnQuiet, OwnTimer
<1>3. CASE Polling
  BY <1>3, OwnExpires
<1>4. CASE Handling
  <2>1. CASE PatchRemove \/ PatchUpsert
    BY <2>1, OwnPatch
  <2>2. ASSUME NEW n \in DirNodes, NEW l \in Links, CreateEntry(n, l) \/ RemoveEntry(n, l)
        PROVE  OwnInv'
    BY <2>2, OwnEntries
  <2>3. ASSUME NEW n \in DirNodes, NEW m \in DirNodes, NEW l \in Links, MoveEntry(n, m, l)
        PROVE  OwnInv'
    BY <2>3, OwnEntries
  <2> QED
    BY <1>4, <2>1, <2>2, <2>3 DEF Handling
<1>5. CASE Elsewhere
  BY <1>5, OwnRemote DEF Elsewhere, FolderOrNone, Kinds
<1>6. CASE Loading
  BY <1>6, OwnQuiet DEF Loading
<1>7. CASE Knowing
  BY <1>7, OwnQuiet, OwnTimer, OwnRegister DEF Knowing
<1>8. CASE UNCHANGED listingVars
  <2>1. UNCHANGED <<drive, log, own, op, disk, dirs, dir, fetch, races>>
    BY <1>8 DEF listingVars
  <2>2. /\ \A l \in Links : Mine(l)' = Mine(l)
        /\ \A n \in DirNodes : Active(n)' = Active(n) /\ Listed(n)' = Listed(n)
    BY <2>1 DEF Mine, Latest, Active, Live, Listed
  <2>3. NoPersistRace' => NoPersistRace
    BY <2>1 DEF NoPersistRace
  <2>4. ASSUME NoPersistRace' PROVE ShownOnDisk' /\ TimersKnown'
    BY <2>1, <2>2, <2>3, <2>4 DEF OwnInv, ShownOnDisk, TimersKnown
  <2> QED
    BY <2>1, <2>2, <2>4, OwnWrites DEF Active, Live
<1> QED
  BY <1>1, <1>2, <1>3, <1>4, <1>5, <1>6, <1>7, <1>8 DEF Next

LEMMA OwnInit == Init => OwnInv
<1> SUFFICES ASSUME Init PROVE OwnInv
  OBVIOUS
<1>1. op.pc = "idle" /\ \A l \in Links : Mine(l) = {}
  BY DEF Init, NoPatch, Mine
<1>2. \A n \in DirNodes : ~dir[n].timer
  BY DEF Init, NoDirNode
<1> QED
  BY <1>1, <1>2 DEF OwnInv, OpMeans, TimersListed, ShownInMemory, ShownInFetches, ShownOnDisk,
                    TimersKnown

\* What this mount changed shows in its own listings until someone changes it again: no fetch
\* that began before the patch undoes it, and no dirNode that the kernel looks up anew shows an
\* older listing from the disk.  (shouldPublish, persistListing, unregister.)
THEOREM OwnChangesStay == Spec => []OwnChangesShown
<1>1. OwnInv => OwnChangesShown
  <2> SUFFICES ASSUME OwnInv, NoPersistRace, NEW l \in Links, NEW n \in DirNodes, Live(n),
                      Listed(n), FolderOf(n) \in own[l], op.link # l
               PROVE  l \in dir[n].children <=> drive[l] = FolderOf(n)
    BY DEF OwnChangesShown, NoPersistRace, PersistRaces
  <2> QED
    BY DEF OwnInv, ShownInMemory, Mine, Active
<1>2. Spec => []PersistInv
  BY PersistInit, PersistStep, TypesAlways, KnownHear, PTL DEF Spec
<1> QED
  BY <1>1, <1>2, OwnInit, OwnStep, TypesAlways, KnownHear, PTL DEF Spec

(***************************************************************************)
(* A listing that counts as fresh has every change whose event was         *)
(* handled, outside the known races.                                       *)
(***************************************************************************)

FreshRaces  == {"expiredInFlight", "droppedFetch", "failedRefresh", "parentOverwritten",
                "unknownParent", "latePatch", "missedEvent"}
NoFreshRace == races \cap FreshRaces = {}

\* The events handled, and those whose folders are known: one more while it is being handled.
Heard  == IF last = None THEN 0 ELSE last
Polled == IF poll.todo = {} THEN Heard ELSE Heard + 1

\* An event of l is still to come.
Unheard(l) == \E i \in DOMAIN log : i > Polled /\ log[i].link = l

\* An event of l is still to expire the listing of n's folder, whatever the parents.
Arrives(n, l) ==
  \/ FolderOf(n) \in poll.todo /\ log[Heard + 1].link = l
  \/ \E i \in DOMAIN log : /\ i > Polled /\ log[i].link = l
                           /\ log[i].parent = FolderOf(n) \/ log[i].kind = "refresh"

\* An event of l will find n's folder: by the map of parents, now or when a fetch has set it.
Known(n, l) ==
  \/ parentOf[l] = FolderOf(n)
  \/ \E y \in Fetches : fetch[y].pc = "persist" /\ fetch[y].node = n /\ l \in fetch[y].result

\* A handler has still to patch n.
Exempt(n, l) == /\ op.pc # "idle" /\ op.link = l
                /\ n = op.to \/ (n = op.from /\ op.pc = "remove")

Fresh(n) == Live(n) /\ Listed(n) /\ dir[n].fresh

\* Where a fresh listing differs from the drive, an event will expire it; and the events of
\* what it lists will find it.
FreshAt(n, l) == Fresh(n) /\ ~Exempt(n, l) =>
  IF l \in dir[n].children
  THEN /\ Known(n, l) \/ Arrives(n, l)
       /\ drive[l] = FolderOf(n) \/ Arrives(n, l) \/ Unheard(l)
  ELSE drive[l] # FolderOf(n) \/ Arrives(n, l)

\* What a fetch has brought and not published: it may differ as a fresh listing may, and from
\* what was patched meanwhile, which wins.
FetchAt(y, n, l) ==
  fetch[y].pc = "publish" /\ fetch[y].node = n /\ Live(n) /\ ~Exempt(n, l) =>
    IF l \in fetch[y].result
    THEN \/ drive[l] = FolderOf(n) \/ Arrives(n, l) \/ Unheard(l)
         \/ Listed(n) /\ fetch[y].gen # dir[n].gen
    ELSE \/ drive[l] # FolderOf(n) \/ Arrives(n, l)
         \/ /\ Listed(n) /\ fetch[y].gen # dir[n].gen
            /\ l \in dir[n].children /\ parentOf[l] = FolderOf(n)

\* Nothing happens to a link after it was deleted.
DeleteLast == \A i \in DOMAIN log : log[i].kind = "delete" =>
  drive[log[i].link] = None /\ \A j \in DOMAIN log : log[j].link = log[i].link => j =< i

PollInv == /\ poll.pc = "idle" => poll.todo = {}
           /\ \A l \in Links : told[l] =< Heard

FreshInv == NoFreshRace => \A n \in DirNodes, l \in Links :
  FreshAt(n, l) /\ \A y \in Fetches : FetchAt(y, n, l)

-----------------------------------------------------------------------------
LEMMA LogTypes ==
  ASSUME DriveTypes
  PROVE  /\ DOMAIN log = 1 .. Len(log) /\ Len(log) \in Nat
         /\ Heard \in Nat /\ Polled \in Nat /\ Polled =< Len(log) /\ Heard =< Polled
         /\ poll.todo # {} => Polled = Heard + 1 /\ last # None
         /\ \A i \in DOMAIN log : log[i] \in Events /\ log[i].link \in Links
<1>1. log \in Seq(Events)
  BY DEF DriveTypes
<1>2. \A i \in DOMAIN log : log[i] \in Events /\ log[i].link \in Links
  <2>1. \A i \in DOMAIN log : log[i] \in Events
    BY <1>1
  <2> QED
    BY <2>1 DEF Events
<1>3. Heard \in Nat /\ Heard =< Len(log) /\ Len(log) \in Nat
  BY <1>1, LastKnown DEF Heard, DriveTypes
<1>4. poll.todo # {} => last # None /\ Heard + 1 =< Len(log)
  BY <1>1, <1>3, DirListingAssumption DEF DriveTypes, Heard
<1> QED
  BY <1>1, <1>2, <1>3, <1>4 DEF Polled

\* What a change of the drive adds to the log.
LEMMA ChangeAdds ==
  ASSUME DriveTypes, NEW l \in Links, NEW folder \in FolderOrNone, NEW kind \in Kinds,
         Change(l, folder, kind), kind = "delete" => folder = None
  PROVE  LET p == Len(log) + 1 IN
         /\ Len(log) \in Nat /\ DOMAIN log = 1 .. Len(log) /\ DOMAIN log' = 1 .. p
         /\ log'[p].link = l /\ log'[p].kind = kind /\ (folder # None => log'[p].parent = folder)
         /\ \A i \in DOMAIN log : log'[i] = log[i]
         /\ drive'[l] = folder /\ \A k \in Links \ {l} : drive'[k] = drive[k]
<1> DEFINE parent == CASE kind = "delete" -> None
                       [] folder = None /\ kind # "delete" -> drive[l]
                       [] OTHER -> folder
           e == [link |-> l, kind |-> kind, parent |-> parent]
<1>1. drive \in [Links -> FolderOrNone] /\ log \in Seq(Events)
  BY DEF DriveTypes
<1>2. parent \in FolderOrNone /\ (folder # None => parent = folder)
  BY <1>1 DEF FolderOrNone
<1>3. log' = Append(log, e) /\ drive' = [drive EXCEPT ![l] = folder]
  BY DEF Change
<1> HIDE DEF parent
<1>4. e \in Events /\ e.link = l /\ e.kind = kind /\ e.parent = parent
  BY <1>2 DEF Events
<1> HIDE DEF e
<1>5. /\ Len(log) \in Nat /\ DOMAIN log = 1 .. Len(log) /\ DOMAIN log' = 1 .. Len(log) + 1
      /\ log'[Len(log) + 1] = e /\ \A i \in DOMAIN log : log'[i] = log[i]
  BY <1>1, <1>3, <1>4
<1> QED
  BY <1>1, <1>2, <1>3, <1>4, <1>5

(***************************************************************************)
(* The log: who changes a link finds it not deleted.                       *)
(***************************************************************************)

LatestIsLast == \A l \in Links :
  Latest(l) \in Nat /\ \A i \in DOMAIN log : log[i].link = l => i =< Latest(l)

LogInv == DeleteLast /\ LatestIsLast

LEMMA LogChange ==
  ASSUME DriveTypes, LogInv, NEW l \in Links, NEW folder \in FolderOrNone, NEW kind \in Kinds,
         Change(l, folder, kind), kind = "delete" => folder = None, ~Deleted(l)
  PROVE  LogInv'
<1> DEFINE p == Len(log) + 1
<1>1. /\ Len(log) \in Nat /\ DOMAIN log = 1 .. Len(log) /\ DOMAIN log' = 1 .. p
      /\ log'[p].link = l /\ log'[p].kind = kind
      /\ \A i \in DOMAIN log : log'[i] = log[i]
      /\ drive'[l] = folder /\ \A k \in Links \ {l} : drive'[k] = drive[k]
  BY ChangeAdds
<1>2. Latest(l)' = p /\ \A k \in Links \ {l} : Latest(k)' = Latest(k)
  BY LatestAfter
<1>3. LatestIsLast'
  <2> SUFFICES ASSUME NEW k \in Links
               PROVE  /\ Latest(k)' \in Nat
                      /\ \A i \in DOMAIN log' : log'[i].link = k => i =< Latest(k)'
    BY DEF LatestIsLast
  <2>1. CASE k = l
    BY <1>1, <1>2, <2>1
  <2>2. CASE k # l
    <3>1. Latest(k)' = Latest(k) /\ Latest(k) \in Nat
      BY <1>2, <2>2 DEF LogInv, LatestIsLast
    <3>2. ASSUME NEW i \in DOMAIN log', log'[i].link = k PROVE i \in DOMAIN log /\ log[i].link = k
      BY <1>1, <2>2, <3>2
    <3> QED
      BY <3>1, <3>2 DEF LogInv, LatestIsLast
  <2> QED
    BY <2>1, <2>2
<1>4. DeleteLast'
  <2> SUFFICES ASSUME NEW i \in DOMAIN log', log'[i].kind = "delete"
               PROVE  /\ drive'[log'[i].link] = None
                      /\ \A j \in DOMAIN log' : log'[j].link = log'[i].link => j =< i
    BY DEF DeleteLast
  <2>1. CASE i = p
    BY <1>1, <2>1
  <2>2. CASE i # p
    <3>1. i \in DOMAIN log /\ log'[i] = log[i]
      BY <1>1, <2>2
    <3>2. log[i].link # l /\ log[i].link \in Links
      BY <3>1, LogTypes DEF Deleted
    <3>3. /\ drive[log[i].link] = None
          /\ \A j \in DOMAIN log : log[j].link = log[i].link => j =< i
      BY <3>1 DEF LogInv, DeleteLast
    <3> QED
      BY <1>1, <3>1, <3>2, <3>3
  <2> QED
    BY <2>1, <2>2
<1> QED
  BY <1>3, <1>4 DEF LogInv

\* A handler changes what its listing has, or what never was.
LEMMA LogEntries ==
  ASSUME Types, LogInv, NEW n \in DirNodes, NEW m \in DirNodes, NEW l \in Links,
         CreateEntry(n, l) \/ RemoveEntry(n, l) \/ MoveEntry(n, m, l)
  PROVE  \E folder \in FolderOrNone : Change(l, folder, "update") /\ ~Deleted(l)
<1>1. /\ DriveTypes /\ FolderOf(n) \in FolderOrNone /\ FolderOf(m) \in FolderOrNone
      /\ None \in FolderOrNone /\ FolderOf(n) # None
  BY NodeFolder, DirListingAssumption DEF Types, FolderOrNone
<1>2. drive[l] # None => ~Deleted(l)
  BY DEF LogInv, DeleteLast, Deleted
<1>3. Latest(l) = 0 => ~Deleted(l)
  BY <1>1, LogTypes DEF LogInv, LatestIsLast, Deleted
<1> QED
  BY <1>1, <1>2, <1>3 DEF CreateEntry, RemoveEntry, MoveEntry

LEMMA LogStep == Types /\ LogInv /\ [Next]_listingVars => LogInv'
<1> SUFFICES ASSUME Types, LogInv, [Next]_listingVars PROVE LogInv'
  OBVIOUS
<1>0. DriveTypes /\ "update" \in Kinds
  BY DEF Types, Kinds
<1>1. ASSUME UNCHANGED <<drive, log>> PROVE LogInv'
  BY <1>1 DEF LogInv, DeleteLast, LatestIsLast, Latest
<1>2. ASSUME NEW n \in DirNodes, NEW m \in DirNodes, NEW l \in Links,
             CreateEntry(n, l) \/ RemoveEntry(n, l) \/ MoveEntry(n, m, l)
      PROVE  LogInv'
  BY <1>0, <1>2, LogEntries, LogChange
<1>3. CASE Elsewhere
  <2>1. PICK l \in Links, folder \in FolderOrNone, kind \in Kinds : Remote(l, folder, kind)
    BY <1>3 DEF Elsewhere, FolderOrNone, Kinds
  <2> QED
    BY <1>0, <2>1, LogChange DEF Remote
<1>4. CASE Handling
  <2>1. CASE PatchRemove \/ PatchUpsert
    BY <1>1, <2>1 DEF PatchRemove, PatchUpsert
  <2> QED
    BY <1>2, <1>4, <2>1 DEF Handling
<1>5. CASE Polling
  BY <1>1, <1>5 DEF Polling, LatestEvent, PollEvent, Invalidate
<1>6. ASSUME NEW y \in Fetches, Fetching(y) PROVE LogInv'
  BY <1>1, <1>6 DEF Fetching, FetchAnswer, FetchPublish, FetchFails, FetchPersist
<1>7. ASSUME NEW n \in DirNodes, Lapse(n) \/ TimerPersists(n) PROVE LogInv'
  BY <1>1, <1>7 DEF Lapse, TimerPersists
<1>8. CASE Loading
  BY <1>1, <1>8 DEF Loading, ServeFromDisk, BeginLoad
<1>9. CASE Knowing
  BY <1>1, <1>9 DEF Knowing, Register, KernelForgets, Unregister, Unregistered
<1>10. CASE UNCHANGED listingVars
  BY <1>1, <1>10 DEF listingVars
<1> QED
  BY <1>2, <1>3, <1>4, <1>5, <1>6, <1>7, <1>8, <1>9, <1>10 DEF Next

(***************************************************************************)
(* The event loop, between two events and within one.                      *)
(***************************************************************************)

\* An event has been handled, or has one folder less to invalidate.
LEMMA HandledDoes ==
  ASSUME Types, NEW todo \in SUBSET Folders, Handled(todo), last \in Nat, last < Len(log),
         log' = log
  PROVE  LET e == log[last + 1] IN
         /\ e.link \in Links /\ Polled' = last + 1 /\ poll'.todo = todo
         /\ poll'.pc = "idle" => todo = {}
         /\ todo # {} => Heard' = last /\ UNCHANGED <<parentOf, told>>
         /\ todo = {} => Heard' = last + 1 /\ \A l \in Links : told'[l] \in {told[l], last + 1}
         /\ \A l \in Links : parentOf'[l] = parentOf[l] \/ (todo = {} /\ e.kind = "delete" /\ l = e.link)
<1>0. /\ told \in [Links -> 0 .. Len(log)] /\ parentOf \in [Links -> FolderOrNone]
      /\ Heard = last /\ last # None /\ last + 1 # None /\ last + 1 \in DOMAIN log
      /\ log[last + 1].link \in Links
  <2>1. DriveTypes /\ last # None /\ last + 1 # None
    BY DirListingAssumption DEF Types
  <2> QED
    BY <2>1, LogTypes DEF Types, DriveTypes, TreeTypes, Heard
<1>1. CASE todo = {}
  <2>1. /\ poll'.pc = "idle" /\ poll'.todo = {} /\ last' = last + 1
        /\ parentOf' = IF log[last + 1].kind = "delete"
                       THEN [parentOf EXCEPT ![log[last + 1].link] = None] ELSE parentOf
        /\ told' = IF log[last + 1].kind = "refresh" THEN [l \in Links |-> last + 1]
                   ELSE [told EXCEPT ![log[last + 1].link] = last + 1]
    BY <1>1 DEF Handled, NoPoll
  <2>2. Heard' = last + 1 /\ Polled' = last + 1
    BY <1>0, <2>1 DEF Heard, Polled
  <2> QED
    BY <1>0, <1>1, <2>1, <2>2
<1>2. CASE todo # {}
  <2>1. poll'.pc = "handle" /\ poll'.todo = todo /\ UNCHANGED <<last, parentOf, told>>
    BY <1>2 DEF Handled
  <2> QED
    BY <1>0, <1>2, <2>1 DEF Heard, Polled
<1> QED
  BY <1>1, <1>2

LEMMA PollStep == Types /\ PollInv /\ [Next]_listingVars => PollInv'
<1> SUFFICES ASSUME Types, PollInv, [Next]_listingVars PROVE PollInv'
  OBVIOUS
<1>1. ASSUME UNCHANGED <<last, poll, told>> PROVE PollInv'
  BY <1>1 DEF PollInv, Heard
<1>2. ASSUME NEW todo \in SUBSET Folders, Handled(todo), last \in Nat, last < Len(log), log' = log
      PROVE  PollInv'
  <2>0. told \in [Links -> 0 .. Len(log)] /\ last = Heard
    BY <1>2, LastKnown, DirListingAssumption DEF Types, DriveTypes, Heard
  <2>1. /\ poll'.todo = todo /\ poll'.pc = "idle" => todo = {}
        /\ todo # {} => Heard' = last /\ told' = told
        /\ todo = {} => Heard' = last + 1 /\ \A l \in Links : told'[l] \in {told[l], last + 1}
    BY <1>2, HandledDoes
  <2>2. \A l \in Links : told[l] \in Nat /\ told[l] =< last
    BY <2>0 DEF PollInv
  <2>3. \A l \in Links : told'[l] =< Heard'
    BY <1>2, <2>1, <2>2
  <2> QED
    BY <1>2, <2>3, HandledDoes DEF PollInv
<1>3. CASE Polling
  <2>1. CASE LatestEvent
    <3>1. /\ last' = Len(log) /\ Len(log) \in Nat /\ UNCHANGED <<poll, told>>
          /\ told \in [Links -> 0 .. Len(log)]
      BY <2>1 DEF LatestEvent, Types, DriveTypes
    <3>2. Heard' = Len(log)
      BY <3>1, DirListingAssumption DEF Heard
    <3> QED
      BY <3>1, <3>2 DEF PollInv
  <2>2. CASE PollEvent
    <3>1. last \in Nat /\ last < Len(log) /\ log' = log
      BY <2>2, LastKnown DEF PollEvent, Types
    <3>2. log[last + 1].parent \in FolderOrNone /\ log[last + 1].link \in Links
      <4>1. last + 1 \in DOMAIN log
        BY <3>1, LogTypes DEF Types
      <4> QED
        BY <4>1, LogTypes DEF Types, Events
    <3>3. ParentsToInvalidate(log[last + 1]) \in SUBSET Folders
      BY <3>2 DEF ParentsToInvalidate, Types, TreeTypes, FolderOrNone
    <3>4. \E todo \in SUBSET Folders : Handled(todo)
      BY <2>2, <3>3 DEF PollEvent
    <3> QED
      BY <1>2, <3>1, <3>4
  <2>3. ASSUME NEW f \in Folders, Invalidate(f) PROVE PollInv'
    <3>1. /\ last \in Nat /\ last < Len(log) /\ log' = log /\ Handled(poll.todo \ {f})
          /\ poll.todo \ {f} \in SUBSET Folders
      BY <2>3 DEF Invalidate, Types, DriveTypes
    <3> QED
      BY <1>2, <3>1
  <2> QED
    BY <1>3, <2>1, <2>2, <2>3 DEF Polling
<1>4. CASE Handling
  BY <1>1, <1>4 DEF Handling, PatchRemove, PatchUpsert, CreateEntry, RemoveEntry, MoveEntry
<1>5. CASE Elsewhere
  BY <1>1, <1>5 DEF Elsewhere, Remote
<1>6. ASSUME NEW y \in Fetches, Fetching(y) PROVE PollInv'
  BY <1>1, <1>6 DEF Fetching, FetchAnswer, FetchPublish, FetchFails, FetchPersist
<1>7. ASSUME NEW n \in DirNodes, Lapse(n) \/ TimerPersists(n) PROVE PollInv'
  BY <1>1, <1>7 DEF Lapse, TimerPersists
<1>8. CASE Loading
  BY <1>1, <1>8 DEF Loading, ServeFromDisk, BeginLoad
<1>9. CASE Knowing
  BY <1>1, <1>9 DEF Knowing, Register, KernelForgets, Unregister, Unregistered
<1>10. CASE UNCHANGED listingVars
  BY <1>1, <1>10 DEF listingVars
<1> QED
  BY <1>3, <1>4, <1>5, <1>6, <1>7, <1>8, <1>9, <1>10 DEF Next

(***************************************************************************)
(* Steps that neither change the drive nor hear of a change.               *)
(***************************************************************************)

\* No listing comes to count as fresh, no fetch brings anything but what the drive has, and
\* what knew the folder of a listed entry still does.
LEMMA FreshKept ==
  ASSUME FreshInv, UNCHANGED <<drive, log, last, poll, op>>, races \subseteq races',
         NoFreshRace' => \A n \in DirNodes :
           /\ Fresh(n)' => Fresh(n) /\ dir'[n].children = dir[n].children
           /\ \A l \in Links : Live(n)' /\ Listed(n)' /\ l \in dir'[n].children =>
                /\ Known(n, l) => Known(n, l)'
                /\ parentOf[l] = FolderOf(n) => parentOf'[l] = FolderOf(n)
           /\ \A y \in Fetches : fetch'[y].pc = "publish" /\ fetch'[y].node = n /\ Live(n)' =>
                \/ fetch'[y].result = Content(FolderOf(n))
                \/ /\ fetch'[y] = fetch[y] /\ Live(n)
                   /\ Listed(n) => dir'[n].children = dir[n].children /\ dir'[n].gen = dir[n].gen
  PROVE  FreshInv'
<1> SUFFICES ASSUME NoFreshRace', NEW n \in DirNodes, NEW l \in Links
             PROVE  FreshAt(n, l)' /\ \A y \in Fetches : FetchAt(y, n, l)'
  BY DEF FreshInv
<1>0. NoFreshRace
  BY DEF NoFreshRace
<1>1. /\ Arrives(n, l)' <=> Arrives(n, l)
      /\ Unheard(l)' <=> Unheard(l)
      /\ Exempt(n, l)' <=> Exempt(n, l)
  BY DEF Arrives, Unheard, Exempt, Polled, Heard
<1>2. FreshAt(n, l)'
  <2> SUFFICES ASSUME Fresh(n)', ~Exempt(n, l)'
               PROVE  IF l \in dir'[n].children
                      THEN /\ Known(n, l)' \/ Arrives(n, l)'
                           /\ drive'[l] = FolderOf(n) \/ Arrives(n, l)' \/ Unheard(l)'
                      ELSE drive'[l] # FolderOf(n) \/ Arrives(n, l)'
    BY DEF FreshAt
  <2>1. FreshAt(n, l) /\ Fresh(n) /\ dir'[n].children = dir[n].children
    BY <1>0 DEF FreshInv
  <2>2. Live(n)' /\ Listed(n)'
    BY DEF Fresh
  <2> QED
    BY <1>1, <2>1, <2>2 DEF FreshAt
<1>3. ASSUME NEW y \in Fetches PROVE FetchAt(y, n, l)'
  <2> SUFFICES ASSUME fetch'[y].pc = "publish", fetch'[y].node = n, Live(n)', ~Exempt(n, l)'
               PROVE  IF l \in fetch'[y].result
                      THEN \/ drive'[l] = FolderOf(n) \/ Arrives(n, l)' \/ Unheard(l)'
                           \/ Listed(n)' /\ fetch'[y].gen # dir'[n].gen
                      ELSE \/ drive'[l] # FolderOf(n) \/ Arrives(n, l)'
                           \/ /\ Listed(n)' /\ fetch'[y].gen # dir'[n].gen
                              /\ l \in dir'[n].children /\ parentOf'[l] = FolderOf(n)
    BY DEF FetchAt
  <2>1. CASE fetch'[y].result = Content(FolderOf(n))
    BY <2>1 DEF Content
  <2>2. CASE /\ fetch'[y] = fetch[y] /\ Live(n)
             /\ Listed(n) => dir'[n].children = dir[n].children /\ dir'[n].gen = dir[n].gen
    <3>1. FetchAt(y, n, l)
      BY <1>0 DEF FreshInv
    <3> QED
      BY <1>1, <2>2, <3>1 DEF FetchAt, Listed
  <2> QED
    BY <2>1, <2>2
<1> QED
  BY <1>2, <1>3

\* A step of one dirNode n, that starts a fetch at most.
LEMMA FreshNode ==
  ASSUME FreshInv, NEW n \in DirNodes, UNCHANGED <<drive, log, last, poll, op>>,
         races \subseteq races', \A m \in DirNodes \ {n} : dir'[m] = dir[m],
         \A y \in Fetches : /\ fetch[y].pc = "persist" => fetch'[y] = fetch[y]
                            /\ fetch'[y].pc = "publish" => fetch'[y] = fetch[y],
         \A m \in DirNodes, l \in Links :
           Live(m)' /\ parentOf[l] = FolderOf(m) => parentOf'[l] = FolderOf(m),
         Fresh(n)' => Fresh(n) /\ dir'[n].children = dir[n].children,
         \/ ~Live(n)' \/ \A y \in Fetches : ~(fetch[y].pc = "publish" /\ fetch[y].node = n)
         \/ Live(n) /\ dir'[n].children = dir[n].children /\ dir'[n].gen = dir[n].gen
  PROVE  FreshInv'
<1>1. \A m \in DirNodes : Fresh(m)' => Fresh(m) /\ dir'[m].children = dir[m].children
  BY DEF Fresh, Live, Listed
<1>2. ASSUME NEW m \in DirNodes, NEW l \in Links, Live(m)'
      PROVE  /\ Known(m, l) => Known(m, l)'
             /\ parentOf[l] = FolderOf(m) => parentOf'[l] = FolderOf(m)
  BY <1>2 DEF Known
<1>3. ASSUME NEW m \in DirNodes, NEW y \in Fetches, fetch'[y].pc = "publish", fetch'[y].node = m,
             Live(m)'
      PROVE  /\ fetch'[y] = fetch[y] /\ Live(m)
             /\ dir'[m].children = dir[m].children /\ dir'[m].gen = dir[m].gen
  <2>1. fetch'[y] = fetch[y]
    BY <1>3
  <2>2. CASE m = n
    BY <1>3, <2>1, <2>2
  <2>3. CASE m # n
    BY <1>3, <2>1, <2>3 DEF Live
  <2> QED
    BY <2>1, <2>2, <2>3
<1> QED
  BY <1>1, <1>2, <1>3, FreshKept

\* Whoever starts a fetch brings nothing yet.
LEMMA StartsQuietly ==
  ASSUME TreeTypes, NEW n \in DirNodes, StartFetch(n)
  PROVE  \A y \in Fetches : /\ fetch[y].pc = "persist" => fetch'[y] = fetch[y]
                            /\ fetch'[y].pc = "publish" => fetch'[y] = fetch[y]
<1>1. PICK y \in Fetches, x \in FetchRecords :
        FetchBecomes(y, x) /\ fetch[y].pc = "idle" /\ x.pc = "request"
  BY StartFetchDoes
<1>2. fetch'[y] = x /\ \A z \in Fetches \ {y} : fetch'[z] = fetch[z]
  BY <1>1, FetchStays
<1> QED
  BY <1>1, <1>2

LEMMA NothingToPublish ==
  ASSUME LoadingInv, NEW n \in DirNodes, ~dir[n].loading
  PROVE  \A y \in Fetches : ~(fetch[y].pc = "publish" /\ fetch[y].node = n)
BY DEF LoadingInv, Unpublished, FetchesOf

LEMMA FreshLoading ==
  ASSUME Types, LoadingInv, FreshInv, NEW n \in DirNodes, ServeFromDisk(n) \/ BeginLoad(n)
  PROVE  FreshInv'
<1>0. /\ DirTypes /\ TreeTypes /\ ~dir[n].loading /\ StartFetch(n)
      /\ disk \in [Folders -> Listings] /\ FolderOf(n) \in Folders
      /\ UNCHANGED <<drive, log, last, poll, op, parentOf, races>>
  BY NodeFolder DEF Types, TreeTypes, ServeFromDisk, BeginLoad, Cold
<1>1. /\ \A m \in DirNodes \ {n} : dir'[m] = dir[m]
      /\ Fresh(n)' => Fresh(n) /\ dir'[n].children = dir[n].children
  <2>1. CASE ServeFromDisk(n)
    BY <1>0, <2>1, ServeFromDiskDoes DEF Becomes, Fresh
  <2>2. CASE BeginLoad(n)
    BY <1>0, <2>2, BeginLoadDoes DEF Becomes, Fresh, Live, Listed
  <2> QED
    BY <2>1, <2>2
<1> QED
  BY <1>0, <1>1, StartsQuietly, NothingToPublish, FreshNode

LEMMA FreshQuiet ==
  ASSUME Types, LoadingInv, KnownIsRegistered, FreshInv, NEW n \in DirNodes,
         \/ Lapse(n) \/ TimerPersists(n) \/ KernelForgets(n) \/ Register(n)
         \/ Unregister(n) \/ Unregistered(n)
  PROVE  FreshInv'
<1>0. /\ DirTypes /\ TreeTypes /\ UNCHANGED <<drive, log, last, poll, op, fetch>>
      /\ races \subseteq races'
  BY DEF Types, TreeTypes, Lapse, TimerPersists, KernelForgets, Register, Unregister, Unregistered, Note
<1>1. ASSUME NEW st, NEW children, NEW fresh, NEW gen, NEW loading, NEW persisted, NEW timer,
             Becomes(n, st, children, fresh, gen, loading, persisted, timer), parentOf' = parentOf,
             \/ st # "live"
             \/ st = dir[n].st /\ children = dir[n].children /\ (fresh => dir[n].fresh) /\ gen = dir[n].gen
             \/ children = None /\ FetchesOf(n) = {}
      PROVE  FreshInv'
  <2>1. /\ dir'[n].st = st /\ dir'[n].children = children /\ (dir'[n].fresh <=> fresh)
        /\ dir'[n].gen = gen /\ \A m \in DirNodes \ {n} : dir'[m] = dir[m]
    BY <1>1 DEF Becomes
  <2>2. Fresh(n)' => Fresh(n) /\ dir'[n].children = dir[n].children
    BY <1>1, <2>1 DEF Fresh, Live, Listed
  <2>3. \/ ~Live(n)' \/ \A y \in Fetches : ~(fetch[y].pc = "publish" /\ fetch[y].node = n)
        \/ Live(n) /\ dir'[n].children = dir[n].children /\ dir'[n].gen = dir[n].gen
    BY <1>1, <2>1 DEF Live, FetchesOf
  <2> QED
    BY <1>0, <1>1, <2>1, <2>2, <2>3, FreshNode
<1>2. CASE Lapse(n)
  <2>1. Becomes(n, dir[n].st, dir[n].children, FALSE, dir[n].gen, dir[n].loading,
                dir[n].persisted, dir[n].timer) /\ parentOf' = parentOf
    BY <1>0, <1>2, LapseDoes DEF Lapse
  <2> QED
    BY <1>1, <2>1
<1>3. CASE TimerPersists(n)
  <2>1. FlushListing(n) /\ parentOf' = parentOf
    BY <1>3 DEF TimerPersists
  <2>2. PICK p : Becomes(n, dir[n].st, dir[n].children, dir[n].fresh, dir[n].gen,
                         dir[n].loading, p, FALSE)
    BY <1>0, <2>1, FlushListingDoes
  <2> QED
    BY <1>1, <2>1, <2>2
<1>4. CASE KernelForgets(n)
  <2>1. Becomes(n, "forgotten", dir[n].children, dir[n].fresh, dir[n].gen, dir[n].loading,
                dir[n].persisted, dir[n].timer) /\ parentOf' = parentOf
    BY <1>0, <1>4, KernelForgetsDoes DEF KernelForgets
  <2> QED
    BY <1>1, <2>1
<1>5. CASE Register(n)
  <2>1. Becomes(n, "live", None, FALSE, 0, FALSE, 0, FALSE) /\ parentOf' = parentOf
        /\ FetchesOf(n) = {}
    BY <1>0, <1>5, RegisterDoes DEF Register
  <2> QED
    BY <1>1, <2>1
<1>6. CASE Unregister(n)
  <2>1. PICK st \in {"none", "flushed"}, p \in {dir[n].persisted, dir[n].gen} :
          Becomes(n, st, dir[n].children, dir[n].fresh, dir[n].gen, dir[n].loading, p, FALSE)
    BY <1>0, <1>6, UnregisterDoes
  <2>2. parentOf' = parentOf /\ st # "live"
    BY <1>6 DEF Unregister
  <2> QED
    BY <1>1, <2>1, <2>2
<1>7. CASE Unregistered(n)
  <2>1. dir'[n].st = "none" /\ \A m \in DirNodes \ {n} : dir'[m] = dir[m]
    BY <1>0, <1>7, UnregisteredDoes DEF Becomes
  <2>2. ASSUME NEW m \in DirNodes, NEW l \in Links, Live(m)', parentOf[l] = FolderOf(m)
        PROVE  parentOf'[l] = FolderOf(m)
    <3>1. m # n /\ dirs[FolderOf(m)] = m
      BY <2>1, <2>2 DEF Live, KnownIsRegistered
    <3>2. dirs[FolderOf(n)] = n => FolderOf(m) # FolderOf(n)
      BY <3>1
    <3>3. \/ parentOf' = parentOf
          \/ /\ dirs[FolderOf(n)] = n
             /\ parentOf' = [k \in Links |-> IF /\ Listed(n) /\ k \in dir[n].children
                                                /\ parentOf[k] = FolderOf(n)
                                             THEN None ELSE parentOf[k]]
      BY <1>7 DEF Unregistered
    <3> QED
      BY <2>2, <3>2, <3>3
  <2>3. ~Live(n)' /\ ~Fresh(n)'
    BY <2>1 DEF Live, Fresh
  <2> QED
    BY <1>0, <2>1, <2>2, <2>3, FreshNode
<1> QED
  BY <1>2, <1>3, <1>4, <1>5, <1>6, <1>7

(***************************************************************************)
(* The fetches.                                                            *)
(***************************************************************************)

LEMMA FreshAnswer ==
  ASSUME Types, FreshInv, NEW y \in Fetches, FetchAnswer(y) \/ FetchFails(y)
  PROVE  FreshInv'
<1> PICK n \in DirNodes : fetch[y].node = n
  BY FetchTyped DEF Types, FetchAnswer, FetchFails
<1>0. /\ DirTypes /\ TreeTypes /\ fetch[y] \in FetchRecords /\ fetch \in [Fetches -> FetchRecords]
      /\ UNCHANGED <<drive, log, last, poll, op, parentOf>> /\ races \subseteq races'
      /\ fetch[y].pc = "request"
  BY FetchTyped DEF Types, TreeTypes, FetchAnswer, FetchFails, Note
<1>1. /\ \A z \in Fetches \ {y} : fetch'[z] = fetch[z]
      /\ fetch'[y].pc # "persist"
      /\ fetch'[y].pc = "publish" => fetch'[y].result = Content(FolderOf(n)) /\ fetch'[y].node = n
  BY <1>0, NoFetchTyped DEF FetchAnswer, FetchFails, FetchRecords
<1>2. /\ \A m \in DirNodes \ {n} : dir'[m] = dir[m]
      /\ dir'[n].st = dir[n].st /\ dir'[n].children = dir[n].children /\ dir'[n].gen = dir[n].gen
      /\ NoFreshRace' /\ Fresh(n)' => Fresh(n)
  <2>1. CASE FetchAnswer(y)
    BY <2>1 DEF FetchAnswer, Fresh, Live, Listed
  <2>2. CASE FetchFails(y)
    <3>1. Becomes(n, dir[n].st, dir[n].children, TRUE, dir[n].gen, FALSE, dir[n].persisted,
                  dir[n].timer)
      BY <1>0, <2>2, FetchFailsDoes
    <3>2. NoFreshRace' => ~Listed(n)
      <4>1. Listed(n) => "failedRefresh" \in races'
        BY <2>2 DEF FetchFails, Note, ListingRaces, NoRace
      <4> QED
        BY <4>1 DEF NoFreshRace, FreshRaces
    <3> QED
      BY <3>1, <3>2 DEF Becomes, Fresh, Live, Listed
  <2> QED
    BY <2>1, <2>2
<1>3. \A m \in DirNodes, l \in Links : Known(m, l) => Known(m, l)'
  BY <1>0, <1>1 DEF Known
<1>4. \A m \in DirNodes : NoFreshRace' /\ Fresh(m)' => Fresh(m) /\ dir'[m].children = dir[m].children
  BY <1>2 DEF Fresh, Live, Listed
<1>5. ASSUME NEW m \in DirNodes, NEW z \in Fetches, fetch'[z].pc = "publish", fetch'[z].node = m,
             Live(m)'
      PROVE  \/ fetch'[z].result = Content(FolderOf(m))
             \/ /\ fetch'[z] = fetch[z] /\ Live(m)
                /\ Listed(m) => dir'[m].children = dir[m].children /\ dir'[m].gen = dir[m].gen
  BY <1>1, <1>2, <1>5 DEF Live
<1> QED
  BY <1>0, <1>3, <1>4, <1>5, FreshKept

\* What sets the parents of a listing, and who listed them elsewhere.
LEMMA NotOrphaned ==
  ASSUME NEW h, Note(h), h["parentOverwritten"] = Orphaned, NoFreshRace'
  PROVE  \A n \in DirNodes, l \in Links :
           Live(n) /\ Listed(n) /\ l \in dir'[n].children /\ parentOf[l] = FolderOf(n)
             => parentOf'[l] = FolderOf(n)
<1>1. ~Orphaned
  BY DEF Note, ListingRaces, NoFreshRace, FreshRaces
<1> QED
  BY <1>1 DEF Orphaned

LEMMA FreshPersist ==
  ASSUME Types, FreshInv, NEW y \in Fetches, FetchPersist(y)
  PROVE  FreshInv'
<1> PICK n \in DirNodes : fetch[y].node = n
  BY FetchTyped DEF Types, FetchPersist
<1>0. /\ DirTypes /\ TreeTypes /\ fetch[y] \in FetchRecords /\ fetch \in [Fetches -> FetchRecords]
      /\ UNCHANGED <<drive, log, last, poll, op>> /\ races \subseteq races'
      /\ fetch[y].pc = "persist" /\ fetch[y].gen \in Nat
      /\ parentOf' = [l \in Links |-> IF l \in fetch[y].result THEN FolderOf(n) ELSE parentOf[l]]
      /\ fetch' = [fetch EXCEPT ![y] = NoFetch]
      /\ Persist(n, fetch[y].result, fetch[y].gen)
  BY FetchTyped DEF Types, TreeTypes, FetchPersist, Note
<1>1. \A z \in Fetches : z # y => fetch'[z] = fetch[z]
  BY <1>0
<1>2. fetch'[y].pc = "idle"
  BY <1>0, NoFetchTyped
<1>3. \A m \in DirNodes :
        /\ dir'[m].st = dir[m].st /\ dir'[m].children = dir[m].children /\ dir'[m].gen = dir[m].gen
        /\ dir'[m].fresh <=> dir[m].fresh
  <2>1. CASE UNCHANGED dir
    BY <2>1
  <2>2. CASE ~UNCHANGED dir
    <3>1. Becomes(n, dir[n].st, dir[n].children, dir[n].fresh, dir[n].gen, dir[n].loading,
                  fetch[y].gen, dir[n].timer)
      BY <1>0, <2>2, PersistDoes
    <3> QED
      BY <3>1 DEF Becomes
  <2> QED
    BY <2>1, <2>2
<1>4. ASSUME NoFreshRace', NEW m \in DirNodes, NEW l \in Links, Live(m)', Listed(m)',
             l \in dir'[m].children
      PROVE  /\ parentOf[l] = FolderOf(m) => parentOf'[l] = FolderOf(m)
             /\ Known(m, l) => Known(m, l)'
  <2>1. Live(m) /\ Listed(m)
    BY <1>3, <1>4 DEF Live, Listed
  <2>2. parentOf[l] = FolderOf(m) => parentOf'[l] = FolderOf(m)
    <3>1. PICK h : Note(h) /\ h["parentOverwritten"] = Orphaned
      <4> DEFINE h == [NoRace EXCEPT
            !["reorderedPersist"] = /\ fetch[y].gen = dir[n].gen
                                    /\ dir[n].children # fetch[y].result
                                    /\ \A z \in FetchesOf(n) \ {y} :
                                         fetch[z].pc = "persist" => fetch[z].gen # dir[n].gen,
            !["outlivedPersist"] = ~Live(n),
            !["parentOverwritten"] = Orphaned]
      <4>1. Note(h)
        BY DEF FetchPersist
      <4>2. h["parentOverwritten"] = Orphaned
        BY DEF NoRace, ListingRaces
      <4> QED
        BY <4>1, <4>2
    <3> QED
      BY <1>4, <2>1, <3>1, NotOrphaned
  <2>3. ASSUME NEW z \in Fetches, fetch[z].pc = "persist", fetch[z].node = m, l \in fetch[z].result
        PROVE  Known(m, l)'
    <3>1. CASE z = y
      BY <1>0, <2>3, <3>1 DEF Known
    <3>2. CASE z # y
      <4>1. fetch'[z] = fetch[z]
        BY <1>1, <3>2
      <4> QED
        BY <2>3, <4>1 DEF Known
    <3> QED
      BY <3>1, <3>2
  <2> QED
    BY <2>2, <2>3 DEF Known
<1>5. \A m \in DirNodes : Fresh(m)' => Fresh(m) /\ dir'[m].children = dir[m].children
  BY <1>3 DEF Fresh, Live, Listed
<1>6. ASSUME NEW m \in DirNodes, NEW z \in Fetches, fetch'[z].pc = "publish", Live(m)'
      PROVE  /\ fetch'[z] = fetch[z] /\ Live(m)
             /\ dir'[m].children = dir[m].children /\ dir'[m].gen = dir[m].gen
  BY <1>1, <1>2, <1>3, <1>6 DEF Live
<1> QED
  BY <1>0, <1>4, <1>5, <1>6, FreshKept

\* A fetch that publishes brings what the drive had, or finds listed what the drive has.
LEMMA FreshPublish ==
  ASSUME Types, LoadingInv, FreshInv, NEW y \in Fetches, FetchPublish(y)
  PROVE  FreshInv'
<1> PICK n \in DirNodes : fetch[y].node = n
  BY FetchTyped DEF Types, FetchPublish
<1>0. /\ DirTypes /\ TreeTypes /\ fetch[y] \in FetchRecords /\ fetch \in [Fetches -> FetchRecords]
      /\ UNCHANGED <<drive, log, last, poll, op, parentOf>> /\ races \subseteq races'
      /\ fetch[y].pc = "publish" /\ fetch[y].result \in SUBSET Links
      /\ fetch' = [fetch EXCEPT ![y].pc = "persist"]
  BY FetchTyped DEF Types, TreeTypes, FetchPublish, FetchStep, Note
<1>1. /\ \A z \in Fetches : z # y => fetch'[z] = fetch[z]
      /\ fetch'[y].pc = "persist" /\ fetch'[y].node = n /\ fetch'[y].result = fetch[y].result
  BY <1>0 DEF FetchRecords
<1>2. /\ \A m \in DirNodes \ {n} : dir'[m] = dir[m]
      /\ dir'[n].st = dir[n].st
      /\ dir'[n].children = IF ShouldPublish(y) THEN fetch[y].result ELSE dir[n].children
  BY <1>0, FetchPublishDoes DEF Becomes
<1>3. \A z \in Fetches : fetch[z].pc = "publish" /\ fetch[z].node = n => z = y
  <2>1. y \in Unpublished(n)
    BY <1>0 DEF Unpublished, FetchesOf
  <2>2. PICK x \in Fetches : Unpublished(n) = {x}
    BY <2>1 DEF LoadingInv
  <2> QED
    BY <2>1, <2>2 DEF Unpublished, FetchesOf
<1>4. NoFreshRace' => ShouldPublish(y) \/ dir[n].children = Content(FolderOf(n))
  <2>1. ~ShouldPublish(y) /\ dir[n].children # Content(FolderOf(n)) => "droppedFetch" \in races'
    BY DEF FetchPublish, Note, ListingRaces, NoRace
  <2> QED
    BY <2>1 DEF NoFreshRace, FreshRaces
<1> SUFFICES ASSUME NoFreshRace', NEW m \in DirNodes, NEW l \in Links
             PROVE  FreshAt(m, l)' /\ \A z \in Fetches : FetchAt(z, m, l)'
  BY DEF FreshInv
<1>5. FreshAt(m, l) /\ \A z \in Fetches : FetchAt(z, m, l)
  BY <1>0 DEF FreshInv, NoFreshRace
<1>6. /\ Arrives(m, l)' <=> Arrives(m, l)
      /\ Unheard(l)' <=> Unheard(l)
      /\ Exempt(m, l)' <=> Exempt(m, l)
      /\ Known(m, l) => Known(m, l)'
  BY <1>0, <1>1 DEF Arrives, Unheard, Exempt, Polled, Heard, Known
<1>7. ASSUME NEW z \in Fetches PROVE FetchAt(z, m, l)'
  <2>1. CASE m = n \/ z = y
    <3>1. ~(fetch'[z].pc = "publish" /\ fetch'[z].node = m)
      BY <1>1, <1>3, <2>1
    <3> QED
      BY <3>1 DEF FetchAt
  <2>2. CASE m # n /\ z # y
    BY <1>0, <1>1, <1>2, <1>5, <1>6, <2>2 DEF FetchAt, Live, Listed
  <2> QED
    BY <2>1, <2>2
<1>8. FreshAt(m, l)'
  <2>1. CASE m # n
    <3>1. dir'[m] = dir[m]
      BY <1>2, <2>1
    <3> QED
      BY <1>0, <1>5, <1>6, <3>1 DEF FreshAt, Fresh, Live, Listed
  <2>2. CASE m = n
    <3> SUFFICES ASSUME Fresh(n)', ~Exempt(n, l)'
                 PROVE  IF l \in dir'[n].children
                        THEN /\ Known(n, l)' \/ Arrives(n, l)'
                             /\ drive'[l] = FolderOf(n) \/ Arrives(n, l)' \/ Unheard(l)'
                        ELSE drive'[l] # FolderOf(n) \/ Arrives(n, l)'
      BY <2>2 DEF FreshAt
    <3>1. Live(n) /\ ~Exempt(n, l) /\ FetchAt(y, n, l)
      BY <1>2, <1>5, <1>6, <2>2 DEF Fresh, Live
    <3>2. l \in fetch[y].result => Known(n, l)'
      BY <1>1 DEF Known
    <3>3. CASE ShouldPublish(y)
      BY <1>0, <1>2, <1>6, <2>2, <3>1, <3>2, <3>3 DEF FetchAt, ShouldPublish
    <3>4. CASE ~ShouldPublish(y)
      <4>1. dir'[n].children = dir[n].children /\ dir[n].children = Content(FolderOf(n))
        BY <1>2, <1>4, <3>4
      <4>2. l \in dir'[n].children <=> drive'[l] = FolderOf(n)
        BY <1>0, <4>1 DEF Content
      <4>3. l \in dir'[n].children => Known(n, l)' \/ Arrives(n, l)'
        BY <1>0, <1>6, <2>2, <3>1, <3>2, <4>2 DEF FetchAt, Known
      <4> QED
        BY <4>2, <4>3
    <3> QED
      BY <3>3, <3>4
  <2> QED
    BY <2>1, <2>2
<1> QED
  BY <1>7, <1>8

(***************************************************************************)
(* The drive changes: there is an event to come of what changed.           *)
(***************************************************************************)

LEMMA FreshChange ==
  ASSUME Types, FreshInv, NEW l \in Links, NEW folder \in FolderOrNone, NEW kind \in Kinds,
         Change(l, folder, kind), kind = "delete" => folder = None,
         UNCHANGED <<last, poll, dir, fetch, parentOf, races>>, op' = op \/ op.pc = "idle"
  PROVE  FreshInv'
<1> DEFINE p == Len(log) + 1
<1>1. /\ Len(log) \in Nat /\ DOMAIN log = 1 .. Len(log) /\ DOMAIN log' = 1 .. p
      /\ log'[p].link = l /\ (folder # None => log'[p].parent = folder)
      /\ \A i \in DOMAIN log : log'[i] = log[i]
      /\ drive'[l] = folder /\ \A k \in Links \ {l} : drive'[k] = drive[k]
  BY ChangeAdds DEF Types
<1>2. /\ Heard \in Nat /\ Polled \in Nat /\ Polled =< Len(log) /\ Heard =< Polled
      /\ poll.todo # {} => Polled = Heard + 1
      /\ Heard' = Heard /\ Polled' = Polled
  BY LogTypes DEF Types, Heard, Polled
<1> SUFFICES ASSUME NoFreshRace', NEW n \in DirNodes, NEW k \in Links
             PROVE  FreshAt(n, k)' /\ \A y \in Fetches : FetchAt(y, n, k)'
  BY DEF FreshInv
<1>3. FreshAt(n, k) /\ \A y \in Fetches : FetchAt(y, n, k)
  BY DEF FreshInv, NoFreshRace
<1>4. Unheard(k) => Unheard(k)'
  BY <1>1, <1>2 DEF Unheard
<1>5. Arrives(n, k) => Arrives(n, k)'
  <2>1. CASE FolderOf(n) \in poll.todo /\ log[Heard + 1].link = k
    <3>1. Heard + 1 \in DOMAIN log
      BY <1>1, <1>2, <2>1
    <3> QED
      BY <1>1, <1>2, <2>1, <3>1 DEF Arrives
  <2>2. ASSUME NEW i \in DOMAIN log, i > Polled, log[i].link = k,
               log[i].parent = FolderOf(n) \/ log[i].kind = "refresh"
        PROVE  Arrives(n, k)'
    BY <1>1, <1>2, <2>2 DEF Arrives
  <2> QED
    BY <2>1, <2>2 DEF Arrives
<1>6. Exempt(n, k) => Exempt(n, k)'
  BY DEF Exempt
<1>7. /\ Known(n, k)' <=> Known(n, k)
      /\ Fresh(n)' <=> Fresh(n)
      /\ Live(n)' <=> Live(n)
      /\ Listed(n)' <=> Listed(n)
  BY DEF Known, Fresh, Live, Listed
<1>8. CASE k # l
  <2>1. drive'[k] = drive[k]
    BY <1>1, <1>8
  <2> QED
    BY <1>3, <1>4, <1>5, <1>6, <1>7, <2>1 DEF FreshAt, FetchAt
<1>9. CASE k = l
  <2>1. p \in DOMAIN log' /\ p > Polled'
    BY <1>1, <1>2
  <2>2. Unheard(l)'
    BY <1>1, <2>1 DEF Unheard
  <2>3. drive'[l] = FolderOf(n) => Arrives(n, l)'
    <3>1. drive'[l] = FolderOf(n) => log'[p].parent = FolderOf(n)
      BY <1>1, NodeFolder, DirListingAssumption
    <3> QED
      BY <1>1, <2>1, <3>1 DEF Arrives
  <2> QED
    BY <1>3, <1>5, <1>6, <1>7, <1>9, <2>2, <2>3 DEF FreshAt, FetchAt
<1> QED
  BY <1>8, <1>9

LEMMA FreshDrive ==
  ASSUME Types, LogInv, FreshInv, NEW l \in Links,
         \/ \E f \in FolderOrNone, kind \in Kinds : Remote(l, f, kind)
         \/ \E n \in DirNodes : CreateEntry(n, l) \/ RemoveEntry(n, l)
         \/ \E n, m \in DirNodes : MoveEntry(n, m, l)
  PROVE  FreshInv'
<1>1. ASSUME NEW f \in FolderOrNone, NEW kind \in Kinds, Remote(l, f, kind) PROVE FreshInv'
  BY <1>1, FreshChange DEF Remote
<1>2. ASSUME NEW n \in DirNodes, NEW m \in DirNodes,
             CreateEntry(n, l) \/ RemoveEntry(n, l) \/ MoveEntry(n, m, l)
      PROVE  FreshInv'
  <2>1. PICK f \in FolderOrNone : Change(l, f, "update")
    BY <1>2, LogEntries
  <2>2. op.pc = "idle" /\ UNCHANGED <<last, poll, dir, fetch, parentOf, races>>
    BY <1>2 DEF CreateEntry, RemoveEntry, MoveEntry, Ready
  <2>3. "update" \in Kinds
    BY DEF Kinds
  <2> QED
    BY <2>1, <2>2, <2>3, FreshChange
<1> QED
  BY <1>1, <1>2

(***************************************************************************)
(* The patches.                                                            *)
(***************************************************************************)

\* What a patch says of the parents, and of the drive while no one else changed the link.
LEMMA PatchMeans ==
  ASSUME Types, OpMeans, PatchRemove \/ PatchUpsert, NoFreshRace'
  PROVE  /\ op.pc = "upsert" => /\ drive[op.link] = FolderOf(op.to)
                                /\ parentOf'[op.link] = FolderOf(op.to)
         /\ op.pc = "remove" => drive[op.link] # FolderOf(op.from)
         /\ \A l \in Links \ {op.link} : parentOf'[l] = parentOf[l]
         /\ \A n \in DirNodes, l \in Links :
              Live(n) /\ Listed(n) /\ l \in dir'[n].children /\ parentOf[l] = FolderOf(n)
                => parentOf'[l] = FolderOf(n)
<1>0. /\ op \in Ops /\ op.link \in Links /\ parentOf \in [Links -> FolderOrNone]
      /\ op.pc = "upsert" => op.to \in DirNodes
      /\ op.pc = "remove" => op.from \in DirNodes
      /\ op.pc \in {"remove", "upsert"}
  BY DEF Types, OpTypes, TreeTypes, Patching, PatchRemove, PatchUpsert
<1>1. PICK h : Note(h) /\ h["parentOverwritten"] = Orphaned /\ h["latePatch"] = (Latest(op.link) # op.ev)
  <2> DEFINE h == [NoRace EXCEPT !["latePatch"] = Latest(op.link) # op.ev,
                                 !["parentOverwritten"] = Orphaned]
  <2>1. Note(h)
    BY DEF PatchRemove, PatchUpsert
  <2>2. h["parentOverwritten"] = Orphaned /\ h["latePatch"] = (Latest(op.link) # op.ev)
    BY DEF NoRace, ListingRaces
  <2> QED
    BY <2>1, <2>2
<1>2. Latest(op.link) = op.ev
  BY <1>1 DEF Note, ListingRaces, NoFreshRace, FreshRaces
<1>3. drive[op.link] = IF op.to = None THEN None ELSE FolderOf(op.to)
  BY <1>0, <1>2 DEF OpMeans
<1>4. op.pc = "upsert" => /\ drive[op.link] = FolderOf(op.to)
                          /\ parentOf' = [parentOf EXCEPT ![op.link] = FolderOf(op.to)]
  BY <1>0, <1>3, DirListingAssumption DEF PatchRemove, PatchUpsert, UpsertChild
<1>5. op.pc = "remove" => /\ drive[op.link] # FolderOf(op.from)
                          /\ \/ parentOf' = [parentOf EXCEPT ![op.link] = None]
                             \/ parentOf' = parentOf
  BY <1>0, <1>3, NodeFolder, DirListingAssumption DEF OpMeans, PatchRemove, PatchUpsert, RemoveChild
<1> QED
  BY <1>0, <1>1, <1>4, <1>5, NotOrphaned

LEMMA FreshPatch ==
  ASSUME Types, OpMeans, FetchCounts, FreshInv, PatchRemove \/ PatchUpsert
  PROVE  FreshInv'
<1>0. /\ DirTypes /\ TreeTypes /\ op \in Ops /\ UNCHANGED <<drive, log, last, poll, fetch>>
      /\ races \subseteq races' /\ op.pc \in {"remove", "upsert"}
  BY DEF Types, TreeTypes, OpTypes, PatchRemove, PatchUpsert, Note
<1>1. PICK n \in DirNodes :
        /\ Live(n) /\ Listed(n)
        /\ n = IF op.pc = "upsert" THEN op.to ELSE op.from
        /\ Becomes(n, dir[n].st,
                   IF op.pc = "upsert" THEN dir[n].children \cup {op.link}
                   ELSE dir[n].children \ {op.link},
                   dir[n].fresh, dir[n].gen + 1, dir[n].loading, dir[n].persisted, TRUE)
  BY PatchDoes
<1>2. /\ \A m \in DirNodes \ {n} : dir'[m] = dir[m]
      /\ dir'[n].st = "live" /\ dir'[n].gen = dir[n].gen + 1
      /\ dir'[n].children = IF op.pc = "upsert" THEN dir[n].children \cup {op.link}
                            ELSE dir[n].children \ {op.link}
      /\ dir'[n].fresh <=> dir[n].fresh
  BY <1>1 DEF Becomes, Live
<1>3. ASSUME NEW y \in Fetches, fetch[y].pc = "publish", fetch[y].node = n
      PROVE  fetch[y].gen # dir'[n].gen
  BY <1>0, <1>2, <1>3, FetchTyped, FieldsTyped DEF FetchCounts
<1>4. Listed(n)'
  <2>1. dir[n].children \in SUBSET Links /\ op.link \in Links
    BY <1>0, <1>1, FieldsTyped DEF Listed, Listings, Types, OpTypes
  <2> QED
    BY <1>2, <2>1, DirListingAssumption DEF Listed
<1> SUFFICES ASSUME NoFreshRace', NEW m \in DirNodes, NEW l \in Links
             PROVE  FreshAt(m, l)' /\ \A y \in Fetches : FetchAt(y, m, l)'
  BY DEF FreshInv
<1>5. FreshAt(m, l) /\ \A y \in Fetches : FetchAt(y, m, l)
  BY <1>0 DEF FreshInv, NoFreshRace
<1>6. /\ op.pc = "upsert" => drive[op.link] = FolderOf(n) /\ parentOf'[op.link] = FolderOf(n)
      /\ op.pc = "remove" => drive[op.link] # FolderOf(n)
      /\ \A k \in Links \ {op.link} : parentOf'[k] = parentOf[k]
      /\ Live(m) /\ Listed(m) /\ l \in dir'[m].children /\ parentOf[l] = FolderOf(m)
           => parentOf'[l] = FolderOf(m)
  BY <1>1, PatchMeans
<1>7. /\ Arrives(m, l)' <=> Arrives(m, l)
      /\ Unheard(l)' <=> Unheard(l)
  BY <1>0 DEF Arrives, Unheard, Polled, Heard
<1>8. m # n \/ l # op.link => (Exempt(m, l) => Exempt(m, l)')
  <2>1. \/ op' = NoPatch /\ (op.pc = "upsert" \/ op.to = None)
        \/ op.pc = "remove" /\ op'.pc = "upsert" /\ op'.link = op.link /\ op'.to = op.to
    BY <1>0 DEF PatchRemove, PatchUpsert, Ops
  <2>2. m # None
    BY DirListingAssumption
  <2> QED
    BY <1>1, <2>1, <2>2 DEF Exempt
<1>9. CASE l = op.link /\ m = n
  <2>1. CASE op.pc = "upsert"
    <3>1. l \in dir'[n].children /\ drive'[l] = FolderOf(n) /\ parentOf'[l] = FolderOf(n)
      BY <1>0, <1>2, <1>6, <1>9, <2>1
    <3> QED
      BY <1>0, <1>3, <1>4, <1>9, <3>1 DEF FreshAt, FetchAt, Known
  <2>2. CASE op.pc = "remove"
    <3>1. l \notin dir'[n].children /\ drive'[l] # FolderOf(n)
      BY <1>0, <1>2, <1>6, <1>9, <2>2
    <3> QED
      BY <1>0, <1>3, <1>4, <1>9, <3>1 DEF FreshAt, FetchAt
  <2> QED
    BY <1>0, <2>1, <2>2
<1>10. CASE ~(l = op.link /\ m = n)
  <2>1. /\ Live(m)' <=> Live(m)
        /\ Listed(m)' <=> Listed(m)
        /\ dir'[m].fresh <=> dir[m].fresh
        /\ l \in dir'[m].children <=> l \in dir[m].children
    BY <1>1, <1>2, <1>4, <1>10 DEF Live, Listed
  <2>2. Live(m) /\ Listed(m) /\ l \in dir'[m].children /\ Known(m, l) => Known(m, l)'
    BY <1>0, <1>6 DEF Known
  <2>3. FreshAt(m, l)'
    BY <1>0, <1>5, <1>7, <1>8, <1>10, <2>1, <2>2 DEF FreshAt, Fresh
  <2>4. ASSUME NEW y \in Fetches PROVE FetchAt(y, m, l)'
    <3> SUFFICES ASSUME fetch[y].pc = "publish", fetch[y].node = m, Live(m)', ~Exempt(m, l)'
                 PROVE  IF l \in fetch[y].result
                        THEN \/ drive'[l] = FolderOf(m) \/ Arrives(m, l)' \/ Unheard(l)'
                             \/ Listed(m)' /\ fetch[y].gen # dir'[m].gen
                        ELSE \/ drive'[l] # FolderOf(m) \/ Arrives(m, l)'
                             \/ /\ Listed(m)' /\ fetch[y].gen # dir'[m].gen
                                /\ l \in dir'[m].children /\ parentOf'[l] = FolderOf(m)
      BY <1>0 DEF FetchAt
    <3>1. FetchAt(y, m, l) /\ Live(m) /\ ~Exempt(m, l)
      BY <1>5, <1>8, <1>10, <2>1
    <3>2. fetch[y].gen # dir[m].gen => fetch[y].gen # dir'[m].gen
      <4>1. CASE m = n
        BY <1>3, <4>1
      <4>2. CASE m # n
        BY <1>2, <4>2
      <4> QED
        BY <4>1, <4>2
    <3> QED
      BY <1>0, <1>6, <1>7, <2>1, <3>1, <3>2 DEF FetchAt
  <2> QED
    BY <2>3, <2>4
<1> QED
  BY <1>9, <1>10

(***************************************************************************)
(* The event loop: what knew of a listing now expires it.                  *)
(***************************************************************************)

LEMMA FreshPolls ==
  ASSUME Types, PollInv, FreshInv, PollEvent
  PROVE  FreshInv'
<1> DEFINE e == log[last + 1]
           todo == IF e.kind = "refresh" THEN Folders ELSE ParentsToInvalidate(e)
<1>0. /\ last \in Nat /\ last < Len(log) /\ last # None
      /\ UNCHANGED <<drive, log, dirs, dir, fetch, disk, op, own>> /\ races \subseteq races'
      /\ poll.todo = {} /\ Handled(todo)
  BY LastKnown DEF PollEvent, Types, PollInv, Note
<1>1. /\ Heard = last /\ Polled = last /\ last + 1 \in DOMAIN log /\ DOMAIN log \subseteq Nat
      /\ e.parent \in FolderOrNone /\ e.link \in Links
  <2>1. Heard = last /\ Polled = last /\ last + 1 \in DOMAIN log /\ DOMAIN log \subseteq Nat
    BY <1>0, LogTypes DEF Types, Heard, Polled
  <2> QED
    BY <2>1, LogTypes DEF Types, Events
<1>2. todo \in SUBSET Folders
  BY <1>1 DEF ParentsToInvalidate, Types, TreeTypes, FolderOrNone
<1>3. /\ Polled' = last + 1 /\ poll'.todo = todo
      /\ todo # {} => Heard' = last
      /\ \A l \in Links : parentOf'[l] = parentOf[l] \/ (todo = {} /\ l = e.link)
  <2> HIDE DEF todo
  <2> QED
    BY <1>0, <1>2, HandledDoes DEF Types
<1>4. NoFreshRace' => e.kind = "refresh" \/ ~Listing(e.link)
  <2>1. e.kind # "refresh" /\ Listing(e.link) => "unknownParent" \in races'
    BY DEF PollEvent, Note, ListingRaces, NoRace
  <2> QED
    BY <2>1 DEF NoFreshRace, FreshRaces
<1> SUFFICES ASSUME NoFreshRace', NEW n \in DirNodes, NEW l \in Links
             PROVE  FreshAt(n, l)' /\ \A y \in Fetches : FetchAt(y, n, l)'
  BY DEF FreshInv
<1>5. FreshAt(n, l) /\ \A y \in Fetches : FetchAt(y, n, l)
  BY <1>0 DEF FreshInv, NoFreshRace
<1>6. /\ Exempt(n, l)' <=> Exempt(n, l)
      /\ Fresh(n)' <=> Fresh(n)
      /\ Live(n)' <=> Live(n)
      /\ Listed(n)' <=> Listed(n)
      /\ FolderOf(n) \in Folders
  BY <1>0, NodeFolder DEF Exempt, Fresh, Live, Listed
<1>7. CASE l # e.link
  <2>1. Arrives(n, l) => Arrives(n, l)'
    <3>1. ASSUME NEW i \in DOMAIN log, i > Polled, log[i].link = l PROVE i > Polled'
      BY <1>0, <1>1, <1>3, <1>7, <3>1
    <3> QED
      BY <1>0, <3>1 DEF Arrives
  <2>2. Unheard(l) => Unheard(l)'
    <3>1. ASSUME NEW i \in DOMAIN log, i > Polled, log[i].link = l PROVE i > Polled'
      BY <1>0, <1>1, <1>3, <1>7, <3>1
    <3> QED
      BY <1>0, <3>1 DEF Unheard
  <2>3. parentOf'[l] = parentOf[l]
    BY <1>3, <1>7
  <2>4. Known(n, l)' <=> Known(n, l)
    BY <1>0, <2>3 DEF Known
  <2> QED
    BY <1>0, <1>5, <1>6, <2>1, <2>2, <2>3, <2>4 DEF FreshAt, FetchAt
<1>8. CASE l = e.link
  <2>1. FolderOf(n) \in todo => Arrives(n, l)'
    BY <1>0, <1>3, <1>8 DEF Arrives
  <2>2. parentOf[l] = FolderOf(n) => FolderOf(n) \in todo
    BY <1>6, <1>8, DirListingAssumption DEF ParentsToInvalidate
  <2>3. ASSUME NEW y \in Fetches, fetch[y].pc \in {"publish", "persist"}, fetch[y].node = n,
               l \in fetch[y].result
        PROVE  Arrives(n, l)'
    BY <1>4, <1>6, <1>8, <2>1, <2>2, <2>3 DEF Listing
  <2>4. Known(n, l) => Arrives(n, l)'
    BY <2>1, <2>2, <2>3 DEF Known
  <2>5. Arrives(n, l) => Arrives(n, l)'
    <3>1. ASSUME NEW i \in DOMAIN log, i > Polled, log[i].link = l,
                 log[i].parent = FolderOf(n) \/ log[i].kind = "refresh"
          PROVE  Arrives(n, l)'
      <4>1. CASE i = last + 1
        <5>1. FolderOf(n) \in todo
          BY <1>6, <3>1, <4>1, DirListingAssumption DEF ParentsToInvalidate
        <5> QED
          BY <2>1, <5>1
      <4>2. CASE i # last + 1
        <5>1. i > Polled'
          BY <1>0, <1>1, <1>3, <3>1, <4>2
        <5> QED
          BY <1>0, <3>1, <5>1 DEF Arrives
      <4> QED
        BY <4>1, <4>2
    <3> QED
      BY <1>0, <3>1 DEF Arrives
  <2>6. FreshAt(n, l)'
    BY <1>0, <1>5, <1>6, <2>4, <2>5 DEF FreshAt
  <2>7. ASSUME NEW y \in Fetches PROVE FetchAt(y, n, l)'
    BY <1>0, <1>5, <1>6, <2>1, <2>2, <2>3, <2>5 DEF FetchAt
  <2> QED
    BY <2>6, <2>7
<1> QED
  BY <1>7, <1>8

LEMMA FreshInvalidates ==
  ASSUME Types, KnownIsRegistered, DeleteLast, FreshInv, NEW f \in Folders, Invalidate(f)
  PROVE  FreshInv'
<1> DEFINE e == log[last + 1]
           todo == poll.todo \ {f}
<1>0. /\ last \in Nat /\ last < Len(log) /\ todo \in SUBSET Folders /\ f \in poll.todo
      /\ UNCHANGED <<drive, log, dirs, fetch, disk, op, own>> /\ races \subseteq races'
      /\ Handled(todo) /\ DirTypes
  BY DEF Invalidate, Types, DriveTypes, TreeTypes, Note
<1>1. /\ Heard = last /\ Polled = last + 1 /\ last + 1 \in DOMAIN log /\ DOMAIN log \subseteq Nat
      /\ e.link \in Links
  <2>1. Heard = last /\ Polled = last + 1 /\ last + 1 \in DOMAIN log /\ DOMAIN log \subseteq Nat
    BY <1>0, LogTypes, DirListingAssumption DEF Types, Heard, Polled
  <2> QED
    BY <2>1, LogTypes DEF Types
<1>2. /\ Polled' = last + 1 /\ poll'.todo = todo
      /\ todo # {} => Heard' = last
      /\ \A l \in Links : \/ parentOf'[l] = parentOf[l]
                          \/ todo = {} /\ e.kind = "delete" /\ l = e.link
  <2> HIDE DEF todo
  <2> QED
    BY <1>0, HandledDoes DEF Types
<1>3. \A n \in DirNodes :
        /\ dir'[n].st = dir[n].st /\ dir'[n].children = dir[n].children /\ dir'[n].gen = dir[n].gen
        /\ dir'[n].fresh => dir[n].fresh
        /\ dirs[f] = n => ~dir'[n].fresh
  <2>1. CASE dirs[f] = None
    BY <2>1, DirListingAssumption DEF Invalidate
  <2>2. CASE dirs[f] # None
    <3>1. dirs[f] \in DirNodes /\ dir' = [dir EXCEPT ![dirs[f]].fresh = FALSE]
      BY <2>2 DEF Invalidate, Types, TreeTypes
    <3> QED
      BY <1>0, <3>1, ExpiresDoes DEF Becomes
  <2> QED
    BY <2>1, <2>2
<1>4. NoFreshRace' /\ dirs[f] # None =>
        \A y \in Fetches : ~(fetch[y].pc = "publish" /\ fetch[y].node = dirs[f])
  <2>1. dirs[f] # None /\ (\E y \in FetchesOf(dirs[f]) : fetch[y].pc = "publish")
          => "expiredInFlight" \in races'
    BY DEF Invalidate, Note, ListingRaces, NoRace
  <2> QED
    BY <2>1 DEF NoFreshRace, FreshRaces, FetchesOf
<1> SUFFICES ASSUME NoFreshRace', NEW n \in DirNodes, NEW l \in Links
             PROVE  FreshAt(n, l)' /\ \A y \in Fetches : FetchAt(y, n, l)'
  BY DEF FreshInv
<1>5. FreshAt(n, l) /\ \A y \in Fetches : FetchAt(y, n, l)
  BY <1>0 DEF FreshInv, NoFreshRace
<1>6. CASE FolderOf(n) = f
  <2> SUFFICES ASSUME Live(n)
               PROVE  ~dir'[n].fresh /\ \A y \in Fetches : ~(fetch[y].pc = "publish" /\ fetch[y].node = n)
    BY <1>0, <1>3 DEF FreshAt, FetchAt, Fresh, Live
  <2>1. dirs[f] = n /\ n # None
    BY <1>6, DirListingAssumption DEF KnownIsRegistered
  <2> QED
    BY <1>3, <1>4, <2>1
<1>7. CASE FolderOf(n) # f
  <2>1. /\ Exempt(n, l)' <=> Exempt(n, l)
        /\ Fresh(n)' => Fresh(n)
        /\ Live(n)' <=> Live(n)
        /\ Listed(n)' <=> Listed(n)
        /\ Unheard(l)' <=> Unheard(l)
    BY <1>0, <1>1, <1>2, <1>3 DEF Exempt, Fresh, Live, Listed, Unheard
  <2>2. Arrives(n, l) => Arrives(n, l)'
    <3>1. CASE FolderOf(n) \in poll.todo /\ log[Heard + 1].link = l
      <4>1. FolderOf(n) \in todo
        BY <1>7, <3>1
      <4> QED
        BY <1>0, <1>1, <1>2, <3>1, <4>1 DEF Arrives
    <3>2. CASE ~(FolderOf(n) \in poll.todo /\ log[Heard + 1].link = l)
      BY <1>0, <1>1, <1>2, <3>2 DEF Arrives
    <3> QED
      BY <3>1, <3>2
  <2>3. CASE parentOf'[l] = parentOf[l]
    <3>1. Known(n, l)' <=> Known(n, l)
      BY <1>0, <2>3 DEF Known
    <3> QED
      BY <1>0, <1>3, <1>5, <2>1, <2>2, <2>3, <3>1 DEF FreshAt, FetchAt
  <2>4. CASE todo = {} /\ e.kind = "delete" /\ l = e.link
    <3>1. drive[l] = None /\ \A j \in DOMAIN log : log[j].link = l => j =< last + 1
      BY <1>1, <2>4 DEF DeleteLast
    <3>2. drive[l] # FolderOf(n)
      BY <3>1, NodeFolder, DirListingAssumption
    <3>3. ~Unheard(l)
      BY <1>1, <3>1 DEF Unheard
    <3>4. ~Arrives(n, l)
      BY <1>1, <1>7, <2>4, <3>1 DEF Arrives
    <3>5. Fresh(n) /\ ~Exempt(n, l) => l \notin dir[n].children
      BY <1>5, <3>2, <3>3, <3>4 DEF FreshAt
    <3>6. FreshAt(n, l)'
      BY <1>0, <1>3, <2>1, <3>2, <3>5 DEF FreshAt
    <3>7. ASSUME NEW y \in Fetches PROVE FetchAt(y, n, l)'
      BY <1>0, <1>3, <1>5, <2>1, <2>2, <3>2 DEF FetchAt
    <3> QED
      BY <3>6, <3>7
  <2> QED
    BY <1>2, <2>3, <2>4
<1> QED
  BY <1>6, <1>7

LEMMA FreshLatest ==
  ASSUME Types, FreshInv, LatestEvent
  PROVE  FreshInv'
<1>0. /\ UNCHANGED <<drive, log, poll, dir, fetch, parentOf, op>> /\ races \subseteq races'
      /\ poll.todo = {}
  BY DirListingAssumption DEF LatestEvent, Types, DriveTypes, Note
<1>1. NoFreshRace' => DOMAIN log = {}
  <2>1. log # <<>> => "missedEvent" \in races'
    BY DEF LatestEvent, Note, ListingRaces, NoRace
  <2> QED
    BY <2>1 DEF NoFreshRace, FreshRaces
<1> SUFFICES ASSUME NoFreshRace', NEW n \in DirNodes, NEW l \in Links
             PROVE  FreshAt(n, l)' /\ \A y \in Fetches : FetchAt(y, n, l)'
  BY DEF FreshInv
<1>2. FreshAt(n, l) /\ \A y \in Fetches : FetchAt(y, n, l)
  BY <1>0 DEF FreshInv, NoFreshRace
<1>3. ~Arrives(n, l) /\ ~Unheard(l)
  BY <1>0, <1>1 DEF Arrives, Unheard
<1>4. /\ Exempt(n, l)' <=> Exempt(n, l)
      /\ Fresh(n)' <=> Fresh(n)
      /\ Live(n)' <=> Live(n)
      /\ Listed(n)' <=> Listed(n)
      /\ Known(n, l)' <=> Known(n, l)
  BY <1>0 DEF Exempt, Fresh, Live, Listed, Known
<1> QED
  BY <1>0, <1>2, <1>3, <1>4 DEF FreshAt, FetchAt

LEMMA FreshStep ==
  Types /\ LoadingInv /\ KnownIsRegistered /\ PersistInv /\ OwnInv
    /\ LogInv /\ PollInv /\ FreshInv /\ [Next]_listingVars => FreshInv'
<1> SUFFICES ASSUME Types, LoadingInv, KnownIsRegistered, PersistInv, OwnInv, LogInv, PollInv,
                    FreshInv, [Next]_listingVars
             PROVE  FreshInv'
  OBVIOUS
<1>1. ASSUME NEW y \in Fetches, Fetching(y) PROVE FreshInv'
  BY <1>1, FreshAnswer, FreshPublish, FreshPersist DEF Fetching
<1>2. ASSUME NEW n \in DirNodes, Lapse(n) \/ TimerPersists(n) PROVE FreshInv'
  BY <1>2, FreshQuiet
<1>3. CASE Polling
  BY <1>3, FreshLatest, FreshPolls, FreshInvalidates DEF Polling, LogInv
<1>4. CASE Handling
  BY <1>4, FreshPatch, FreshDrive DEF Handling, OwnInv, PersistInv
<1>5. CASE Elsewhere
  BY <1>5, FreshDrive DEF Elsewhere, FolderOrNone, Kinds
<1>6. CASE Loading
  BY <1>6, FreshLoading DEF Loading
<1>7. CASE Knowing
  BY <1>7, FreshQuiet DEF Knowing
<1>8. CASE UNCHANGED listingVars
  <2>1. UNCHANGED <<drive, log, last, poll, dir, fetch, parentOf, op, races>>
    BY <1>8 DEF listingVars
  <2>2. \A n \in DirNodes : /\ Fresh(n)' <=> Fresh(n)
                            /\ Live(n)' <=> Live(n)
                            /\ \A l \in Links : Known(n, l)' <=> Known(n, l)
    BY <2>1 DEF Fresh, Live, Listed, Known
  <2> QED
    BY <2>1, <2>2, FreshKept
<1> QED
  BY <1>1, <1>2, <1>3, <1>4, <1>5, <1>6, <1>7, <1>8 DEF Next

LEMMA FreshInit == Init => LogInv /\ PollInv /\ FreshInv
<1> SUFFICES ASSUME Init PROVE LogInv /\ PollInv /\ FreshInv
  OBVIOUS
<1>1. DOMAIN log = {} /\ last = None /\ poll.todo = {} /\ \A l \in Links : told[l] = 0
  BY DEF Init, NoPoll
<1>2. \A l \in Links : Latest(l) = 0
  <2>1. \A l \in Links : Latest(l) = Max({0})
    BY <1>1, Zenon DEF Latest
  <2>2. Max({0}) = 0
    BY DEF Max
  <2> QED
    BY <2>1, <2>2
<1>3. \A n \in DirNodes : ~Listed(n)
  BY DEF Init, NoDirNode, Listed
<1>4. \A y \in Fetches : fetch[y].pc = "idle"
  BY NoFetchTyped DEF Init
<1>5. LogInv
  BY <1>1, <1>2 DEF LogInv, DeleteLast, LatestIsLast
<1>6. PollInv
  BY <1>1 DEF PollInv, Heard
<1>7. FreshInv
  BY <1>3, <1>4 DEF FreshInv, FreshAt, FetchAt, Fresh
<1> QED
  BY <1>5, <1>6, <1>7

\* A listing that counts as fresh has every change whose event was handled, outside the races
\* that are known: an event reaches the folder that has the entry now and, through the map of
\* parents, the one that had it, and a fetch that is running brings no older listing.  (handle,
\* parentsToInvalidate, expire, shouldPublish, finishLoad.)
THEOREM FreshListingsHandled == Spec => []FreshHasHandled
<1>1. Types /\ LogInv /\ PollInv /\ FreshInv => FreshHasHandled
  <2> SUFFICES ASSUME Types, LogInv, PollInv, FreshInv, NoFreshRace, NEW n \in DirNodes,
                      NEW l \in Links, Fresh(n), told[l] >= Latest(l), op.link # l
               PROVE  l \in dir[n].children <=> drive[l] = FolderOf(n)
    BY DEF FreshHasHandled, HandledShows, NoFreshRace, FreshRaces, Fresh
  <2>1. /\ DOMAIN log \subseteq Nat /\ Heard \in Nat /\ Polled \in Nat /\ Heard =< Polled
        /\ poll.todo # {} => Heard + 1 \in DOMAIN log
        /\ Latest(l) \in Nat /\ told[l] \in Nat
    BY LogTypes DEF Types, DriveTypes, LogInv, LatestIsLast
  <2>2. ASSUME NEW i \in DOMAIN log, log[i].link = l PROVE i =< Heard
    <3>1. i =< Latest(l) /\ told[l] =< Heard
      BY <2>2 DEF LogInv, LatestIsLast, PollInv
    <3> QED
      BY <2>1, <3>1
  <2>3. ~Unheard(l) /\ ~Arrives(n, l)
    BY <2>1, <2>2 DEF Unheard, Arrives
  <2> QED
    BY <2>3 DEF FreshInv, FreshAt, Exempt
<1>2. Spec => []PersistInv
  BY PersistInit, PersistStep, TypesAlways, KnownHear, PTL DEF Spec
<1>3. Spec => []OwnInv
  BY <1>2, OwnInit, OwnStep, TypesAlways, KnownHear, PTL DEF Spec
<1>4. Spec => []LoadingInv
  BY LoadingInit, LoadingStep, TypesAlways, PTL DEF Spec
<1> QED
  BY <1>1, <1>2, <1>3, <1>4, FreshInit, FreshStep, LogStep, PollStep, TypesAlways, KnownHear, PTL
  DEF Spec
=============================================================================
