----------------------------- MODULE BlockCache -----------------------------
(***************************************************************************)
(* The cache on disk, internal/drive.BlockCache: blocks of files and       *)
(* listings of folders in two trees, under one budget that a counter in    *)
(* memory keeps.  Goroutines write at once, each through a temporary file; *)
(* whoever passes the budget evicts what was used least recently; the      *)
(* local API clears everything.  A daemon that starts moves a cache of the *)
(* layout before, and counts what is there; it can be killed at any step.  *)
(***************************************************************************)
EXTENDS Integers, Sequences, FiniteSets, FiniteSetsExt, SequencesExt

CONSTANTS
  BlockKeys,   \* blocks, each of a link of its own
  ListingKeys, \* listings
  Writers,     \* goroutines in Put or PutListing
  Lengths,     \* bytes of an entry
  Limit,       \* the budget
  OldLayout,   \* the blocks that lie in the layout before, at the first start
  MaxPuts,     \* bound: entries written
  MaxStarts,   \* bound: starts of the daemon
  MaxClears,   \* bound: times the cache is cleared
  None

\* A listing that a migration took for a folder of blocks is a file of its own from then on.
Stray(l) == <<l, "stray">>
Strays == {Stray(l) : l \in ListingKeys}
Keys == BlockKeys \cup ListingKeys \cup Strays

ASSUME BlockCacheAssumption ==
  /\ BlockKeys \cap (ListingKeys \cup {"blocks.migrating", "listings"}) = {}
  /\ (BlockKeys \cup ListingKeys) \cap Strays = {}
  /\ IsFiniteSet(BlockKeys) /\ IsFiniteSet(ListingKeys) /\ IsFiniteSet(Writers)
  /\ Lengths \subseteq Nat \ {0} /\ Limit \in Nat \ {0}
  /\ OldLayout \subseteq BlockKeys /\ None \notin Writers
  /\ MaxPuts \in Nat /\ MaxStarts \in Nat /\ MaxClears \in Nat

VARIABLES
  bytes,   \* the bytes of each entry on disk, 0 when it is not there
  place,   \* the directory each entry is in
  lru,     \* the entries by time of use, oldest first
  dirs,    \* the directories that are there: blocks, blocks.migrating, listings
  size,    \* BlockCache.size
  daemon,  \* down, or where OpenBlockCache is, or up, or failed
  moving,  \* migrateLayout: what it has still to rename
  writer,  \* the goroutines
  mu,      \* who holds BlockCache.mu across steps
  clear,   \* the API's clearing of the cache
  puts, starts, clears, \* bounds
  had,     \* history: the blocks of the layout before that were never evicted nor cleared
  races    \* history: the known races the run went through

cacheVars == <<bytes, place, lru, dirs, size, daemon, moving, writer, mu, clear,
               puts, starts, clears, had, races>>

-----------------------------------------------------------------------------
NoWriter == [pc |-> "idle", key |-> None, len |-> 0, old |-> 0, todo |-> <<>>]
CacheRaces == {"staleStat", "staleScan", "clearedBetween", "misplaced", "openedOver"}

Present == {k \in Keys : bytes[k] > 0}
Total == SumFunction(bytes)
Tree(k) == IF k \in ListingKeys THEN "listings" ELSE "blocks"
In(dir) == {k \in Present : place[k] = dir}

Note(race, happened) == races' = IF happened THEN races \cup {race} ELSE races

\* The entries by time of use without those that are gone; the rank of each is among the rest.
Without(gone) ==
  LET rest == {i \in DOMAIN lru : lru[i] \notin gone}
      Rank(i) == Cardinality({j \in rest : j <= i})
  IN [n \in 1..Cardinality(rest) |-> lru[CHOOSE i \in rest : Rank(i) = n]]

Touched(k) == Append(Without({k}), k)
Step(w, pc) == writer' = [writer EXCEPT ![w].pc = pc]

Serving == <<daemon, moving, puts, starts, clears>>

-----------------------------------------------------------------------------
(* OpenBlockCache and migrateLayout.                                         *)

\* What a migration finds to move: the folders of the layout before, or whatever is there.
TopEntries == In("top") \cup (dirs \cap {"blocks.migrating", "listings"})

\* The folder the blocks go to is made first.
WrongMigratingDir == "blocks"

\* Entries move through a directory of their own.
MigratingDir == "blocks.migrating"

\* A layout that has its blocks directory, or nothing at all, is left as it is.
Start ==
  /\ daemon \in {"down", "failed"} /\ starts < MaxStarts
  /\ starts' = starts + 1
  /\ IF "blocks" \in dirs \/ TopEntries = {}
     THEN daemon' = "opening" /\ UNCHANGED <<dirs, moving>>
     ELSE /\ daemon' = "moving" /\ moving' = TopEntries
          /\ dirs' = dirs \cup {MigratingDir}
  /\ UNCHANGED <<bytes, place, lru, size, writer, mu, clear, puts, clears, had, races>>

MoveBlock(b) ==
  /\ daemon = "moving" /\ b \in moving \cap BlockKeys
  /\ place' = [place EXCEPT ![b] = MigratingDir]
  /\ moving' = moving \ {b}
  /\ UNCHANGED <<bytes, lru, dirs, size, daemon, writer, mu, clear, puts, starts, clears, had,
                 races>>

\* After the cache was cleared, the listings may be all there is.
MoveListings ==
  /\ daemon = "moving" /\ "listings" \in moving
  /\ moving' = moving \ {"listings"} /\ dirs' = dirs \ {"listings"}
  /\ bytes' = [k \in Keys |->
       CASE k \in ListingKeys -> 0
         [] k \in Strays /\ bytes[k[1]] > 0 -> bytes[k[1]]
         [] OTHER -> bytes[k]]
  /\ place' = [k \in Keys |-> IF k \in Strays /\ bytes[k[1]] > 0 THEN MigratingDir ELSE place[k]]
  /\ lru' = [i \in DOMAIN lru |-> IF lru[i] \in ListingKeys THEN Stray(lru[i]) ELSE lru[i]]
  /\ Note("misplaced", In("listings") # {})
  /\ UNCHANGED <<size, daemon, writer, mu, clear, puts, starts, clears, had>>

\* The directory a killed migration left is an entry too, and cannot be moved into itself.
MoveFails ==
  /\ daemon = "moving" /\ "blocks.migrating" \in moving
  /\ daemon' = "failed" /\ moving' = {}
  /\ UNCHANGED <<bytes, place, lru, dirs, size, writer, mu, clear, puts, starts, clears, had,
                 races>>

MoveEnds ==
  /\ daemon = "moving" /\ moving = {}
  /\ daemon' = "opening"
  /\ dirs' = (dirs \ {MigratingDir}) \cup {"blocks"}
  /\ place' = [k \in Keys |-> IF place[k] = MigratingDir THEN "blocks" ELSE place[k]]
  /\ UNCHANGED <<bytes, lru, size, moving, writer, mu, clear, puts, starts, clears, had, races>>

\* The walk counts what is there; temporary files were never counted.
Open ==
  /\ daemon = "opening"
  /\ daemon' = "up" /\ size' = Total
  /\ dirs' = dirs \cup {"blocks", "listings"}
  /\ Note("openedOver", Total > Limit)
  /\ UNCHANGED <<bytes, place, lru, moving, writer, mu, clear, puts, starts, clears, had>>

\* The daemon is killed, at any step; what is on disk stays.
Kill ==
  /\ daemon \in {"moving", "opening", "up"}
  /\ daemon' = "down" /\ moving' = {} /\ size' = 0 /\ mu' = None /\ clear' = "idle"
  /\ writer' = [w \in Writers |-> NoWriter]
  /\ UNCHANGED <<bytes, place, lru, dirs, puts, starts, clears, had, races>>

-----------------------------------------------------------------------------
(* Put, PutListing, Get, GetListing and evict.                               *)

\* The temporary file is written, in a directory made for it.
BeginPut(w, k, len) ==
  /\ daemon = "up" /\ writer[w].pc = "idle" /\ puts < MaxPuts
  /\ puts' = puts + 1 /\ dirs' = dirs \cup {Tree(k)}
  /\ writer' = [writer EXCEPT ![w] = [NoWriter EXCEPT !.pc = "temp", !.key = k, !.len = len]]
  /\ UNCHANGED <<bytes, place, lru, size, daemon, moving, mu, clear, starts, clears, had, races>>

Renamed(w) ==
  LET k == writer[w].key IN
  /\ bytes' = [bytes EXCEPT ![k] = writer[w].len] /\ place' = [place EXCEPT ![k] = Tree(k)]
  /\ lru' = Touched(k)

\* What the entry had before is counted twice.
WrongPutBlock(w) ==
  /\ writer[w].pc = "temp" /\ writer[w].key \in BlockKeys /\ mu = None
  /\ Renamed(w)
  /\ size' = size + writer[w].len
  /\ Step(w, "evict")
  /\ UNCHANGED <<dirs, mu, clear, had, races>> /\ UNCHANGED Serving

\* Put: stat, rename and count in one.
PutBlock(w) ==
  /\ writer[w].pc = "temp" /\ writer[w].key \in BlockKeys /\ mu = None
  /\ Renamed(w)
  /\ size' = size + writer[w].len - bytes[writer[w].key]
  /\ Step(w, "evict")
  /\ UNCHANGED <<dirs, mu, clear, had, races>> /\ UNCHANGED Serving

\* PutListing: each on its own.
StatListing(w) ==
  /\ writer[w].pc = "temp" /\ writer[w].key \in ListingKeys
  /\ writer' = [writer EXCEPT ![w].pc = "rename", ![w].old = bytes[writer[w].key]]
  /\ UNCHANGED <<bytes, place, lru, dirs, size, mu, clear, had, races>> /\ UNCHANGED Serving

RenameListing(w) ==
  /\ writer[w].pc = "rename"
  /\ Renamed(w) /\ Step(w, "count")
  /\ Note("staleStat", bytes[writer[w].key] # writer[w].old)
  /\ UNCHANGED <<dirs, size, mu, clear, had>> /\ UNCHANGED Serving

CountListing(w) ==
  /\ writer[w].pc = "count" /\ mu = None
  /\ size' = size + writer[w].len - writer[w].old
  /\ Step(w, "evict")
  /\ UNCHANGED <<bytes, place, lru, dirs, mu, clear, had, races>> /\ UNCHANGED Serving

\* Get and GetListing: a hit counts as use.
Hit(k) ==
  /\ daemon = "up" /\ k \in In(Tree(k)) \ Strays /\ Last(lru) # k
  /\ lru' = Touched(k)
  /\ UNCHANGED <<bytes, place, dirs, size, writer, mu, clear, had, races>> /\ UNCHANGED Serving

\* The budget counts as passed only when it is exceeded by one.
WrongOver == size > Limit + 1

\* evict has something to do.
Over == size > Limit

EvictNothing(w) ==
  /\ writer[w].pc = "evict" /\ mu = None /\ ~Over
  /\ writer' = [writer EXCEPT ![w] = NoWriter]
  /\ UNCHANGED <<bytes, place, lru, dirs, size, mu, clear, had, races>> /\ UNCHANGED Serving

\* The walk, with the lock held: what is there, the least recently used first.
EvictScan(w) ==
  /\ writer[w].pc = "evict" /\ mu = None /\ Over
  /\ mu' = w
  /\ writer' = [writer EXCEPT ![w].pc = "evicting",
                              ![w].todo = [i \in DOMAIN lru |-> <<lru[i], bytes[lru[i]]>>]]
  /\ UNCHANGED <<bytes, place, lru, dirs, size, clear, had, races>> /\ UNCHANGED Serving

\* One entry after the other goes, unless it is gone.
EvictNext(w) ==
  /\ writer[w].pc = "evicting" /\ writer[w].todo # <<>> /\ Over
  /\ LET k == writer[w].todo[1][1]  len == writer[w].todo[1][2] IN
     /\ IF bytes[k] = 0 THEN UNCHANGED <<bytes, lru, size, had, races>>
        ELSE /\ bytes' = [bytes EXCEPT ![k] = 0] /\ lru' = Without({k})
             /\ size' = size - len /\ had' = had \ {k}
             /\ Note("staleScan", bytes[k] # len)
     /\ writer' = [writer EXCEPT ![w].todo = Tail(@)]
  /\ UNCHANGED <<place, dirs, mu, clear>> /\ UNCHANGED Serving

\* The walk that ends early keeps the lock.
WrongEvictEnds(w) ==
  /\ writer[w].pc = "evicting" /\ (writer[w].todo = <<>> \/ ~Over)
  /\ mu' = IF writer[w].todo = <<>> THEN None ELSE mu
  /\ writer' = [writer EXCEPT ![w] = NoWriter]
  /\ UNCHANGED <<bytes, place, lru, dirs, size, clear, had, races>> /\ UNCHANGED Serving

\* The walk ends with the entries, or when enough is gone.
EvictEnds(w) ==
  /\ writer[w].pc = "evicting" /\ (writer[w].todo = <<>> \/ ~Over)
  /\ mu' = None
  /\ writer' = [writer EXCEPT ![w] = NoWriter]
  /\ UNCHANGED <<bytes, place, lru, dirs, size, clear, had, races>> /\ UNCHANGED Serving

-----------------------------------------------------------------------------
(* POST /v1/cache/clear: ClearCacheDir, then ResetCacheSize.                 *)

BeginClear ==
  /\ daemon = "up" /\ clear = "idle" /\ clears < MaxClears
  /\ clear' = "blocks" /\ clears' = clears + 1
  /\ UNCHANGED <<bytes, place, lru, dirs, size, daemon, moving, writer, mu, puts, starts, had,
                 races>>

Writing(tree) == {w \in Writers : writer[w].pc \in {"temp", "rename"} /\ Tree(writer[w].key) = tree}

Removed(gone) ==
  /\ bytes' = [k \in Keys |-> IF k \in gone THEN 0 ELSE bytes[k]]
  /\ lru' = Without(gone) /\ had' = had \ gone

\* RemoveAll of a tree: a write whose temporary file goes with it fails, quietly.
ClearTree ==
  /\ clear \in {"blocks", "listings"}
  /\ Removed(In(clear)) /\ dirs' = dirs \ {clear}
  /\ writer' = [w \in Writers |-> IF w \in Writing(clear) THEN NoWriter ELSE writer[w]]
  /\ clear' = IF clear = "blocks" THEN "listings" ELSE "reset"
  /\ UNCHANGED <<place, size, mu, races>> /\ UNCHANGED Serving

\* A file that is written meanwhile makes RemoveAll fail, which ends the clearing.
ClearFails ==
  /\ clear \in {"blocks", "listings"} /\ Writing(clear) # {}
  /\ \E gone \in SUBSET In(clear) : Removed(gone)
  /\ clear' = "reset"
  /\ UNCHANGED <<place, dirs, size, writer, mu, races>> /\ UNCHANGED Serving

\* The counter starts anew, whatever was written since or could not be removed.
ResetCacheSize ==
  /\ clear = "reset" /\ mu = None
  /\ clear' = "idle" /\ size' = 0
  /\ Note("clearedBetween", Total > 0 \/ \E w \in Writers : writer[w].pc = "count")
  /\ UNCHANGED <<bytes, place, lru, dirs, writer, mu, had>> /\ UNCHANGED Serving

-----------------------------------------------------------------------------
Init ==
  /\ bytes \in [Keys -> {0} \cup Lengths] /\ \A k \in Keys : bytes[k] > 0 <=> k \in OldLayout
  /\ place = [k \in Keys |-> IF k \in OldLayout THEN "top" ELSE Tree(k)]
  /\ lru \in SetToSeqs(OldLayout)
  /\ dirs = {} /\ size = 0 /\ daemon = "down" /\ moving = {}
  /\ writer = [w \in Writers |-> NoWriter] /\ mu = None /\ clear = "idle"
  /\ puts = 0 /\ starts = 0 /\ clears = 0 /\ had = OldLayout /\ races = {}

Opening == \/ Start \/ (\E b \in BlockKeys : MoveBlock(b)) \/ MoveListings
           \/ MoveFails \/ MoveEnds \/ Open

Writer(w) ==
  \/ \E k \in BlockKeys \cup ListingKeys, len \in Lengths : BeginPut(w, k, len)
  \/ PutBlock(w) \/ StatListing(w) \/ RenameListing(w) \/ CountListing(w)
  \/ EvictNothing(w) \/ EvictScan(w) \/ EvictNext(w) \/ EvictEnds(w)

Clearing == BeginClear \/ ClearTree \/ ClearFails \/ ResetCacheSize

Next == Opening \/ Kill \/ Clearing \/ (\E w \in Writers : Writer(w)) \/ (\E k \in Keys : Hit(k))

Spec == Init /\ [][Next]_cacheVars

-----------------------------------------------------------------------------
(* Properties.                                                               *)

Directories == {"blocks", "blocks.migrating", "listings"}

\* Every variable keeps its type, the order of use is one of the entries that are there, and
\* the lock is held by the one writer that evicts.
TypeOK ==
  /\ bytes \in [Keys -> {0} \cup Lengths] /\ place \in [Keys -> Directories \cup {"top"}]
  /\ ToSet(lru) = Present /\ IsInjective(lru)
  /\ dirs \subseteq Directories /\ size \in Int
  /\ daemon \in {"down", "failed", "moving", "opening", "up"}
  /\ \A w \in Writers : mu = w <=> writer[w].pc = "evicting"
  /\ mu \in Writers \cup {None} /\ clear \in {"idle", "blocks", "listings", "reset"}
  /\ had \subseteq Present /\ races \subseteq CacheRaces

\* What has been renamed and not been counted yet.
Pending == SumFunction([w \in Writers |-> IF writer[w].pc = "count"
                                          THEN writer[w].len - writer[w].old ELSE 0])

DriftRaces == {"staleStat", "staleScan", "clearedBetween"}

\* The counter is what is on disk but for what is about to be counted, whatever writes and
\* evicts at once.  About the stat, rename and count of Put, and about evict.
Accounted == races \cap DriftRaces = {} /\ daemon = "up" /\ clear = "idle" => size + Pending = Total

\* Once nobody writes, the cache is within its budget.  About evict.
Quiet == /\ daemon = "up" /\ clear = "idle"
         /\ \A w \in Writers : writer[w].pc \in {"idle", "temp", "rename"}
WithinBudget == races \cap (DriftRaces \cup {"openedOver"}) = {} /\ Quiet => Total <= Limit

\* A daemon that is up finds every block of the layout before that was not evicted, wherever
\* the migration was killed.  About the directory a migration goes through.
OldBlocksFound == daemon = "up" => \A b \in had : place[b] = "blocks"

\* drive/cache.go:37: OpenBlockCache opens the cache, "creating and migrating the layout if
\* needed".  A migration that was killed makes every later one fail.
MountOpens == daemon # "failed"

=============================================================================
