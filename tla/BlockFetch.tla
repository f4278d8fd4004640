----------------------------- MODULE BlockFetch -----------------------------
(***************************************************************************)
(* Reading a file of the drive: internal/drive.File, whose handle several  *)
(* requests read at once.  A block comes from the handle's memory, from    *)
(* the block cache on disk or from Proton; one reader fetches it and the   *)
(* others wait for what it gets.  A download takes a slot for each         *)
(* attempt, retries what is limited or cut off, and renews a session or a  *)
(* storage token that was rejected, once each.                             *)
(*                                                                         *)
(* Offsets are counted in units, BlockUnits to a block.  The requests are  *)
(* the kernel's reads (fileHandle.Read) and the downloads of a whole file  *)
(* that opening it for writing makes (downloadInto).                       *)
(***************************************************************************)
EXTENDS Integers, Sequences, FiniteSets, FiniteSetsExt

CONSTANTS
  Readers,     \* requests at work
  Handles,     \* open files
  Large,       \* those too large for the cache on disk
  Size,        \* plaintext units of each file
  Claimed,     \* the size a handle takes for it, larger while its attributes are unknown
  BlockUnits,  \* units of a block: blockSize
  Chunk,       \* units of a download's buffer
  Spans,       \* what the kernel reads: offset and length
  MaxCached,   \* maxCachedBlocks
  Slots,       \* SetMaxDownloads: downloads at once
  Attempts,    \* getRawAttempts
  Waits,       \* how long a limited answer may ask to wait
  MaxFaults,   \* bound: answers that are no success
  MaxReads     \* bound: requests made

ASSUME BlockFetchAssumption ==
  /\ Handles # {} /\ Large \subseteq Handles /\ Size \in [Handles -> Nat] /\ Claimed \in [Handles -> Nat]
  /\ \A h \in Handles : Claimed[h] >= Size[h]
  /\ BlockUnits \in Nat \ {0} /\ Chunk \in Nat \ {0} /\ BlockUnits % Chunk = 0
  /\ Spans \subseteq Nat \X (Nat \ {0})
  /\ MaxCached \in Nat \ {0} /\ Slots \in Nat \ {0} /\ Attempts \in Nat \ {0}
  /\ Waits \subseteq Nat \ {0} /\ MaxFaults \in Nat /\ MaxReads \in Nat

VARIABLES
  rd,      \* the readers: where each is in ReadAt, getBlock, fetchAndCacheBlock, getRawRetrying
  claims,  \* File.inflight: the reader that fetches each claimed block
  cache,   \* File.cache and cacheLRU: the blocks in memory, oldest first
  onDisk,  \* BlockCache: the blocks of each file on disk
  handle,  \* closed, failed, and whether a transfer is tracked and shown
  window,  \* Client.rateLimit: time left of the backoff window
  faults, reads, \* bounds
  owed,    \* history: time left of the longest wait that a given-up answer asked for
  races    \* history: the known races the run went through

readVars == <<rd, claims, cache, onDisk, handle, window, faults, reads, owed, races>>

-----------------------------------------------------------------------------
BlockIndexForOffset(off) == off \div BlockUnits + 1
BlockByteOffset(idx) == (idx - 1) * BlockUnits
Blocks(h) == {b \in 1 .. (Claimed[h] + 1) : BlockByteOffset(b) < Size[h]}
BlockLen(h, b) == Min({BlockUnits, Size[h] - BlockByteOffset(b)})

\* The reader's current block.
At(r) == rd[r].off + rd[r].n
Idx(r) == BlockIndexForOffset(At(r))
Key(r) == <<rd[r].h, Idx(r)>>
Claims == UNION {{h} \X (1 .. (Claimed[h] + 1)) : h \in Handles}

Idle == [pc |-> "idle", h |-> CHOOSE h \in Handles : TRUE, kind |-> "read", off |-> 0, len |-> 0,
         n |-> 0, ctx |-> TRUE, err |-> "none", attempt |-> 0, wait |-> 0, session |-> FALSE,
         token |-> FALSE, missed |-> FALSE]

\* A download's buffer that does not divide a block.
WrongBuffer == Chunk + 1

\* downloadInto's buffer.
Buffer == Chunk

FetchRaces == {"borrowedError", "refetched", "evicted", "windowCut", "limitedAtEnd"}

Go(r, pc) == rd' = [rd EXCEPT ![r].pc = pc, ![r].wait = 0]
Fail(r, pc, err) == rd' = [rd EXCEPT ![r].pc = pc, ![r].err = err, ![r].wait = 0]

InMemory(h, b) == \E i \in DOMAIN cache[h] : cache[h][i] = b
UseDisk(h) == h \notin Large
Used == Cardinality({r \in Readers : rd[r].pc = "get"})

-----------------------------------------------------------------------------
(* Requests.                                                                 *)

Begin(r, h, kind, off, len) ==
  /\ rd[r].pc = "idle" /\ ~handle[h].closed /\ reads < MaxReads
  /\ rd' = [rd EXCEPT ![r] = [Idle EXCEPT !.pc = "read", !.h = h, !.kind = kind,
                                          !.off = off, !.len = len]]
  /\ reads' = reads + 1
  /\ UNCHANGED <<claims, cache, onDisk, handle, window, faults, owed, races>>

\* The kernel gives a request up, or its deadline passes.
CtxEnds(r) ==
  /\ rd[r].pc \in {"wait", "slot", "get", "pause", "refresh"} /\ rd[r].ctx
  /\ rd' = [rd EXCEPT ![r].ctx = FALSE]
  /\ UNCHANGED <<claims, cache, onDisk, handle, window, faults, reads, owed, races>>

\* Of the block at hand what it has is copied; a block that ends before the offset is the end
\* of the file, as is the size the handle has for it.
Copied(r) ==
  LET have == BlockByteOffset(Idx(r)) + BlockLen(rd[r].h, Idx(r)) - At(r)
      n == rd[r].n + Max({0, Min({have, rd[r].len - rd[r].n})})
  IN [rd[r] EXCEPT !.pc = IF have <= 0 \/ n >= rd[r].len \/ rd[r].off + n >= Claimed[rd[r].h]
                          THEN "reply" ELSE "read",
                   !.n = n, !.attempt = 0, !.session = FALSE, !.token = FALSE, !.missed = FALSE]

\* ReadAt, the next block it needs: cachedBlock.
NextBlock(r) ==
  /\ rd[r].pc = "read"
  /\ rd' = [rd EXCEPT ![r] = IF InMemory(@.h, Idx(r)) THEN Copied(r) ELSE [@ EXCEPT !.pc = "claim"]]
  /\ UNCHANGED <<claims, cache, onDisk, handle, window, faults, reads, owed, races>>

\* What ReadAt returns: an error only when nothing was read before it, else the end of the file
\* when less was read than asked for.
Returned(r) == IF rd[r].err # "none" /\ rd[r].n = 0 THEN "error"
               ELSE IF rd[r].n < rd[r].len THEN "eof" ELSE "ok"

\* Read answers the kernel; downloadInto writes what came and goes on until the end.
Reply(r) ==
  /\ rd[r].pc = "reply"
  /\ rd' = IF rd[r].kind = "download" /\ Returned(r) = "ok"
           THEN [rd EXCEPT ![r] = [@ EXCEPT !.off = At(r), !.n = 0,
                              !.pc = IF At(r) >= Claimed[rd[r].h] THEN "reply" ELSE "read"]]
           ELSE [rd EXCEPT ![r] = Idle]
  /\ UNCHANGED <<claims, cache, onDisk, handle, window, faults, reads, owed, races>>

-----------------------------------------------------------------------------
(* getBlock.                                                                 *)

\* claimBlock: one reader fetches, the others wait.  The winner finds the block on disk or
\* downloads it, if there is such a block.
ClaimBlock(r) ==
  /\ rd[r].pc = "claim"
  /\ IF Key(r) \in DOMAIN claims
     THEN Go(r, "wait") /\ UNCHANGED claims
     ELSE /\ claims' = [k \in DOMAIN claims \cup {Key(r)} |-> IF k = Key(r) THEN r ELSE claims[k]]
          /\ IF UseDisk(rd[r].h) /\ Key(r) \in onDisk THEN Go(r, "release")
             ELSE IF Idx(r) \in Blocks(rd[r].h) THEN Go(r, "slot")
             ELSE Fail(r, "release", "missing")
  /\ UNCHANGED <<cache, onDisk, handle, window, faults, reads, owed, races>>

\* A waiter gives up with its own request.
GiveUp(r) ==
  /\ rd[r].pc = "wait" /\ ~rd[r].ctx
  /\ Fail(r, "reply", "own")
  /\ UNCHANGED <<claims, cache, onDisk, handle, window, faults, reads, owed, races>>

\* A waiter that was let go without an error reads the memory once more.
Woken(r) ==
  /\ rd[r].pc = "woken"
  /\ IF InMemory(rd[r].h, Idx(r))
     THEN rd' = [rd EXCEPT ![r] = Copied(r)] /\ UNCHANGED races
     ELSE Fail(r, "reply", "evicted") /\ races' = races \cup {"evicted"}
  /\ UNCHANGED <<claims, cache, onDisk, handle, window, faults, reads, owed>>

\* Room is made one block too late.
WrongCachePut(h, b) ==
  cache' = [cache EXCEPT ![h] = IF InMemory(h, b) THEN @
                                ELSE Append(IF Len(@) > MaxCached THEN Tail(@) ELSE @, b)]

\* cachePut: the oldest block makes room.
CachePut(h, b) ==
  cache' = [cache EXCEPT ![h] = IF InMemory(h, b) THEN @
                                ELSE Append(IF Len(@) >= MaxCached THEN Tail(@) ELSE @, b)]

\* The reader that looked into memory too early has missed what is put there now.
LetGo(x, r) ==
  LET err == rd[r].err IN
  CASE x = r /\ err = "none" -> Copied(x)
    [] x = r /\ err # "none" -> [rd[x] EXCEPT !.pc = "reply"]
    [] rd[x].pc = "wait" /\ err = "none" -> [rd[x] EXCEPT !.pc = "woken"]
    [] rd[x].pc = "wait" /\ err # "none" -> [rd[x] EXCEPT !.pc = "reply", !.err = err]
    [] rd[x].pc = "claim" /\ err = "none" -> [rd[x] EXCEPT !.missed = TRUE]
    [] OTHER -> rd[x]

\* A block that could not be fetched stays claimed.
WrongReleaseBlock(r) ==
  LET key == Key(r)  err == rd[r].err IN
  /\ rd[r].pc = "release"
  /\ IF err = "none" THEN CachePut(rd[r].h, Idx(r)) ELSE UNCHANGED cache
  /\ claims' = IF err = "none" THEN [k \in DOMAIN claims \ {key} |-> claims[k]] ELSE claims
  /\ rd' = [x \in Readers |-> IF Key(x) = key THEN LetGo(x, r) ELSE rd[x]]
  /\ UNCHANGED <<onDisk, handle, window, faults, reads, owed, races>>

\* The end of fetchAndCacheBlock, and releaseBlock: the block is in memory and free to claim
\* again, and the waiters get the winner's error.
ReleaseBlock(r) ==
  LET key == Key(r)  err == rd[r].err IN
  /\ rd[r].pc = "release"
  /\ IF err = "none" THEN CachePut(rd[r].h, Idx(r)) ELSE UNCHANGED cache
  /\ claims' = [k \in DOMAIN claims \ {key} |-> claims[k]]
  /\ rd' = [x \in Readers |-> IF Key(x) = key THEN LetGo(x, r) ELSE rd[x]]
  /\ races' = IF err = "own"
                 /\ \E x \in Readers \ {r} : rd[x].pc = "wait" /\ Key(x) = key /\ rd[x].ctx
              THEN races \cup {"borrowedError"} ELSE races
  /\ UNCHANGED <<onDisk, handle, window, faults, reads, owed>>

-----------------------------------------------------------------------------
(* fetchAndCacheBlock.                                                       *)

\* A handle that was closed tracks a transfer all the same.
WrongEnsureTransfer(h) == handle' = [handle EXCEPT ![h].shown = TRUE]

\* ensureTransfer: the first download of an open handle is shown as a transfer.
EnsureTransfer(h) == handle' = [handle EXCEPT ![h].shown = @ \/ ~handle[h].closed]

\* acquireDownload: a slot for one attempt.
Acquire(r) ==
  /\ rd[r].pc = "slot" /\ Used < Slots
  /\ rd' = [rd EXCEPT ![r].pc = "get", ![r].attempt = @ + 1]
  /\ EnsureTransfer(rd[r].h)
  /\ races' = IF rd[r].missed THEN races \cup {"refetched"} ELSE races
  /\ UNCHANGED <<claims, cache, onDisk, window, faults, reads, owed>>

\* Nothing was downloaded, so the handle does not count as failed.
NoSlot(r) ==
  /\ rd[r].pc = "slot" /\ ~rd[r].ctx
  /\ Fail(r, "release", "own")
  /\ UNCHANGED <<claims, cache, onDisk, handle, window, faults, reads, owed, races>>

\* The error of fetchAndCacheBlock, but for the lack of a slot.
Failed(r, err) ==
  /\ Fail(r, "release", err)
  /\ handle' = [handle EXCEPT ![rd[r].h].failed = TRUE]

NoteWindow(wait) ==
  /\ window' = wait /\ owed' = Max({owed, wait})
  /\ races' = IF wait < window THEN races \cup {"windowCut"} ELSE races

Answered(r) == rd[r].pc = "get"
Fault == faults < MaxFaults /\ faults' = faults + 1

\* The block comes, and is decrypted, counted and put on disk.
Downloaded(r) ==
  /\ Answered(r)
  /\ Go(r, "release")
  /\ EnsureTransfer(rd[r].h)
  /\ onDisk' = IF UseDisk(rd[r].h) THEN onDisk \cup {Key(r)} ELSE onDisk
  /\ UNCHANGED <<claims, cache, window, faults, reads, owed, races>>

\* An error that no retry helps: the answer, the decryption, or a request given up meanwhile.
DownloadFails(r) ==
  /\ Answered(r)
  /\ IF rd[r].ctx THEN Fault /\ Failed(r, "failed") ELSE Failed(r, "own") /\ UNCHANGED faults
  /\ UNCHANGED <<claims, cache, onDisk, window, reads, owed, races>>

\* The connection is cut off: the same attempt again after a while.
CutOff(r) ==
  /\ Answered(r) /\ rd[r].ctx /\ Fault
  /\ IF rd[r].attempt = Attempts THEN Failed(r, "failed")
     ELSE rd' = [rd EXCEPT ![r].pc = "pause", ![r].wait = 0] /\ UNCHANGED handle
  /\ UNCHANGED <<claims, cache, onDisk, window, reads, owed, races>>

\* 429 or 503: the last attempt opens the window.
Limited(r, wait) ==
  /\ Answered(r) /\ Fault
  /\ IF ~rd[r].ctx
     THEN Failed(r, "own") /\ races' = races \cup {"limitedAtEnd"} /\ UNCHANGED <<window, owed>>
     ELSE IF rd[r].attempt = Attempts
     THEN Failed(r, "limited") /\ NoteWindow(wait)
     ELSE /\ rd' = [rd EXCEPT ![r].pc = "pause", ![r].wait = wait]
          /\ UNCHANGED <<handle, window, owed, races>>
  /\ UNCHANGED <<claims, cache, onDisk, reads>>

\* A request given up while it waits keeps the server's answer to itself.
WrongPauseEnds(r) ==
  /\ rd[r].pc = "pause"
  /\ IF rd[r].ctx THEN Go(r, "slot") /\ UNCHANGED <<handle, window, owed, races>>
     ELSE Failed(r, "own") /\ owed' = Max({owed, rd[r].wait}) /\ UNCHANGED <<window, races>>
  /\ UNCHANGED <<claims, cache, onDisk, faults, reads>>

\* The wait passes, or the request is given up and what the server asked for still stands.
PauseEnds(r) ==
  /\ rd[r].pc = "pause"
  /\ IF rd[r].ctx THEN Go(r, "slot") /\ UNCHANGED <<handle, window, owed, races>>
     ELSE /\ Failed(r, "own")
          /\ IF rd[r].wait > 0 THEN NoteWindow(rd[r].wait) ELSE UNCHANGED <<window, owed, races>>
  /\ UNCHANGED <<claims, cache, onDisk, faults, reads>>

\* 401: getRawSlotted has the session renewed and tries once more; 403, 422, and a second 401
\* are for a fresh storage token.
SessionRejected(r) ==
  /\ Answered(r) /\ rd[r].ctx /\ ~rd[r].session /\ Fault
  /\ rd' = [rd EXCEPT ![r].pc = "slot", ![r].session = TRUE, ![r].attempt = 0]
  /\ UNCHANGED <<claims, cache, onDisk, handle, window, reads, owed, races>>

TokenRejected(r) ==
  /\ Answered(r) /\ rd[r].ctx /\ Fault
  /\ IF rd[r].token THEN Failed(r, "failed") ELSE Go(r, "refresh") /\ UNCHANGED handle
  /\ UNCHANGED <<claims, cache, onDisk, window, reads, owed, races>>

\* refreshBlock holds no slot; what it gets is tried as if for the first time.
RefreshBlock(r) ==
  /\ rd[r].pc = "refresh"
  /\ \/ /\ rd' = [rd EXCEPT ![r].pc = "slot", ![r].token = TRUE, ![r].session = FALSE,
                            ![r].attempt = 0]
        /\ UNCHANGED <<handle, faults>>
     \/ rd[r].ctx /\ Fault /\ Failed(r, "failed")
     \/ ~rd[r].ctx /\ Failed(r, "own") /\ UNCHANGED faults
  /\ UNCHANGED <<claims, cache, onDisk, window, reads, owed, races>>

-----------------------------------------------------------------------------
(* Handles, time, and the cache on disk.                                     *)

\* Close ends the transfer.  A fetch may still be running.
Close(h) ==
  /\ ~handle[h].closed
  /\ \A r \in Readers : rd[r].h = h /\ rd[r].kind = "download" => rd[r].pc = "idle"
  /\ handle' = [handle EXCEPT ![h].closed = TRUE, ![h].ending = handle[h].shown]
  /\ UNCHANGED <<rd, claims, cache, onDisk, window, faults, reads, owed, races>>

TransferEnds(h) ==
  /\ handle[h].ending
  /\ handle' = [handle EXCEPT ![h].ending = FALSE, ![h].shown = FALSE]
  /\ UNCHANGED <<rd, claims, cache, onDisk, window, faults, reads, owed, races>>

Tick ==
  /\ window > 0 \/ owed > 0
  /\ window' = Max({0, window - 1}) /\ owed' = Max({0, owed - 1})
  /\ UNCHANGED <<rd, claims, cache, onDisk, handle, faults, reads, races>>

\* The block cache makes room for another file's.
DiskEvicts(k) ==
  /\ k \in onDisk
  /\ onDisk' = onDisk \ {k}
  /\ UNCHANGED <<rd, claims, cache, handle, window, faults, reads, owed, races>>

-----------------------------------------------------------------------------
Init ==
  /\ rd = [r \in Readers |-> Idle] /\ claims = [k \in {} |-> {}]
  /\ cache = [h \in Handles |-> <<>>] /\ onDisk = {}
  /\ handle = [h \in Handles |-> [closed |-> FALSE, failed |-> FALSE, shown |-> FALSE,
                                  ending |-> FALSE]]
  /\ window = 0 /\ faults = 0 /\ reads = 0 /\ owed = 0 /\ races = {}

Reading(r) == \/ NextBlock(r) \/ Reply(r)
              \/ ClaimBlock(r) \/ GiveUp(r) \/ Woken(r) \/ ReleaseBlock(r)
              \/ Acquire(r) \/ NoSlot(r) \/ PauseEnds(r) \/ RefreshBlock(r)

Answering(r) == \/ Downloaded(r) \/ DownloadFails(r) \/ CutOff(r)
                \/ SessionRejected(r) \/ TokenRejected(r)
                \/ \E wait \in Waits : Limited(r, wait)

Asking(r) == \E h \in Handles :
  \/ \E span \in Spans : span[1] < Claimed[h] /\ Begin(r, h, "read", span[1], span[2])
  \/ Begin(r, h, "download", 0, Buffer)

Next ==
  \/ \E r \in Readers : Asking(r) \/ CtxEnds(r) \/ Reading(r) \/ Answering(r)
  \/ \E h \in Handles : Close(h) \/ TransferEnds(h)
  \/ \E k \in onDisk : DiskEvicts(k)
  \/ Tick

Spec == Init /\ [][Next]_readVars

-----------------------------------------------------------------------------
(* Properties.                                                               *)

Fetching == {"slot", "get", "pause", "refresh", "release"}
ReaderStates == {"idle", "read", "reply", "claim", "wait", "woken"} \cup Fetching

\* Every variable keeps its type, and a handle's memory holds no more blocks than it may, each
\* once.  About cachePut.
TypeOK ==
  /\ \A r \in Readers :
       /\ rd[r].pc \in ReaderStates /\ rd[r].h \in Handles /\ rd[r].ctx \in BOOLEAN
       /\ rd[r].off \in Nat /\ rd[r].n \in 0 .. rd[r].len /\ rd[r].attempt \in 0 .. Attempts
  /\ DOMAIN claims \subseteq Claims
  /\ \A h \in Handles : /\ Len(cache[h]) <= MaxCached
                        /\ \A i, j \in DOMAIN cache[h] : cache[h][i] = cache[h][j] => i = j
  /\ onDisk \subseteq Claims /\ window \in Nat /\ owed \in Nat /\ races \subseteq FetchRaces
  /\ handle \in [Handles -> [closed : BOOLEAN, failed : BOOLEAN, shown : BOOLEAN,
                             ending : BOOLEAN]]

\* A block is fetched by the one reader that claimed it, and whoever waits for a block waits
\* for a reader that will let it go.  About claimBlock and releaseBlock.
OneFetcher ==
  /\ \A r \in Readers : rd[r].pc \in Fetching <=> Key(r) \in DOMAIN claims /\ claims[Key(r)] = r
  /\ \A r \in Readers : rd[r].pc = "wait" => Key(r) \in DOMAIN claims

\* A download of a whole file that ends without an error has the whole file, although a read
\* that fails after its first bytes passes for the end of the file.  About ReadAt, and about
\* downloadInto, whose buffer never spans two blocks.
DownloadWhole == \A r \in Readers :
  rd[r].kind = "download" /\ rd[r].pc = "reply" /\ Returned(r) = "eof" => At(r) = Size[rd[r].h]

\* No transfer is shown for a handle that was closed, however late a fetch ends.  About
\* ensureTransfer and Close.
TransfersEnd == \A h \in Handles : handle[h].shown /\ handle[h].closed => handle[h].ending

\* What a server asked for when a download was given up is waited out by the others.  About
\* getRawRetrying and its shared window.
WindowHonoured == races \cap {"windowCut", "limitedAtEnd"} = {} => window >= owed
=============================================================================
