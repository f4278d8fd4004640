-------------------------- MODULE BlockFetchProofs --------------------------
(***************************************************************************)
(* Proofs about BlockFetch for any number of requests, files, block sizes, *)
(* slots, attempts and faults: a block has one fetcher, a file read whole  *)
(* is whole, no transfer outlives its handle, and a window is honoured.    *)
(***************************************************************************)
EXTENDS BlockFetch, TLAPS

(***************************************************************************)
(* Arithmetic.                                                             *)
(***************************************************************************)

LEMMA MaxOfTwo == \A a, b \in Int : Max({a, b}) = IF a >= b THEN a ELSE b
<1> SUFFICES ASSUME NEW a \in Int, NEW b \in Int
             PROVE  Max({a, b}) = IF a >= b THEN a ELSE b
  OBVIOUS
<1>1. \E m \in {a, b} : \A y \in {a, b} : m >= y
  OBVIOUS
<1>2. Max({a, b}) \in {a, b} /\ \A y \in {a, b} : Max({a, b}) >= y
  BY <1>1 DEF Max
<1> QED
  BY <1>2

LEMMA MinOfTwo == \A a, b \in Int : Min({a, b}) = IF a =< b THEN a ELSE b
<1> SUFFICES ASSUME NEW a \in Int, NEW b \in Int
             PROVE  Min({a, b}) = IF a =< b THEN a ELSE b
  OBVIOUS
<1>1. \E m \in {a, b} : \A y \in {a, b} : m =< y
  OBVIOUS
<1>2. Min({a, b}) \in {a, b} /\ \A y \in {a, b} : Min({a, b}) =< y
  BY <1>1 DEF Min
<1> QED
  BY <1>2

\* The block an offset is in.
LEMMA BlockOfOffset ==
  ASSUME NEW off \in Nat
  PROVE  LET b == BlockIndexForOffset(off) IN
         /\ b \in Nat /\ b >= 1 /\ b =< off + 1
         /\ BlockByteOffset(b) \in Nat
         /\ BlockByteOffset(b) =< off /\ off < BlockByteOffset(b) + BlockUnits
<1> DEFINE q == off \div BlockUnits
<1>1. BlockUnits \in Nat /\ BlockUnits > 0
  BY BlockFetchAssumption
<1>2. q \in Nat /\ q * BlockUnits =< off /\ off < q * BlockUnits + BlockUnits
  BY <1>1, SMT
<1>3. q =< q * BlockUnits
  <2> HIDE DEF q
  <2> QED BY <1>1, <1>2, SMT
<1>4. BlockIndexForOffset(off) = q + 1 /\ BlockByteOffset(q + 1) = q * BlockUnits
  BY <1>1, <1>2 DEF BlockIndexForOffset, BlockByteOffset
<1> HIDE DEF q
<1>5. q * BlockUnits \in Nat
  BY <1>1, <1>2
<1> QED
  BY <1>1, <1>2, <1>3, <1>4, <1>5

\* A buffer that divides a block reaches no further than the block.
LEMMA BufferInBlock ==
  ASSUME NEW a \in Nat, NEW off \in Nat, off = a * Chunk
  PROVE  off + Chunk =< BlockByteOffset(BlockIndexForOffset(off)) + BlockUnits
<1> DEFINE q == off \div BlockUnits
           m == BlockUnits \div Chunk
<1>1. /\ BlockUnits \in Nat /\ BlockUnits > 0 /\ Chunk \in Nat /\ Chunk > 0
      /\ BlockUnits % Chunk = 0
  BY BlockFetchAssumption
<1>2. q \in Nat /\ off < q * BlockUnits + BlockUnits
  BY <1>1, SMT
<1>3. m \in Nat /\ BlockUnits = m * Chunk
  BY <1>1, SMT
<1> HIDE DEF q, m
<1>4. q * BlockUnits + BlockUnits = ((q + 1) * m) * Chunk
  BY <1>1, <1>2, <1>3, SMT
<1> DEFINE k == (q + 1) * m
<1>5. k \in Nat /\ a * Chunk < k * Chunk
  BY <1>1, <1>2, <1>3, <1>4, SMT
<1> HIDE DEF k
<1>6. a + 1 =< k
  BY <1>1, <1>5, SMT
<1>7. (a + 1) * Chunk =< k * Chunk
  BY <1>1, <1>5, <1>6, SMT
<1>8. BlockByteOffset(BlockIndexForOffset(off)) = q * BlockUnits
  BY <1>1, <1>2 DEF BlockIndexForOffset, BlockByteOffset, q
<1> QED
  BY <1>1, <1>2, <1>4, <1>5, <1>7, <1>8, SMT DEF k

(***************************************************************************)
(* Types.  A request that has what it asked for is on its way out, and one  *)
(* that waits for a slot has an attempt left.                               *)
(***************************************************************************)

Errors   == {"none", "own", "failed", "limited", "missing", "evicted"}
Requests == [pc : ReaderStates, h : Handles, kind : {"read", "download"}, off : Nat, len : Nat,
             n : Nat, ctx : BOOLEAN, err : Errors, attempt : Nat, wait : Nat,
             session : BOOLEAN, token : BOOLEAN, missed : BOOLEAN]

Typed(x) ==
  /\ x \in Requests
  /\ x.n =< x.len /\ x.off + x.n =< Claimed[x.h]
  /\ x.pc \notin {"idle", "reply"} => x.n < x.len
  /\ x.pc = "reply" /\ x.n = x.len => x.attempt = 0
  /\ x.attempt =< Attempts
  /\ x.pc \in {"idle", "read", "claim", "wait", "woken"} => x.attempt = 0
  /\ x.pc \in {"slot", "pause"} => x.attempt < Attempts

HandleRecords == [closed : BOOLEAN, failed : BOOLEAN, shown : BOOLEAN, ending : BOOLEAN]

RequestTypes == DOMAIN rd = Readers /\ rd = [r \in Readers |-> rd[r]] /\ \A r \in Readers : Typed(rd[r])

\* Only the request of r changed, and to x.
Becomes(r, x) == rd' = [rd EXCEPT ![r] = x]

LEMMA BecomesTyped ==
  ASSUME RequestTypes, NEW r \in Readers, NEW x, Typed(x), Becomes(r, x)
  PROVE  RequestTypes' /\ rd'[r] = x /\ \A y \in Readers \ {r} : rd'[y] = rd[y]
BY DEF RequestTypes, Becomes, Typed

LEMMA GoTyped ==
  ASSUME RequestTypes, NEW r \in Readers, NEW pc \in ReaderStates, Go(r, pc)
  PROVE  /\ Becomes(r, [rd[r] EXCEPT !.pc = pc, !.wait = 0])
         /\ [rd[r] EXCEPT !.pc = pc, !.wait = 0] \in Requests
BY DEF RequestTypes, Becomes, Typed, Go, Requests

\* What there is of the block at hand from the request's offset on.
Have(r) == BlockByteOffset(Idx(r)) + BlockLen(rd[r].h, Idx(r)) - At(r)
More(r) == rd[r].n + (IF Have(r) =< 0 THEN 0
                      ELSE IF Have(r) =< rd[r].len - rd[r].n THEN Have(r) ELSE rd[r].len - rd[r].n)

LEMMA HaveIs ==
  ASSUME RequestTypes, NEW r \in Readers
  PROVE  /\ At(r) \in Nat /\ At(r) = rd[r].off + rd[r].n
         /\ Idx(r) \in 1 .. At(r) + 1
         /\ Have(r) \in Int
         /\ Size[rd[r].h] \in Nat /\ Claimed[rd[r].h] \in Nat /\ Size[rd[r].h] =< Claimed[rd[r].h]
         /\ LET end == BlockByteOffset(Idx(r)) + BlockUnits IN
            /\ end \in Nat /\ At(r) < end
            /\ Have(r) = (IF end =< Size[rd[r].h] THEN end ELSE Size[rd[r].h]) - At(r)
<1>1. At(r) \in Nat /\ At(r) = rd[r].off + rd[r].n /\ rd[r].h \in Handles
  BY DEF RequestTypes, Typed, Requests, At
<1>2. /\ Idx(r) \in Nat /\ Idx(r) >= 1 /\ Idx(r) =< At(r) + 1 /\ BlockByteOffset(Idx(r)) \in Nat
      /\ At(r) < BlockByteOffset(Idx(r)) + BlockUnits
  BY <1>1, BlockOfOffset DEF Idx
<1>3. /\ BlockUnits \in Nat /\ Size[rd[r].h] \in Nat /\ Claimed[rd[r].h] \in Nat
      /\ Size[rd[r].h] =< Claimed[rd[r].h]
  BY <1>1, BlockFetchAssumption
<1>4. BlockLen(rd[r].h, Idx(r)) =
        IF BlockUnits =< Size[rd[r].h] - BlockByteOffset(Idx(r)) THEN BlockUnits
        ELSE Size[rd[r].h] - BlockByteOffset(Idx(r))
  BY <1>2, <1>3, MinOfTwo DEF BlockLen
<1> QED
  BY <1>1, <1>2, <1>3, <1>4 DEF Have

LEMMA CopiedIs ==
  ASSUME RequestTypes, NEW r \in Readers
  PROVE  Copied(r) = [rd[r] EXCEPT
           !.pc = IF \/ Have(r) =< 0 \/ More(r) >= rd[r].len
                     \/ rd[r].off + More(r) >= Claimed[rd[r].h] THEN "reply" ELSE "read",
           !.n = More(r), !.attempt = 0, !.session = FALSE, !.token = FALSE, !.missed = FALSE]
<1>1. Have(r) \in Int /\ rd[r].len - rd[r].n \in Nat
  BY HaveIs DEF RequestTypes, Typed, Requests
<1> DEFINE d == rd[r].len - rd[r].n
           m == Min({Have(r), d})
<1>2. m = IF Have(r) =< d THEN Have(r) ELSE d
  BY <1>1, MinOfTwo
<1>3. m \in Int
  BY <1>1, <1>2
<1> HIDE DEF m
<1>4. Max({0, m}) = IF 0 >= m THEN 0 ELSE m
  BY <1>3, MaxOfTwo
<1>5. rd[r].n + Max({0, m}) = More(r)
  BY <1>1, <1>2, <1>3, <1>4 DEF More
<1> QED
  BY <1>5 DEF Copied, Have, m

LEMMA AnewTyped ==
  ASSUME NEW x \in Requests, NEW p \in ReaderStates, NEW m \in Nat,
         NEW b \in BOOLEAN, NEW c \in BOOLEAN, NEW d \in BOOLEAN
  PROVE  [x EXCEPT !.pc = p, !.n = m, !.attempt = 0, !.session = b, !.token = c, !.missed = d]
           \in Requests
BY DEF Requests

LEMMA CopiedTyped ==
  ASSUME RequestTypes, NEW r \in Readers, rd[r].pc \notin {"idle", "reply"}
  PROVE  /\ Typed(Copied(r)) /\ Copied(r).pc \in {"read", "reply"}
         /\ Copied(r).h = rd[r].h /\ Copied(r).kind = rd[r].kind /\ Copied(r).off = rd[r].off
         /\ Copied(r).len = rd[r].len /\ Copied(r).n = More(r) /\ Copied(r).err = rd[r].err
         /\ Copied(r).pc = "reply" => \/ Have(r) =< 0 \/ More(r) >= rd[r].len
                                      \/ rd[r].off + More(r) >= Claimed[rd[r].h]
<1>1. rd[r] \in Requests /\ rd[r].n < rd[r].len /\ rd[r].off + rd[r].n =< Claimed[rd[r].h]
  BY DEF RequestTypes, Typed
<1>2. /\ rd[r].n \in Nat /\ rd[r].len \in Nat /\ rd[r].off \in Nat /\ At(r) = rd[r].off + rd[r].n
      /\ Have(r) \in Int /\ Claimed[rd[r].h] \in Nat
      /\ At(r) + Have(r) =< Claimed[rd[r].h]
  BY <1>1, HaveIs DEF Requests
<1>3. More(r) \in Nat /\ More(r) =< rd[r].len /\ rd[r].off + More(r) =< Claimed[rd[r].h]
  BY <1>1, <1>2 DEF More
<1>4. Attempts \in Nat
  BY BlockFetchAssumption
<1> DEFINE ends == \/ Have(r) =< 0 \/ More(r) >= rd[r].len
                   \/ rd[r].off + More(r) >= Claimed[rd[r].h]
<1>6. Copied(r) = [rd[r] EXCEPT !.pc = IF ends THEN "reply" ELSE "read", !.n = More(r),
                                !.attempt = 0, !.session = FALSE, !.token = FALSE, !.missed = FALSE]
  BY CopiedIs
<1>7. ends \in BOOLEAN
  OBVIOUS
<1> HIDE DEF ends
<1>5. /\ Copied(r) \in Requests /\ Copied(r).pc \in {"read", "reply"} /\ Copied(r).attempt = 0
      /\ Copied(r).h = rd[r].h /\ Copied(r).kind = rd[r].kind /\ Copied(r).off = rd[r].off
      /\ Copied(r).len = rd[r].len /\ Copied(r).n = More(r) /\ Copied(r).err = rd[r].err
      /\ Copied(r).pc = "reply" <=> ends
  <2>1. Copied(r) \in Requests
    <3>1. PICK p \in {"reply", "read"} : p = IF ends THEN "reply" ELSE "read"
      BY <1>7
    <3>2. p \in ReaderStates
      BY DEF ReaderStates
    <3>3. PICK f \in BOOLEAN : f = FALSE
      OBVIOUS
    <3>4. [rd[r] EXCEPT !.pc = p, !.n = More(r), !.attempt = 0, !.session = f, !.token = f,
                        !.missed = f] \in Requests
      BY <1>1, <1>3, <3>2, AnewTyped
    <3> QED
      BY <1>6, <3>1, <3>3, <3>4
  <2> QED
    BY <1>1, <1>6, <1>7, <2>1 DEF Requests
<1> QED
  BY <1>1, <1>2, <1>3, <1>4, <1>5 DEF Typed, ends

(***************************************************************************)
(* What a step does to the requests, in the words of all the invariants.   *)
(***************************************************************************)

Alone(r) == RequestTypes' /\ \A y \in Readers \ {r} : rd'[y] = rd[y]

\* A request goes on with the same block.
Works(r) ==
  /\ claims' = claims /\ Alone(r)
  /\ rd'[r].h = rd[r].h /\ rd'[r].kind = rd[r].kind /\ rd'[r].off = rd[r].off
  /\ rd'[r].len = rd[r].len /\ rd'[r].n = rd[r].n
  /\ rd'[r].pc \in Fetching <=> rd[r].pc \in Fetching
  /\ rd'[r].pc = "wait" => rd[r].pc = "wait"
  /\ rd[r].pc # "idle" /\ rd'[r].pc # "idle"
  /\ rd'[r].pc = "reply" => rd'[r].err # "none"

LEMMA WorksIf ==
  ASSUME RequestTypes, NEW r \in Readers, NEW x \in Requests, Becomes(r, x), claims' = claims,
         x.h = rd[r].h, x.kind = rd[r].kind, x.off = rd[r].off, x.len = rd[r].len, x.n = rd[r].n,
         x.pc \in Fetching <=> rd[r].pc \in Fetching,
         x.pc = "wait" => rd[r].pc = "wait",
         rd[r].pc \notin {"idle", "reply"}, x.pc # "idle",
         x.pc = "reply" => x.err # "none",
         x.attempt =< Attempts, x.pc \in {"slot", "pause"} => x.attempt < Attempts,
         x.pc \in {"read", "claim", "wait", "woken"} => x.attempt = 0
  PROVE  Works(r)
<1>1. Typed(rd[r])
  BY DEF RequestTypes
<1>2. Typed(x)
  BY <1>1 DEF Typed, Requests
<1>3. rd'[r] = x /\ Alone(r)
  BY <1>2, BecomesTyped DEF Alone
<1> QED
  BY <1>3 DEF Works

\* The request's state and what is known of its attempts.
LEMMA AtTyped ==
  ASSUME RequestTypes, NEW r \in Readers
  PROVE  /\ rd[r] \in Requests /\ Typed(rd[r]) /\ Attempts \in Nat /\ Attempts > 0
         /\ rd[r].attempt \in Nat /\ rd[r].attempt =< Attempts
BY BlockFetchAssumption DEF RequestTypes, Typed, Requests

\* Go and Fail, from a place in getBlock or in fetchAndCacheBlock.
LEMMA GoWorks ==
  ASSUME RequestTypes, NEW r \in Readers, NEW pc \in ReaderStates, Go(r, pc), claims' = claims,
         \/ rd[r].pc \in Fetching /\ pc \in {"release", "refresh"}
         \/ rd[r].pc \in Fetching /\ pc = "slot" /\ rd[r].attempt < Attempts
         \/ rd[r].pc = "read" /\ pc = "claim"
  PROVE  Works(r)
<1> DEFINE x == [rd[r] EXCEPT !.pc = pc, !.wait = 0]
<1>1. Becomes(r, x) /\ x \in Requests
  BY GoTyped
<1>2. /\ x.pc = pc /\ x.h = rd[r].h /\ x.kind = rd[r].kind /\ x.off = rd[r].off
      /\ x.len = rd[r].len /\ x.n = rd[r].n /\ x.attempt = rd[r].attempt
  BY AtTyped DEF Requests
<1> HIDE DEF x
<1> QED
  BY <1>1, <1>2, AtTyped, WorksIf DEF Fetching, Typed

LEMMA FailWorks ==
  ASSUME RequestTypes, NEW r \in Readers, NEW pc \in {"release", "reply"}, NEW err \in Errors,
         Fail(r, pc, err), claims' = claims, err # "none",
         \/ rd[r].pc \in Fetching /\ pc = "release"
         \/ rd[r].pc \in {"wait", "woken"} /\ pc = "reply"
  PROVE  Works(r)
<1> DEFINE x == [rd[r] EXCEPT !.pc = pc, !.err = err, !.wait = 0]
<1>0. pc \in ReaderStates
  BY DEF ReaderStates, Fetching
<1>1. x \in Requests
  BY <1>0, AtTyped DEF Requests
<1>2. Becomes(r, x)
  BY AtTyped DEF Becomes, Fail, Requests, RequestTypes
<1>3. /\ x.pc = pc /\ x.h = rd[r].h /\ x.kind = rd[r].kind /\ x.off = rd[r].off
      /\ x.len = rd[r].len /\ x.n = rd[r].n /\ x.attempt = rd[r].attempt /\ x.err = err
  BY AtTyped DEF Requests
<1> HIDE DEF x
<1> QED
  BY <1>1, <1>2, <1>3, AtTyped, WorksIf DEF Fetching, Typed

LEMMA FailedWorks ==
  ASSUME RequestTypes, NEW r \in Readers, NEW err \in {"own", "failed", "limited"},
         Failed(r, err), claims' = claims, rd[r].pc \in Fetching
  PROVE  Works(r)
BY FailWorks DEF Failed, Errors

LEMMA CtxEndsWorks ==
  ASSUME RequestTypes, NEW r \in Readers, CtxEnds(r)
  PROVE  Works(r)
<1> PICK f \in BOOLEAN : f = FALSE
  OBVIOUS
<1> DEFINE x == [rd[r] EXCEPT !.ctx = f]
<1>1. x \in Requests
  BY AtTyped DEF Requests
<1>2. Becomes(r, x)
  BY DEF Becomes, CtxEnds
<1>3. /\ x.pc = rd[r].pc /\ x.h = rd[r].h /\ x.kind = rd[r].kind /\ x.off = rd[r].off
      /\ x.len = rd[r].len /\ x.n = rd[r].n /\ x.attempt = rd[r].attempt /\ x.err = rd[r].err
  BY AtTyped DEF Requests
<1>4. claims' = claims /\ rd[r].pc \in {"wait", "slot", "get", "pause", "refresh"}
  BY DEF CtxEnds
<1> HIDE DEF x
<1> QED
  BY <1>1, <1>2, <1>3, <1>4, AtTyped, WorksIf DEF Fetching, Typed

\* A fetch goes on to another attempt, or waits for one.
LEMMA RetriesWorks ==
  ASSUME RequestTypes, NEW r \in Readers, NEW x \in Requests, Becomes(r, x), claims' = claims,
         x.h = rd[r].h, x.kind = rd[r].kind, x.off = rd[r].off, x.len = rd[r].len, x.n = rd[r].n,
         rd[r].pc \in Fetching, x.pc \in {"slot", "pause", "get"},
         x.attempt =< Attempts, x.pc # "get" => x.attempt < Attempts
  PROVE  Works(r)
BY AtTyped, WorksIf DEF Fetching

LEMMA AttemptTyped ==
  ASSUME NEW x \in Requests, NEW pc \in ReaderStates, NEW m \in Nat
  PROVE  [x EXCEPT !.pc = pc, !.attempt = m] \in Requests
BY DEF Requests

LEMMA AcquireWorks ==
  ASSUME RequestTypes, NEW r \in Readers, Acquire(r)
  PROVE  Works(r)
<1> DEFINE x == [rd[r] EXCEPT !.pc = "get", !.attempt = @ + 1]
<1>1. rd[r].pc = "slot" /\ claims' = claims /\ rd[r].attempt < Attempts
  BY AtTyped DEF Acquire, Typed
<1>2. x \in Requests /\ Becomes(r, x)
  <2>1. x \in Requests
    <3>1. "get" \in ReaderStates /\ rd[r] \in Requests /\ rd[r].attempt + 1 \in Nat
      BY AtTyped DEF ReaderStates, Fetching
    <3> QED
      BY <3>1, AttemptTyped
  <2>2. rd' = [rd EXCEPT ![r].pc = "get", ![r].attempt = @ + 1]
    BY DEF Acquire
  <2>3. Becomes(r, x)
    BY <2>2 DEF Becomes
  <2> QED
    BY <2>1, <2>3
<1>3. /\ x.h = rd[r].h /\ x.kind = rd[r].kind /\ x.off = rd[r].off /\ x.len = rd[r].len
      /\ x.n = rd[r].n /\ x.pc = "get" /\ x.attempt = rd[r].attempt + 1
  BY AtTyped DEF Requests
<1> HIDE DEF x
<1> QED
  BY <1>1, <1>2, <1>3, AtTyped, RetriesWorks DEF Fetching

LEMMA AnswerWorks ==
  ASSUME RequestTypes, NEW r \in Readers,
         Downloaded(r) \/ DownloadFails(r) \/ NoSlot(r) \/ GiveUp(r)
  PROVE  Works(r)
<1>1. CASE Downloaded(r)
  BY <1>1, GoWorks DEF Downloaded, Answered, Fetching, ReaderStates
<1>2. CASE DownloadFails(r)
  BY <1>2, FailedWorks DEF DownloadFails, Answered, Fetching
<1>3. CASE NoSlot(r)
  BY <1>3, FailWorks DEF NoSlot, Errors, Fetching
<1>4. CASE GiveUp(r)
  BY <1>4, FailWorks DEF GiveUp, Errors
<1> QED
  BY <1>1, <1>2, <1>3, <1>4

LEMMA PausesWorks ==
  ASSUME RequestTypes, NEW r \in Readers, NEW wait \in Nat, claims' = claims,
         rd[r].pc = "get", rd[r].attempt # Attempts,
         rd' = [rd EXCEPT ![r].pc = "pause", ![r].wait = wait]
  PROVE  Works(r)
<1> DEFINE x == [rd[r] EXCEPT !.pc = "pause", !.wait = wait]
<1>1. rd[r].attempt < Attempts
  BY AtTyped
<1>2. x \in Requests /\ Becomes(r, x)
  BY AtTyped DEF Becomes, Requests, ReaderStates, Fetching
<1>3. /\ x.h = rd[r].h /\ x.kind = rd[r].kind /\ x.off = rd[r].off /\ x.len = rd[r].len
      /\ x.n = rd[r].n /\ x.pc = "pause" /\ x.attempt = rd[r].attempt
  BY AtTyped DEF Requests
<1> HIDE DEF x
<1> QED
  BY <1>1, <1>2, <1>3, AtTyped, RetriesWorks DEF Fetching

LEMMA CutOffWorks ==
  ASSUME RequestTypes, NEW r \in Readers, CutOff(r)
  PROVE  Works(r)
<1>0. claims' = claims /\ rd[r].pc = "get"
  BY DEF CutOff, Answered
<1>1. CASE rd[r].attempt = Attempts
  BY <1>0, <1>1, FailedWorks DEF CutOff, Fetching
<1>2. CASE rd[r].attempt # Attempts
  BY <1>0, <1>2, PausesWorks DEF CutOff
<1> QED
  BY <1>1, <1>2

LEMMA LimitedWorks ==
  ASSUME RequestTypes, NEW r \in Readers, NEW wait \in Waits, Limited(r, wait)
  PROVE  Works(r)
<1>0. claims' = claims /\ rd[r].pc = "get" /\ wait \in Nat
  BY BlockFetchAssumption DEF Limited, Answered
<1>1. CASE ~rd[r].ctx
  BY <1>0, <1>1, FailedWorks DEF Limited, Fetching
<1>2. CASE rd[r].ctx /\ rd[r].attempt = Attempts
  BY <1>0, <1>2, FailedWorks DEF Limited, Fetching
<1>3. CASE rd[r].ctx /\ rd[r].attempt # Attempts
  BY <1>0, <1>3, PausesWorks DEF Limited
<1> QED
  BY <1>1, <1>2, <1>3

LEMMA PauseEndsWorks ==
  ASSUME RequestTypes, NEW r \in Readers, PauseEnds(r)
  PROVE  Works(r)
<1>0. claims' = claims /\ rd[r].pc = "pause" /\ rd[r].attempt < Attempts
  BY AtTyped DEF PauseEnds, Typed
<1>1. CASE rd[r].ctx
  BY <1>0, <1>1, GoWorks DEF PauseEnds, Fetching, ReaderStates
<1>2. CASE ~rd[r].ctx
  BY <1>0, <1>2, FailedWorks DEF PauseEnds, Fetching
<1> QED
  BY <1>1, <1>2

\* A session or a storage token was renewed, and the block is asked for anew.
LEMMA RenewedWorks ==
  ASSUME RequestTypes, NEW r \in Readers, NEW s \in BOOLEAN, NEW t \in BOOLEAN, claims' = claims,
         rd[r].pc \in Fetching,
         \/ rd' = [rd EXCEPT ![r].pc = "slot", ![r].session = s, ![r].attempt = 0]
         \/ rd' = [rd EXCEPT ![r].pc = "slot", ![r].token = t, ![r].session = s, ![r].attempt = 0]
  PROVE  Works(r)
<1> DEFINE x == [rd[r] EXCEPT !.pc = "slot", !.session = s, !.attempt = 0]
           y == [rd[r] EXCEPT !.pc = "slot", !.token = t, !.session = s, !.attempt = 0]
<1>0. rd[r] \in Requests /\ "slot" \in ReaderStates
  BY AtTyped DEF ReaderStates, Fetching
<1>1. x \in Requests /\ y \in Requests
  <2>1. x \in Requests
    BY <1>0 DEF Requests
  <2>2. y \in Requests
    BY <1>0 DEF Requests
  <2> QED
    BY <2>1, <2>2
<1>2. Becomes(r, x) \/ Becomes(r, y)
  BY AtTyped DEF Becomes
<1>3. \A z \in {x, y} :
        /\ z.h = rd[r].h /\ z.kind = rd[r].kind /\ z.off = rd[r].off /\ z.len = rd[r].len
        /\ z.n = rd[r].n /\ z.pc = "slot" /\ z.attempt = 0
  BY AtTyped DEF Requests
<1> HIDE DEF x, y
<1> QED
  BY <1>1, <1>2, <1>3, AtTyped, RetriesWorks

LEMMA RejectedWorks ==
  ASSUME RequestTypes, NEW r \in Readers,
         SessionRejected(r) \/ TokenRejected(r) \/ RefreshBlock(r)
  PROVE  Works(r)
<1> PICK t \in BOOLEAN, f \in BOOLEAN : t = TRUE /\ f = FALSE
  OBVIOUS
<1>1. CASE SessionRejected(r)
  BY <1>1, RenewedWorks DEF SessionRejected, Answered, Fetching
<1>2. CASE TokenRejected(r)
  <2>1. claims' = claims /\ rd[r].pc = "get"
    BY <1>2 DEF TokenRejected, Answered
  <2>2. CASE rd[r].token
    BY <1>2, <2>1, <2>2, FailedWorks DEF TokenRejected, Fetching
  <2>3. CASE ~rd[r].token
    BY <1>2, <2>1, <2>3, GoWorks DEF TokenRejected, Fetching, ReaderStates
  <2> QED
    BY <2>2, <2>3
<1>3. CASE RefreshBlock(r)
  <2>1. claims' = claims /\ rd[r].pc \in Fetching
    BY <1>3 DEF RefreshBlock, Fetching
  <2>2. CASE rd' = [rd EXCEPT ![r].pc = "slot", ![r].token = t, ![r].session = f, ![r].attempt = 0]
    BY <2>1, <2>2, RenewedWorks
  <2> QED
    BY <1>3, <2>1, <2>2, FailedWorks DEF RefreshBlock
<1> QED
  BY <1>1, <1>2, <1>3

(***************************************************************************)
(* The invariant.  A claim is held by the reader that fetches its block,    *)
(* which no other reader does.  A download is at the start of a buffer, at  *)
(* its end, or at the end of the file.                                      *)
(***************************************************************************)

ClaimsHeld    == \A k \in DOMAIN claims : /\ claims[k] \in Readers
                                          /\ rd[claims[k]].pc \in Fetching /\ Key(claims[k]) = k
FetchersClaim == \A r \in Readers :
  rd[r].pc \in Fetching => Key(r) \in DOMAIN claims /\ claims[Key(r)] = r
WaitersWait   == \A r \in Readers : rd[r].pc = "wait" => Key(r) \in DOMAIN claims

Whole(x) == x.kind = "download" =>
  /\ x.len = Chunk /\ \E a \in Nat : x.off = a * Chunk
  /\ x.off + x.n =< Size[x.h]
  /\ x.n = 0 \/ x.n = x.len \/ x.off + x.n = Size[x.h]
  /\ x.pc = "reply" /\ x.err = "none" /\ x.n < x.len => x.off + x.n = Size[x.h]

FetchInv == /\ RequestTypes /\ ClaimsHeld /\ FetchersClaim /\ WaitersWait
            /\ \A r \in Readers : Whole(rd[r])

LEMMA KeyKept ==
  ASSUME NEW r \in Readers, rd'[r].h = rd[r].h, rd'[r].off = rd[r].off, rd'[r].n = rd[r].n
  PROVE  Key(r)' = Key(r)
BY DEF Key, Idx, At

LEMMA WorksKeeps ==
  ASSUME FetchInv, NEW r \in Readers, Works(r)
  PROVE  FetchInv'
<1>1. \A y \in Readers : Key(y)' = Key(y)
  BY KeyKept DEF Works, Alone
<1>2. \A y \in Readers : /\ rd'[y].pc \in Fetching <=> rd[y].pc \in Fetching
                         /\ rd'[y].pc = "wait" => rd[y].pc = "wait"
  BY DEF Works, Alone
<1>3. ClaimsHeld'
  BY <1>1, <1>2 DEF FetchInv, ClaimsHeld, Works
<1>4. FetchersClaim' /\ WaitersWait'
  BY <1>1, <1>2 DEF FetchInv, FetchersClaim, WaitersWait, Works
<1>5. Whole(rd[r])
  BY DEF FetchInv
<1>6. Whole(rd'[r])
  BY <1>5 DEF Whole, Works
<1>7. \A y \in Readers : Whole(rd'[y])
  BY <1>6 DEF FetchInv, Works, Alone
<1> QED
  BY <1>3, <1>4, <1>7 DEF FetchInv, Works, Alone

\* A request moves on outside of a fetch.
LEMMA FreeKeeps ==
  ASSUME FetchInv, NEW r \in Readers, claims' = claims, Alone(r), Whole(rd'[r]),
         rd[r].pc \notin Fetching, rd'[r].pc \notin Fetching \cup {"wait"}
  PROVE  FetchInv'
<1>1. \A y \in Readers \ {r} : Key(y)' = Key(y) /\ rd'[y] = rd[y]
  BY KeyKept DEF Alone
<1>2. \A k \in DOMAIN claims : claims[k] # r
  BY DEF FetchInv, ClaimsHeld
<1>3. ClaimsHeld'
  BY <1>1, <1>2 DEF FetchInv, ClaimsHeld
<1>4. FetchersClaim' /\ WaitersWait'
  BY <1>1 DEF FetchInv, FetchersClaim, WaitersWait
<1>5. \A y \in Readers : Whole(rd'[y])
  BY <1>1 DEF FetchInv
<1> QED
  BY <1>3, <1>4, <1>5 DEF FetchInv, Alone

\* What a block adds to a download is the whole buffer, or ends with the file.
LEMMA CopiedWhole ==
  ASSUME FetchInv, NEW r \in Readers, rd[r].pc \notin {"idle", "reply"}
  PROVE  Whole(Copied(r))
<1> SUFFICES ASSUME rd[r].kind = "download"
             PROVE  Whole(Copied(r))
  BY CopiedTyped DEF FetchInv, Whole
<1>1. RequestTypes /\ Whole(rd[r]) /\ Typed(rd[r])
  BY DEF FetchInv, RequestTypes
<1>2. /\ Copied(r).kind = "download" /\ Copied(r).h = rd[r].h /\ Copied(r).off = rd[r].off
      /\ Copied(r).len = rd[r].len /\ Copied(r).n = More(r)
  BY <1>1, CopiedTyped
<1>3. /\ rd[r].off \in Nat /\ rd[r].n \in Nat /\ rd[r].len = Chunk /\ Chunk \in Nat /\ Chunk > 0
      /\ rd[r].n < Chunk /\ rd[r].h \in Handles
  BY <1>1, BlockFetchAssumption DEF Typed, Requests, Whole
<1> DEFINE off == rd[r].off
           n == rd[r].n
           size == Size[rd[r].h]
           end == BlockByteOffset(Idx(r)) + BlockUnits
<1>4. /\ At(r) = off + n /\ size \in Nat /\ end \in Nat /\ At(r) < end
      /\ Have(r) = (IF end =< size THEN end ELSE size) - At(r)
  BY <1>1, HaveIs
<1>5. off + n =< size /\ (n = 0 \/ off + n = size)
  BY <1>1, <1>3 DEF Whole
<1>6. n = 0 => off + Chunk =< end
  BY <1>1, <1>3, <1>4, BufferInBlock DEF Whole, Idx
<1>7. /\ off + More(r) =< size
      /\ More(r) = Chunk \/ off + More(r) = size
  <2> HIDE DEF end, size
  <2>1. CASE n = 0
    BY <1>3, <1>4, <1>5, <1>6, <2>1 DEF More
  <2>2. CASE n # 0
    BY <1>3, <1>4, <1>5, <2>2 DEF More
  <2> QED
    BY <2>1, <2>2
<1> QED
  BY <1>1, <1>2, <1>3, <1>7 DEF Whole

LEMMA CopiesKeeps ==
  ASSUME FetchInv, NEW r \in Readers, claims' = claims, Becomes(r, Copied(r)),
         rd[r].pc \notin {"idle", "reply"} \cup Fetching
  PROVE  FetchInv'
<1>1. Typed(Copied(r)) /\ Copied(r).pc \in {"read", "reply"} /\ Whole(Copied(r))
  BY CopiedTyped, CopiedWhole DEF FetchInv
<1>2. Alone(r) /\ rd'[r] = Copied(r)
  BY <1>1, BecomesTyped DEF FetchInv, Alone
<1> QED
  BY <1>1, <1>2, FreeKeeps DEF Fetching

LEMMA NextBlockKeeps ==
  ASSUME FetchInv, NEW r \in Readers, NextBlock(r)
  PROVE  FetchInv'
<1>0. rd[r].pc = "read" /\ claims' = claims /\ RequestTypes /\ Typed(rd[r])
  BY DEF NextBlock, FetchInv, RequestTypes
<1>1. CASE InMemory(rd[r].h, Idx(r))
  BY <1>0, <1>1, CopiesKeeps DEF NextBlock, Becomes, Fetching
<1>2. CASE ~InMemory(rd[r].h, Idx(r))
  <2> DEFINE x == [rd[r] EXCEPT !.pc = "claim"]
  <2>1. x \in Requests /\ Becomes(r, x)
    BY <1>0, <1>2, AtTyped DEF NextBlock, Becomes, Requests, ReaderStates
  <2>2. /\ x.pc = "claim" /\ x.h = rd[r].h /\ x.kind = rd[r].kind /\ x.off = rd[r].off
        /\ x.len = rd[r].len /\ x.n = rd[r].n /\ x.attempt = rd[r].attempt
    BY <1>0, AtTyped DEF Requests
  <2> HIDE DEF x
  <2>3. Works(r)
    BY <1>0, <2>1, <2>2, AtTyped, WorksIf DEF Fetching, Typed
  <2> QED
    BY <2>3, WorksKeeps
<1> QED
  BY <1>1, <1>2

LEMMA WokenKeeps ==
  ASSUME FetchInv, NEW r \in Readers, Woken(r)
  PROVE  FetchInv'
<1>0. rd[r].pc = "woken" /\ claims' = claims
  BY DEF Woken
<1>1. CASE InMemory(rd[r].h, Idx(r))
  BY <1>0, <1>1, CopiesKeeps DEF Woken, Becomes, Fetching
<1>2. CASE ~InMemory(rd[r].h, Idx(r))
  <2>1. Works(r)
    BY <1>0, <1>2, FailWorks DEF Woken, Errors, FetchInv
  <2> QED
    BY <2>1, WorksKeeps
<1> QED
  BY <1>1, <1>2

LEMMA IdleTyped == Typed(Idle) /\ Idle.kind = "read" /\ Idle.pc = "idle"
<1>1. (CHOOSE h \in Handles : TRUE) \in Handles
  BY BlockFetchAssumption
<1>2. PICK f \in BOOLEAN, t \in BOOLEAN : f = FALSE /\ t = TRUE
  OBVIOUS
<1>3. Idle = [pc |-> "idle", h |-> CHOOSE h \in Handles : TRUE, kind |-> "read", off |-> 0, len |-> 0,
              n |-> 0, ctx |-> t, err |-> "none", attempt |-> 0, wait |-> 0, session |-> f,
              token |-> f, missed |-> f]
  BY <1>2 DEF Idle
<1>4. Idle \in Requests
  BY <1>1, <1>3 DEF Requests, ReaderStates, Errors
<1>5. /\ Idle.pc = "idle" /\ Idle.n = 0 /\ Idle.len = 0 /\ Idle.off = 0 /\ Idle.attempt = 0
      /\ Idle.h \in Handles /\ Idle.kind = "read"
  BY <1>1 DEF Idle
<1> QED
  BY <1>4, <1>5, BlockFetchAssumption DEF Typed

LEMMA BeginKeeps ==
  ASSUME FetchInv, NEW r \in Readers, NEW h \in Handles, NEW kind \in {"read", "download"},
         NEW off \in Nat, NEW len \in Nat \ {0}, Begin(r, h, kind, off, len), off =< Claimed[h],
         kind = "download" => off = 0 /\ len = Chunk
  PROVE  FetchInv'
<1> DEFINE x == [Idle EXCEPT !.pc = "read", !.h = h, !.kind = kind, !.off = off, !.len = len]
<1>1. x \in Requests
  BY IdleTyped DEF Typed, Requests, ReaderStates
<1>2. /\ x.pc = "read" /\ x.h = h /\ x.kind = kind /\ x.off = off /\ x.len = len
      /\ x.n = 0 /\ x.attempt = 0
  BY DEF Idle
<1>3. Becomes(r, x) /\ claims' = claims /\ rd[r].pc = "idle"
  BY DEF Begin, Becomes
<1> HIDE DEF x
<1>4. Typed(x)
  BY <1>1, <1>2, BlockFetchAssumption DEF Typed
<1>5. kind = "download" => off = 0 * Chunk
  BY BlockFetchAssumption
<1>6. Whole(x)
  BY <1>2, <1>5, BlockFetchAssumption DEF Whole
<1>7. Alone(r) /\ rd'[r] = x
  BY <1>3, <1>4, BecomesTyped DEF FetchInv, Alone
<1> QED
  BY <1>2, <1>3, <1>6, <1>7, FreeKeeps DEF Fetching

LEMMA ReplyKeeps ==
  ASSUME FetchInv, NEW r \in Readers, Reply(r)
  PROVE  FetchInv'
<1>0. /\ rd[r].pc = "reply" /\ claims' = claims /\ RequestTypes /\ Typed(rd[r]) /\ Whole(rd[r])
      /\ rd[r] \in Requests
  BY DEF Reply, FetchInv, RequestTypes, Typed
<1>1. CASE rd[r].kind = "download" /\ Returned(r) = "ok"
  <2> DEFINE pc == IF At(r) >= Claimed[rd[r].h] THEN "reply" ELSE "read"
             x == [rd[r] EXCEPT !.off = At(r), !.n = 0, !.pc = pc]
  <2>1. /\ At(r) = rd[r].off + rd[r].n /\ At(r) \in Nat /\ rd[r].n = rd[r].len /\ rd[r].len = Chunk
        /\ Size[rd[r].h] \in Nat /\ Claimed[rd[r].h] \in Nat /\ Size[rd[r].h] =< Claimed[rd[r].h]
    BY <1>0, <1>1, HaveIs DEF Returned, Typed, Requests, Whole
  <2>2. pc \in ReaderStates /\ pc \in {"reply", "read"}
    BY DEF ReaderStates
  <2>3. Becomes(r, x)
    BY <1>0, <1>1 DEF Reply, Becomes
  <2>7. pc = "reply" => At(r) >= Claimed[rd[r].h]
    OBVIOUS
  <2> HIDE DEF pc
  <2>4. x \in Requests
    BY <1>0, <2>1, <2>2 DEF Requests
  <2>5. /\ x.pc = pc /\ x.h = rd[r].h /\ x.kind = rd[r].kind /\ x.off = At(r)
        /\ x.len = rd[r].len /\ x.n = 0 /\ x.attempt = rd[r].attempt
    BY <1>0 DEF Requests
  <2> HIDE DEF x
  <2>6. Typed(x)
    BY <1>0, <2>1, <2>2, <2>4, <2>5, BlockFetchAssumption DEF Typed
  <2>8. PICK a \in Nat : rd[r].off = a * Chunk
    BY <1>0, <1>1 DEF Whole
  <2>9. At(r) = (a + 1) * Chunk /\ a + 1 \in Nat
    BY <2>1, <2>8, BlockFetchAssumption, SMT
  <2>10. At(r) =< Size[rd[r].h]
    BY <1>0, <1>1, <2>1 DEF Whole
  <2>11. Whole(x)
    <3>1. \E b \in Nat : x.off = b * Chunk
      BY <2>5, <2>9
    <3> QED
      BY <2>1, <2>5, <2>7, <2>10, <3>1 DEF Whole
  <2>12. Alone(r) /\ rd'[r] = x
    BY <1>0, <2>3, <2>6, BecomesTyped DEF Alone
  <2> QED
    BY <1>0, <2>2, <2>5, <2>11, <2>12, FreeKeeps DEF Fetching
<1>2. CASE ~(rd[r].kind = "download" /\ Returned(r) = "ok")
  <2>1. Becomes(r, Idle)
    BY <1>2 DEF Reply, Becomes
  <2>2. Alone(r) /\ rd'[r] = Idle
    BY <1>0, <2>1, IdleTyped, BecomesTyped DEF Alone
  <2>3. Whole(Idle)
    BY IdleTyped DEF Whole
  <2> QED
    BY <1>0, <2>2, <2>3, IdleTyped, FreeKeeps DEF Fetching
<1> QED
  BY <1>1, <1>2

LEMMA ClaimBlockKeeps ==
  ASSUME FetchInv, NEW r \in Readers, ClaimBlock(r)
  PROVE  FetchInv'
<1>0. /\ rd[r].pc = "claim" /\ RequestTypes /\ Typed(rd[r]) /\ Whole(rd[r]) /\ rd[r] \in Requests
      /\ rd[r].attempt = 0 /\ Attempts > 0 /\ Attempts \in Nat
  BY AtTyped DEF ClaimBlock, FetchInv, Typed
<1> DEFINE Kept(x, pc) ==
      /\ x \in Requests /\ Becomes(r, x) /\ x.pc = pc /\ x.h = rd[r].h /\ x.kind = rd[r].kind
      /\ x.off = rd[r].off /\ x.len = rd[r].len /\ x.n = rd[r].n /\ x.attempt = 0
<1>1. ASSUME NEW x, NEW pc \in {"wait", "slot", "release"}, Kept(x, pc)
      PROVE  Alone(r) /\ rd'[r] = x /\ rd'[r].pc = pc /\ Whole(rd'[r]) /\ Key(r)' = Key(r)
  <2>1. Typed(x)
    BY <1>0, <1>1 DEF Typed
  <2>2. Alone(r) /\ rd'[r] = x
    BY <1>0, <1>1, <2>1, BecomesTyped DEF Alone
  <2>3. Whole(x)
    BY <1>0, <1>1 DEF Whole
  <2> QED
    BY <1>1, <2>2, <2>3, KeyKept
<1>2. ASSUME NEW pc \in {"wait", "slot", "release"}, Go(r, pc)
      PROVE  Alone(r) /\ rd'[r].pc = pc /\ Whole(rd'[r]) /\ Key(r)' = Key(r)
  <2> DEFINE x == [rd[r] EXCEPT !.pc = pc, !.wait = 0]
  <2>1. pc \in ReaderStates
    BY DEF ReaderStates, Fetching
  <2>2. Becomes(r, x) /\ x \in Requests
    BY <1>0, <1>2, <2>1, GoTyped
  <2>3. Kept(x, pc)
    BY <1>0, <2>2 DEF Requests
  <2> HIDE DEF x
  <2> QED
    BY <1>1, <2>3
<1>3. ASSUME Fail(r, "release", "missing")
      PROVE  Alone(r) /\ rd'[r].pc = "release" /\ Whole(rd'[r]) /\ Key(r)' = Key(r)
  <2> DEFINE x == [rd[r] EXCEPT !.pc = "release", !.err = "missing", !.wait = 0]
  <2>1. "release" \in ReaderStates /\ "missing" \in Errors
    BY DEF ReaderStates, Fetching, Errors
  <2>2. x \in Requests
    BY <1>0, <2>1 DEF Requests
  <2>3. Becomes(r, x)
    BY <1>0, <1>3 DEF Becomes, Fail, Requests, RequestTypes
  <2>4. Kept(x, "release")
    BY <1>0, <2>2, <2>3 DEF Requests
  <2> HIDE DEF x
  <2> QED
    BY <1>1, <2>4
<1> HIDE DEF Kept
<1>4. \A k \in DOMAIN claims : claims[k] # r
  BY <1>0 DEF FetchInv, ClaimsHeld, Fetching
<1>5. CASE Key(r) \in DOMAIN claims
  <2>1. Alone(r) /\ rd'[r].pc = "wait" /\ Whole(rd'[r]) /\ Key(r)' = Key(r) /\ claims' = claims
    BY <1>2, <1>5 DEF ClaimBlock
  <2>2. \A y \in Readers : Key(y)' = Key(y) /\ (y # r => rd'[y] = rd[y])
    BY <2>1, KeyKept DEF Alone
  <2>3. ClaimsHeld'
    BY <1>4, <2>1, <2>2 DEF FetchInv, ClaimsHeld
  <2>4. FetchersClaim' /\ WaitersWait'
    BY <1>5, <2>1, <2>2 DEF FetchInv, FetchersClaim, WaitersWait, Fetching
  <2>5. \A y \in Readers : Whole(rd'[y])
    BY <2>1, <2>2 DEF FetchInv
  <2> QED
    BY <2>1, <2>3, <2>4, <2>5 DEF FetchInv, Alone
<1>6. CASE Key(r) \notin DOMAIN claims
  <2>1. /\ Alone(r) /\ rd'[r].pc \in {"slot", "release"} /\ Whole(rd'[r]) /\ Key(r)' = Key(r)
        /\ claims' = [k \in DOMAIN claims \cup {Key(r)} |-> IF k = Key(r) THEN r ELSE claims[k]]
    BY <1>2, <1>3, <1>6 DEF ClaimBlock
  <2>2. \A y \in Readers : Key(y)' = Key(y) /\ (y # r => rd'[y] = rd[y])
    BY <2>1, KeyKept DEF Alone
  <2>3. /\ DOMAIN claims' = DOMAIN claims \cup {Key(r)} /\ claims'[Key(r)] = r
        /\ \A k \in DOMAIN claims : claims'[k] = claims[k]
    BY <1>6, <2>1
  <2>4. ClaimsHeld'
    BY <1>4, <2>1, <2>2, <2>3 DEF FetchInv, ClaimsHeld, Fetching
  <2>5. FetchersClaim' /\ WaitersWait'
    BY <2>1, <2>2, <2>3 DEF FetchInv, FetchersClaim, WaitersWait
  <2>6. \A y \in Readers : Whole(rd'[y])
    BY <2>1, <2>2 DEF FetchInv
  <2> QED
    BY <2>1, <2>4, <2>5, <2>6 DEF FetchInv, Alone
<1> QED
  BY <1>5, <1>6

\* What becomes of a request when the fetch of its block ends.
LEMMA LetGoIs ==
  ASSUME FetchInv, NEW r \in Readers, rd[r].pc = "release", NEW y \in Readers, Key(y) = Key(r)
  PROVE  /\ Typed(LetGo(y, r)) /\ Whole(LetGo(y, r))
         /\ LetGo(y, r).pc \notin Fetching \cup {"wait"}
         /\ y # r => LetGo(y, r).h = rd[y].h /\ LetGo(y, r).off = rd[y].off /\ LetGo(y, r).n = rd[y].n
<1>0. /\ RequestTypes /\ rd[r] \in Requests /\ rd[y] \in Requests /\ Typed(rd[y]) /\ Whole(rd[y])
      /\ rd[r].err \in Errors
  BY AtTyped DEF FetchInv, Requests
<1> DEFINE Kept(x) ==
      /\ x \in Requests /\ x.h = rd[y].h /\ x.kind = rd[y].kind
      /\ x.off = rd[y].off /\ x.len = rd[y].len /\ x.n = rd[y].n /\ x.attempt = rd[y].attempt
<1>1. ASSUME NEW x, Kept(x), x.pc \in {"reply", "woken", "claim"},
             rd[y].pc \notin {"idle", "reply"}, x.pc # "reply" => rd[y].pc \in {"wait", "claim"},
             x.pc = "reply" => x.err # "none"
      PROVE  Typed(x) /\ Whole(x)
  <2>1. x.n < x.len /\ x.attempt =< Attempts
    BY <1>0, <1>1 DEF Typed
  <2>2. Typed(x)
    BY <1>0, <1>1, <2>1 DEF Typed, Requests
  <2>3. Whole(x)
    BY <1>0, <1>1 DEF Whole
  <2> QED
    BY <2>2, <2>3
<1>2. CASE y = r /\ rd[r].err = "none"
  <2>1. LetGo(y, r) = Copied(y)
    BY <1>2 DEF LetGo
  <2>2. Typed(Copied(y)) /\ Copied(y).pc \in {"read", "reply"} /\ Whole(Copied(y))
    BY <1>0, <1>2, CopiedTyped, CopiedWhole
  <2> QED
    BY <1>2, <2>1, <2>2 DEF Fetching
<1>3. CASE y = r /\ rd[r].err # "none"
  <2> DEFINE x == [rd[y] EXCEPT !.pc = "reply"]
  <2>1. LetGo(y, r) = x
    BY <1>3 DEF LetGo
  <2>2. Kept(x) /\ x.pc = "reply" /\ x.err = rd[y].err
    BY <1>0 DEF Requests, ReaderStates
  <2> HIDE DEF x, Kept
  <2> QED
    BY <1>1, <1>3, <2>1, <2>2 DEF Fetching
<1>4. CASE y # r /\ rd[y].pc = "wait" /\ rd[r].err = "none"
  <2> DEFINE x == [rd[y] EXCEPT !.pc = "woken"]
  <2>1. LetGo(y, r) = x
    BY <1>4 DEF LetGo
  <2>2. Kept(x) /\ x.pc = "woken"
    BY <1>0 DEF Requests, ReaderStates
  <2> HIDE DEF x
  <2>3. Typed(x) /\ Whole(x)
    BY <1>1, <1>4, <2>2
  <2> QED
    BY <2>1, <2>2, <2>3 DEF Fetching
<1>5. CASE y # r /\ rd[y].pc = "wait" /\ rd[r].err # "none"
  <2> DEFINE x == [rd[y] EXCEPT !.pc = "reply", !.err = rd[r].err]
  <2>1. LetGo(y, r) = x
    BY <1>5 DEF LetGo
  <2>2. Kept(x) /\ x.pc = "reply" /\ x.err = rd[r].err
    BY <1>0 DEF Requests, ReaderStates
  <2> HIDE DEF x
  <2>3. Typed(x) /\ Whole(x)
    BY <1>1, <1>5, <2>2
  <2> QED
    BY <2>1, <2>2, <2>3 DEF Fetching
<1>6. CASE y # r /\ rd[y].pc = "claim" /\ rd[r].err = "none"
  <2> PICK t \in BOOLEAN : t = TRUE
    OBVIOUS
  <2> DEFINE x == [rd[y] EXCEPT !.missed = t]
  <2>1. LetGo(y, r) = x
    BY <1>6 DEF LetGo
  <2>2. Kept(x) /\ x.pc = "claim"
    BY <1>0, <1>6 DEF Requests
  <2> HIDE DEF x
  <2>3. Typed(x) /\ Whole(x)
    BY <1>1, <1>6, <2>2
  <2> QED
    BY <2>1, <2>2, <2>3 DEF Fetching
<1>7. CASE y # r /\ ~(rd[y].pc = "wait" \/ (rd[y].pc = "claim" /\ rd[r].err = "none"))
  <2>1. LetGo(y, r) = rd[y]
    BY <1>7 DEF LetGo
  <2>2. rd[y].pc \notin Fetching
    BY <1>7 DEF FetchInv, FetchersClaim, Fetching
  <2> QED
    BY <1>0, <1>7, <2>1, <2>2
<1> QED
  BY <1>2, <1>3, <1>4, <1>5, <1>6, <1>7

LEMMA ReleaseBlockKeeps ==
  ASSUME FetchInv, NEW r \in Readers, ReleaseBlock(r)
  PROVE  FetchInv'
<1> DEFINE key == Key(r)
<1>1. /\ rd[r].pc = "release" /\ claims' = [k \in DOMAIN claims \ {key} |-> claims[k]]
      /\ rd' = [x \in Readers |-> IF Key(x) = key THEN LetGo(x, r) ELSE rd[x]]
  BY DEF ReleaseBlock
<1>2. key \in DOMAIN claims /\ claims[key] = r
  BY <1>1 DEF FetchInv, FetchersClaim, Fetching
<1> HIDE DEF key
<1>3. \A y \in Readers : IF Key(y) = key THEN rd'[y] = LetGo(y, r) ELSE rd'[y] = rd[y]
  BY <1>1
<1>4. \A y \in Readers : Typed(rd'[y]) /\ Whole(rd'[y])
  BY <1>1, <1>3, LetGoIs DEF FetchInv, RequestTypes, key
<1>5. \A y \in Readers : Key(y) = key => rd'[y].pc \notin Fetching \cup {"wait"}
  BY <1>1, <1>3, LetGoIs DEF key
<1>6. \A y \in Readers \ {r} : Key(y)' = Key(y)
  BY <1>1, <1>3, LetGoIs, KeyKept DEF key
<1>7. \A k \in DOMAIN claims \ {key} : claims[k] # r /\ Key(claims[k]) # key
  BY <1>2 DEF FetchInv, ClaimsHeld, key
<1>8. DOMAIN claims' = DOMAIN claims \ {key} /\ \A k \in DOMAIN claims' : claims'[k] = claims[k]
  BY <1>1
<1>9. ClaimsHeld'
  BY <1>3, <1>6, <1>7, <1>8 DEF FetchInv, ClaimsHeld
<1>10. FetchersClaim' /\ WaitersWait'
  <2>1. ASSUME NEW y \in Readers, rd'[y].pc \in Fetching \cup {"wait"}
        PROVE  Key(y) # key /\ y # r /\ rd'[y] = rd[y] /\ Key(y)' = Key(y)
    BY <1>3, <1>5, <1>6, <2>1 DEF key
  <2> QED
    BY <1>8, <2>1 DEF FetchInv, FetchersClaim, WaitersWait
<1>11. RequestTypes'
  BY <1>1, <1>4 DEF RequestTypes
<1> QED
  BY <1>4, <1>9, <1>10, <1>11 DEF FetchInv

LEMMA FetchInit == Init => FetchInv
<1> SUFFICES ASSUME Init PROVE FetchInv
  OBVIOUS
<1>1. \A r \in Readers : rd[r] = Idle
  BY DEF Init
<1>2. RequestTypes
  BY <1>1, IdleTyped DEF Init, RequestTypes
<1>3. \A r \in Readers : Whole(rd[r]) /\ rd[r].pc = "idle"
  BY <1>1, IdleTyped DEF Whole
<1>4. ClaimsHeld /\ FetchersClaim /\ WaitersWait
  BY <1>3 DEF Init, ClaimsHeld, FetchersClaim, WaitersWait, Fetching
<1> QED
  BY <1>2, <1>3, <1>4 DEF FetchInv

LEMMA RestKeeps ==
  ASSUME FetchInv, UNCHANGED <<rd, claims>>
  PROVE  FetchInv'
BY DEF FetchInv, RequestTypes, ClaimsHeld, FetchersClaim, WaitersWait, Key, Idx, At

LEMMA AskingKeeps ==
  ASSUME FetchInv, NEW r \in Readers, Asking(r)
  PROVE  FetchInv'
<1> PICK h \in Handles :
      \/ \E span \in Spans : span[1] < Claimed[h] /\ Begin(r, h, "read", span[1], span[2])
      \/ Begin(r, h, "download", 0, Buffer)
  BY DEF Asking
<1>1. CASE Begin(r, h, "download", 0, Buffer)
  <2>1. Chunk \in Nat \ {0} /\ Claimed[h] \in Nat /\ 0 =< Claimed[h]
    BY BlockFetchAssumption
  <2> QED
    BY <1>1, <2>1, BeginKeeps DEF Buffer
<1>2. ASSUME NEW span \in Spans, span[1] < Claimed[h], Begin(r, h, "read", span[1], span[2])
      PROVE  FetchInv'
  <2>1. span[1] \in Nat /\ span[2] \in Nat \ {0} /\ Claimed[h] \in Nat /\ span[1] =< Claimed[h]
    BY <1>2, BlockFetchAssumption
  <2> QED
    BY <1>2, <2>1, BeginKeeps
<1> QED
  BY <1>1, <1>2

LEMMA FetchStep == FetchInv /\ [Next]_readVars => FetchInv'
<1> SUFFICES ASSUME FetchInv, [Next]_readVars PROVE FetchInv'
  OBVIOUS
<1>0. RequestTypes
  BY DEF FetchInv
<1>1. ASSUME NEW r \in Readers, Asking(r)
      PROVE  FetchInv'
  BY <1>1, AskingKeeps
<1>2. ASSUME NEW r \in Readers, CtxEnds(r)
      PROVE  FetchInv'
  BY <1>0, <1>2, CtxEndsWorks, WorksKeeps
<1>3. ASSUME NEW r \in Readers, Reading(r)
      PROVE  FetchInv'
  <2>1. CASE NextBlock(r)
    BY <2>1, NextBlockKeeps
  <2>2. CASE Reply(r)
    BY <2>2, ReplyKeeps
  <2>3. CASE ClaimBlock(r)
    BY <2>3, ClaimBlockKeeps
  <2>4. CASE Woken(r)
    BY <2>4, WokenKeeps
  <2>5. CASE ReleaseBlock(r)
    BY <2>5, ReleaseBlockKeeps
  <2>6. CASE GiveUp(r) \/ NoSlot(r)
    BY <1>0, <2>6, AnswerWorks, WorksKeeps
  <2>7. CASE Acquire(r)
    BY <1>0, <2>7, AcquireWorks, WorksKeeps
  <2>8. CASE PauseEnds(r)
    BY <1>0, <2>8, PauseEndsWorks, WorksKeeps
  <2>9. CASE RefreshBlock(r)
    BY <1>0, <2>9, RejectedWorks, WorksKeeps
  <2> QED
    BY <1>3, <2>1, <2>2, <2>3, <2>4, <2>5, <2>6, <2>7, <2>8, <2>9 DEF Reading
<1>4. ASSUME NEW r \in Readers, Answering(r)
      PROVE  FetchInv'
  <2>1. CASE Downloaded(r) \/ DownloadFails(r)
    BY <1>0, <2>1, AnswerWorks, WorksKeeps
  <2>2. CASE CutOff(r)
    BY <1>0, <2>2, CutOffWorks, WorksKeeps
  <2>3. CASE SessionRejected(r) \/ TokenRejected(r)
    BY <1>0, <2>3, RejectedWorks, WorksKeeps
  <2>4. ASSUME NEW wait \in Waits, Limited(r, wait)
        PROVE  FetchInv'
    BY <1>0, <2>4, LimitedWorks, WorksKeeps
  <2> QED
    BY <1>4, <2>1, <2>2, <2>3, <2>4 DEF Answering
<1>5. CASE \/ \E h \in Handles : Close(h) \/ TransferEnds(h)
           \/ \E k \in onDisk : DiskEvicts(k)
           \/ Tick \/ UNCHANGED readVars
  BY <1>5, RestKeeps DEF Close, TransferEnds, DiskEvicts, Tick, readVars
<1> QED
  BY <1>1, <1>2, <1>3, <1>4, <1>5 DEF Next

LEMMA FetchAlways == Spec => []FetchInv
<1>1. FetchInv /\ [Next]_readVars => FetchInv'
  BY FetchStep
<1> QED
  BY <1>1, FetchInit, PTL DEF Spec

\* However many requests, slots and faults: a block has one fetcher, and a waiter has one to
\* wait for.  (claimBlock, releaseBlock.)
THEOREM FetchersAlone == Spec => []OneFetcher
<1>1. FetchInv => OneFetcher
  BY DEF FetchInv, ClaimsHeld, FetchersClaim, WaitersWait, OneFetcher
<1> QED
  BY <1>1, FetchAlways, PTL

\* For any size, block size and buffer that divides it, whatever is evicted, fails or is given
\* up: what ends a download without an error is the end of the file.  (ReadAt, downloadInto.)
THEOREM DownloadsWhole == Spec => []DownloadWhole
<1>1. FetchInv => DownloadWhole
  <2> SUFFICES ASSUME FetchInv, NEW r \in Readers, rd[r].kind = "download", rd[r].pc = "reply",
                      Returned(r) = "eof"
               PROVE  At(r) = Size[rd[r].h]
    BY DEF DownloadWhole
  <2>1. /\ Whole(rd[r]) /\ At(r) = rd[r].off + rd[r].n /\ rd[r].n < rd[r].len
        /\ ~(rd[r].err # "none" /\ rd[r].n = 0)
    BY DEF FetchInv, At, Returned
  <2>2. rd[r].n \in Nat /\ rd[r].len \in Nat
    BY AtTyped DEF FetchInv, Requests
  <2> QED
    BY <2>1, <2>2 DEF Whole
<1> QED
  BY <1>1, FetchAlways, PTL

(***************************************************************************)
(* The transfers that are shown, and the window.                           *)
(***************************************************************************)

HandleTypes == handle \in [Handles -> HandleRecords]

TransferInv == HandleTypes /\ TransfersEnd

\* A fetch changes a handle's record in no other way.
LEMMA HandleKeeps ==
  ASSUME TransferInv, NEW h \in Handles,
         \/ UNCHANGED handle
         \/ EnsureTransfer(h)
         \/ handle' = [handle EXCEPT ![h].failed = TRUE]
  PROVE  TransferInv'
<1>1. handle[h] \in HandleRecords
  BY DEF TransferInv, HandleTypes
<1>2. CASE UNCHANGED handle
  BY <1>2 DEF TransferInv, HandleTypes, TransfersEnd
<1>3. CASE EnsureTransfer(h)
  <2> PICK b \in BOOLEAN : b <=> handle[h].shown \/ ~handle[h].closed
    OBVIOUS
  <2>1. b = (handle[h].shown \/ ~handle[h].closed)
    BY <1>1 DEF HandleRecords
  <2> DEFINE x == [handle[h] EXCEPT !.shown = b]
  <2>2. handle' = [handle EXCEPT ![h] = x]
    BY <1>3, <2>1 DEF EnsureTransfer
  <2>3. /\ x \in HandleRecords /\ x.closed = handle[h].closed /\ x.ending = handle[h].ending
        /\ x.shown = b
    BY <1>1 DEF HandleRecords
  <2> HIDE DEF x
  <2> QED
    BY <2>1, <2>2, <2>3 DEF TransferInv, HandleTypes, TransfersEnd
<1>4. CASE handle' = [handle EXCEPT ![h].failed = TRUE]
  <2> PICK t \in BOOLEAN : t = TRUE
    OBVIOUS
  <2> DEFINE x == [handle[h] EXCEPT !.failed = t]
  <2>1. handle' = [handle EXCEPT ![h] = x]
    BY <1>4
  <2>2. /\ x \in HandleRecords /\ x.closed = handle[h].closed /\ x.ending = handle[h].ending
        /\ x.shown = handle[h].shown
    BY <1>1 DEF HandleRecords
  <2> HIDE DEF x
  <2> QED
    BY <2>1, <2>2 DEF TransferInv, HandleTypes, TransfersEnd
<1> QED
  BY <1>2, <1>3, <1>4

LEMMA CloseKeeps ==
  ASSUME TransferInv, NEW h \in Handles, Close(h) \/ TransferEnds(h)
  PROVE  TransferInv'
<1>1. handle[h] \in HandleRecords /\ handle[h].shown \in BOOLEAN
  BY DEF TransferInv, HandleTypes, HandleRecords
<1> PICK t \in BOOLEAN, f \in BOOLEAN : t = TRUE /\ f = FALSE
  OBVIOUS
<1>2. CASE Close(h)
  <2> DEFINE x == [handle[h] EXCEPT !.closed = t, !.ending = handle[h].shown]
  <2>1. handle' = [handle EXCEPT ![h] = x]
    BY <1>2 DEF Close
  <2>2. x \in HandleRecords /\ x.shown = handle[h].shown /\ x.ending = handle[h].shown
    BY <1>1 DEF HandleRecords
  <2> HIDE DEF x
  <2> QED
    BY <2>1, <2>2 DEF TransferInv, HandleTypes, TransfersEnd
<1>3. CASE TransferEnds(h)
  <2> DEFINE x == [handle[h] EXCEPT !.ending = f, !.shown = f]
  <2>1. handle' = [handle EXCEPT ![h] = x]
    BY <1>3 DEF TransferEnds
  <2>2. x \in HandleRecords /\ x.shown = f
    BY <1>1 DEF HandleRecords
  <2> HIDE DEF x
  <2> QED
    BY <2>1, <2>2 DEF TransferInv, HandleTypes, TransfersEnd
<1> QED
  BY <1>2, <1>3

LEMMA TransferInit == Init => TransferInv
<1> SUFFICES ASSUME Init PROVE TransferInv
  OBVIOUS
<1> PICK f \in BOOLEAN : f = FALSE
  OBVIOUS
<1>1. handle = [h \in Handles |-> [closed |-> f, failed |-> f, shown |-> f, ending |-> f]]
  BY DEF Init
<1> QED
  BY <1>1 DEF TransferInv, HandleTypes, TransfersEnd, HandleRecords

LEMMA TransferStep == FetchInv /\ TransferInv /\ [Next]_readVars => TransferInv'
<1> SUFFICES ASSUME FetchInv, TransferInv, [Next]_readVars PROVE TransferInv'
  OBVIOUS
<1>0. \A r \in Readers : rd[r].h \in Handles
  BY AtTyped DEF FetchInv, Requests
<1>1. ASSUME NEW r \in Readers, Reading(r)
      PROVE  TransferInv'
  <2>1. \/ UNCHANGED handle \/ EnsureTransfer(rd[r].h)
        \/ handle' = [handle EXCEPT ![rd[r].h].failed = TRUE]
    BY <1>1 DEF Reading, NextBlock, Reply, ClaimBlock, GiveUp, Woken, ReleaseBlock, Acquire, NoSlot,
                PauseEnds, RefreshBlock, Failed
  <2> QED
    BY <1>0, <2>1, HandleKeeps
<1>2. ASSUME NEW r \in Readers, Answering(r)
      PROVE  TransferInv'
  <2>1. \/ UNCHANGED handle \/ EnsureTransfer(rd[r].h)
        \/ handle' = [handle EXCEPT ![rd[r].h].failed = TRUE]
    BY <1>2 DEF Answering, Downloaded, DownloadFails, CutOff, Limited, SessionRejected,
                TokenRejected, Failed
  <2> QED
    BY <1>0, <2>1, HandleKeeps
<1>3. ASSUME NEW r \in Readers, Asking(r) \/ CtxEnds(r)
      PROVE  TransferInv'
  BY <1>0, <1>3, HandleKeeps DEF Asking, Begin, CtxEnds
<1>4. ASSUME NEW h \in Handles, Close(h) \/ TransferEnds(h)
      PROVE  TransferInv'
  BY <1>4, CloseKeeps
<1>5. CASE (\E k \in onDisk : DiskEvicts(k)) \/ Tick \/ UNCHANGED readVars
  BY <1>5 DEF DiskEvicts, Tick, readVars, TransferInv, HandleTypes, TransfersEnd
<1> QED
  BY <1>1, <1>2, <1>3, <1>4, <1>5 DEF Next

\* However late a fetch ends, no transfer stays on show for a handle that was closed.
\* (ensureTransfer, Close.)
THEOREM TransfersAllEnd == Spec => []TransfersEnd
<1>1. FetchInv /\ TransferInv /\ [Next]_readVars => TransferInv'
  BY TransferStep
<1>2. TransferInv => TransfersEnd
  BY DEF TransferInv
<1> QED
  BY <1>1, <1>2, TransferInit, FetchAlways, PTL DEF Spec

WindowInv == window \in Nat /\ owed \in Nat /\ WindowHonoured

\* A wait that is noted is honoured, unless it cuts the window short.
LEMMA NoteKeeps ==
  ASSUME WindowInv, NEW wait \in Nat, NoteWindow(wait)
  PROVE  WindowInv'
<1>1. window \in Nat /\ owed \in Nat
  BY DEF WindowInv
<1>2. window' = wait /\ owed' = IF owed >= wait THEN owed ELSE wait
  BY <1>1, MaxOfTwo DEF NoteWindow
<1>3. window' \in Nat /\ owed' \in Nat
  BY <1>1, <1>2
<1>4. CASE wait < window
  BY <1>3, <1>4 DEF NoteWindow, WindowInv, WindowHonoured
<1>5. CASE ~(wait < window)
  <2>1. races' = races /\ wait >= window
    BY <1>1, <1>5 DEF NoteWindow
  <2> QED
    BY <1>1, <1>2, <1>3, <2>1 DEF WindowInv, WindowHonoured
<1> QED
  BY <1>4, <1>5

\* A step that notes no wait leaves the window as it is.
LEMMA WindowKept ==
  ASSUME WindowInv, window' = window, owed' = owed, races \subseteq races'
  PROVE  WindowInv'
BY DEF WindowInv, WindowHonoured

LEMMA TickKeeps ==
  ASSUME WindowInv, Tick
  PROVE  WindowInv'
<1>1. window \in Nat /\ owed \in Nat
  BY DEF WindowInv
<1>2. /\ window' = IF 0 >= window - 1 THEN 0 ELSE window - 1
      /\ owed' = IF 0 >= owed - 1 THEN 0 ELSE owed - 1
      /\ races' = races
  BY <1>1, MaxOfTwo DEF Tick
<1> QED
  BY <1>1, <1>2 DEF WindowInv, WindowHonoured

LEMMA LimitedKeeps ==
  ASSUME WindowInv, NEW r \in Readers, NEW wait \in Waits, Limited(r, wait)
  PROVE  WindowInv'
<1>1. wait \in Nat
  BY BlockFetchAssumption
<1>2. CASE NoteWindow(wait)
  BY <1>1, <1>2, NoteKeeps
<1>3. CASE ~NoteWindow(wait)
  BY <1>3, WindowKept DEF Limited
<1> QED
  BY <1>2, <1>3

LEMMA WindowStep == FetchInv /\ WindowInv /\ [Next]_readVars => WindowInv'
<1> SUFFICES ASSUME FetchInv, WindowInv, [Next]_readVars PROVE WindowInv'
  OBVIOUS
<1>1. ASSUME NEW r \in Readers, Reading(r)
      PROVE  WindowInv'
  <2>1. CASE PauseEnds(r)
    <3>1. rd[r].wait \in Nat
      BY AtTyped DEF FetchInv, Requests
    <3>2. NoteWindow(rd[r].wait) \/ UNCHANGED <<window, owed, races>>
      BY <2>1 DEF PauseEnds
    <3> QED
      BY <3>1, <3>2, NoteKeeps, WindowKept
  <2>2. CASE ~PauseEnds(r)
    BY <1>1, <2>2, WindowKept DEF Reading, NextBlock, Reply, ClaimBlock, GiveUp, Woken, ReleaseBlock,
                                  Acquire, NoSlot, RefreshBlock
  <2> QED
    BY <2>1, <2>2
<1>2. ASSUME NEW r \in Readers, Answering(r)
      PROVE  WindowInv'
  <2>1. ASSUME NEW wait \in Waits, Limited(r, wait)
        PROVE  WindowInv'
    BY <2>1, LimitedKeeps
  <2>2. CASE ~\E wait \in Waits : Limited(r, wait)
    BY <1>2, <2>2, WindowKept DEF Answering, Downloaded, DownloadFails, CutOff, SessionRejected,
                                  TokenRejected
  <2> QED
    BY <2>1, <2>2
<1>3. ASSUME NEW r \in Readers, Asking(r) \/ CtxEnds(r)
      PROVE  WindowInv'
  BY <1>3, WindowKept DEF Asking, Begin, CtxEnds
<1>4. CASE \/ \E h \in Handles : Close(h) \/ TransferEnds(h)
           \/ \E k \in onDisk : DiskEvicts(k)
           \/ UNCHANGED readVars
  BY <1>4, WindowKept DEF Close, TransferEnds, DiskEvicts, readVars
<1>5. CASE Tick
  BY <1>5, TickKeeps
<1> QED
  BY <1>1, <1>2, <1>3, <1>4, <1>5 DEF Next

\* Unless a shorter answer cuts the window or a limit is met by a request already given up,
\* what a server asked for is waited out.  (getRawRetrying.)
THEOREM WindowAlwaysHonoured == Spec => []WindowHonoured
<1>1. Init => WindowInv
  BY DEF Init, WindowInv, WindowHonoured
<1>2. FetchInv /\ WindowInv /\ [Next]_readVars => WindowInv'
  BY WindowStep
<1>3. WindowInv => WindowHonoured
  BY DEF WindowInv
<1> QED
  BY <1>1, <1>2, <1>3, FetchAlways, PTL DEF Spec

(***************************************************************************)
(* The memory of a handle, and the other types.                            *)
(***************************************************************************)

Memory == {s \in Seq(Nat) : /\ Len(s) =< MaxCached
                            /\ \A i, j \in DOMAIN s : s[i] = s[j] => i = j}

BlocksInv == /\ cache \in [Handles -> Memory]
             /\ DOMAIN claims \subseteq Claims /\ onDisk \subseteq Claims
             /\ races \subseteq FetchRaces

\* The oldest block makes room, so that no block is twice in memory and they never are too many.
LEMMA PutInMemory ==
  ASSUME NEW s \in Memory, NEW b \in Nat, \A i \in DOMAIN s : s[i] # b
  PROVE  Append(IF Len(s) >= MaxCached THEN Tail(s) ELSE s, b) \in Memory
<1>1. /\ s \in Seq(Nat) /\ Len(s) \in Nat /\ Len(s) =< MaxCached /\ MaxCached \in Nat /\ MaxCached > 0
      /\ DOMAIN s = 1 .. Len(s) /\ \A i, j \in 1 .. Len(s) : s[i] = s[j] => i = j
  BY BlockFetchAssumption DEF Memory
<1>2. ASSUME NEW t \in Seq(Nat), Len(t) < MaxCached, \A i \in 1 .. Len(t) : t[i] # b,
             \A i, j \in 1 .. Len(t) : t[i] = t[j] => i = j
      PROVE  Append(t, b) \in Memory
  <2>1. /\ Append(t, b) \in Seq(Nat) /\ Len(Append(t, b)) = Len(t) + 1 /\ Len(t) \in Nat
        /\ DOMAIN Append(t, b) = 1 .. Len(t) + 1
        /\ \A i \in 1 .. Len(t) : Append(t, b)[i] = t[i]
        /\ Append(t, b)[Len(t) + 1] = b
    BY <1>2
  <2>2. Len(Append(t, b)) =< MaxCached
    BY <1>1, <1>2, <2>1
  <2>3. ASSUME NEW i \in 1 .. Len(t) + 1, NEW j \in 1 .. Len(t) + 1, Append(t, b)[i] = Append(t, b)[j]
        PROVE  i = j
    <3>1. CASE i \in 1 .. Len(t) /\ j \in 1 .. Len(t)
      BY <1>2, <2>1, <2>3, <3>1
    <3>2. CASE i = Len(t) + 1 /\ j \in 1 .. Len(t)
      BY <1>2, <2>1, <2>3, <3>2
    <3>3. CASE i \in 1 .. Len(t) /\ j = Len(t) + 1
      BY <1>2, <2>1, <2>3, <3>3
    <3> QED
      BY <2>1, <3>1, <3>2, <3>3
  <2> QED
    BY <2>1, <2>2, <2>3 DEF Memory
<1>3. CASE Len(s) >= MaxCached
  <2>1. s # <<>> /\ Len(s) > 0
    BY <1>1, <1>3
  <2>2. /\ Tail(s) \in Seq(Nat) /\ Len(Tail(s)) = Len(s) - 1
        /\ \A i \in 1 .. Len(s) - 1 : Tail(s)[i] = s[i + 1]
    BY <1>1, <2>1
  <2>3. Len(Tail(s)) < MaxCached
    BY <1>1, <2>2
  <2>4. \A i \in 1 .. Len(Tail(s)) : i + 1 \in 1 .. Len(s) /\ Tail(s)[i] = s[i + 1]
    BY <1>1, <2>2
  <2>5. \A i \in 1 .. Len(Tail(s)) : Tail(s)[i] # b
    BY <1>1, <2>4
  <2>6. \A i, j \in 1 .. Len(Tail(s)) : Tail(s)[i] = Tail(s)[j] => i = j
    <3> SUFFICES ASSUME NEW i \in 1 .. Len(Tail(s)), NEW j \in 1 .. Len(Tail(s)),
                        Tail(s)[i] = Tail(s)[j]
                 PROVE  i = j
      OBVIOUS
    <3>1. i + 1 \in 1 .. Len(s) /\ j + 1 \in 1 .. Len(s) /\ s[i + 1] = s[j + 1]
      BY <2>4
    <3>2. i + 1 = j + 1
      BY <1>1, <3>1
    <3> QED
      BY <3>2, <1>1, <2>2
  <2> QED
    BY <1>2, <1>3, <2>2, <2>3, <2>5, <2>6
<1>4. CASE ~(Len(s) >= MaxCached)
  BY <1>1, <1>2, <1>4
<1> QED
  BY <1>3, <1>4

\* The block at hand is one that the file may have.
LEMMA KeyIsClaim ==
  ASSUME RequestTypes, NEW r \in Readers
  PROVE  Key(r) \in Claims /\ Idx(r) \in Nat
<1>1. rd[r].h \in Handles /\ Typed(rd[r])
  BY AtTyped DEF Requests
<1>2. Idx(r) \in 1 .. Claimed[rd[r].h] + 1
  BY <1>1, HaveIs DEF Typed
<1>3. Key(r) \in {rd[r].h} \X (1 .. (Claimed[rd[r].h] + 1))
  BY <1>2 DEF Key
<1> QED
  BY <1>1, <1>2, <1>3, HaveIs DEF Claims

\* What a step of a request does to the blocks.
LEMMA BlocksKept ==
  ASSUME FetchInv, BlocksInv, NEW r \in Readers,
         UNCHANGED cache \/ CachePut(rd[r].h, Idx(r)),
         DOMAIN claims' \subseteq DOMAIN claims \cup {Key(r)},
         onDisk' \subseteq onDisk \cup {Key(r)},
         races' \subseteq races \cup FetchRaces
  PROVE  BlocksInv'
<1>1. Key(r) \in Claims /\ Idx(r) \in Nat /\ rd[r].h \in Handles
  BY KeyIsClaim, AtTyped DEF FetchInv, Requests
<1>2. cache' \in [Handles -> Memory]
  <2>1. CASE UNCHANGED cache
    BY <2>1 DEF BlocksInv
  <2>2. CASE CachePut(rd[r].h, Idx(r))
    <3> DEFINE s == cache[rd[r].h]
               t == IF InMemory(rd[r].h, Idx(r)) THEN s
                    ELSE Append(IF Len(s) >= MaxCached THEN Tail(s) ELSE s, Idx(r))
    <3>1. s \in Memory
      BY <1>1 DEF BlocksInv
    <3>2. t \in Memory
      BY <1>1, <3>1, PutInMemory DEF InMemory
    <3>3. cache' = [cache EXCEPT ![rd[r].h] = t]
      BY <2>2 DEF CachePut
    <3> HIDE DEF t
    <3> QED
      BY <1>1, <3>2, <3>3 DEF BlocksInv
  <2> QED
    BY <2>1, <2>2
<1> QED
  BY <1>1, <1>2 DEF BlocksInv, Claims

LEMMA BlocksStep == FetchInv /\ BlocksInv /\ [Next]_readVars => BlocksInv'
<1> SUFFICES ASSUME FetchInv, BlocksInv, [Next]_readVars PROVE BlocksInv'
  OBVIOUS
<1>1. ASSUME NEW r \in Readers, Reading(r)
      PROVE  BlocksInv'
  <2>1. UNCHANGED cache \/ CachePut(rd[r].h, Idx(r))
    BY <1>1 DEF Reading, NextBlock, Reply, ClaimBlock, GiveUp, Woken, ReleaseBlock, Acquire, NoSlot,
                PauseEnds, RefreshBlock
  <2>2. DOMAIN claims' \subseteq DOMAIN claims \cup {Key(r)}
    BY <1>1 DEF Reading, NextBlock, Reply, ClaimBlock, GiveUp, Woken, ReleaseBlock, Acquire, NoSlot,
                PauseEnds, RefreshBlock
  <2>3. onDisk' \subseteq onDisk
    BY <1>1 DEF Reading, NextBlock, Reply, ClaimBlock, GiveUp, Woken, ReleaseBlock, Acquire, NoSlot,
                PauseEnds, RefreshBlock
  <2>4. races' \subseteq races \cup FetchRaces
    BY <1>1 DEF Reading, NextBlock, Reply, ClaimBlock, GiveUp, Woken, ReleaseBlock, Acquire, NoSlot,
                PauseEnds, RefreshBlock, NoteWindow, FetchRaces
  <2> QED
    BY <2>1, <2>2, <2>3, <2>4, BlocksKept
<1>2. ASSUME NEW r \in Readers, Answering(r)
      PROVE  BlocksInv'
  <2>1. UNCHANGED <<cache, claims>> /\ onDisk' \subseteq onDisk \cup {Key(r)}
    BY <1>2 DEF Answering, Downloaded, DownloadFails, CutOff, Limited, SessionRejected, TokenRejected
  <2>2. races' \subseteq races \cup FetchRaces
    BY <1>2 DEF Answering, Downloaded, DownloadFails, CutOff, Limited, SessionRejected,
                TokenRejected, NoteWindow, FetchRaces
  <2> QED
    BY <2>1, <2>2, BlocksKept
<1>3. ASSUME NEW r \in Readers, Asking(r) \/ CtxEnds(r)
      PROVE  BlocksInv'
  BY <1>3, BlocksKept DEF Asking, Begin, CtxEnds
<1>4. CASE \/ \E h \in Handles : Close(h) \/ TransferEnds(h)
           \/ \E k \in onDisk : DiskEvicts(k)
           \/ Tick \/ UNCHANGED readVars
  BY <1>4 DEF Close, TransferEnds, DiskEvicts, Tick, readVars, BlocksInv, Claims, Memory
<1> QED
  BY <1>1, <1>2, <1>3, <1>4 DEF Next

\* Every variable keeps its type, and a handle's memory never holds too many blocks, nor one of
\* them twice.  (cachePut.)
THEOREM FetchTypes == Spec => []TypeOK
<1>1. Init => BlocksInv
  <2> SUFFICES ASSUME Init PROVE BlocksInv
    OBVIOUS
  <2>1. <<>> \in Memory
    BY BlockFetchAssumption DEF Memory
  <2> QED
    BY <2>1 DEF Init, BlocksInv
<1>2. FetchInv /\ BlocksInv /\ [Next]_readVars => BlocksInv'
  BY BlocksStep
<1>3. Init => WindowInv
  BY DEF Init, WindowInv, WindowHonoured
<1>4. FetchInv /\ WindowInv /\ [Next]_readVars => WindowInv'
  BY WindowStep
<1>5. FetchInv /\ TransferInv /\ [Next]_readVars => TransferInv'
  BY TransferStep
<1>6. FetchInv /\ BlocksInv /\ WindowInv /\ TransferInv => TypeOK
  <2> SUFFICES ASSUME FetchInv, BlocksInv, WindowInv, TransferInv PROVE TypeOK
    OBVIOUS
  <2>1. ASSUME NEW r \in Readers
        PROVE  /\ rd[r].pc \in ReaderStates /\ rd[r].h \in Handles /\ rd[r].ctx \in BOOLEAN
               /\ rd[r].off \in Nat /\ rd[r].n \in 0 .. rd[r].len /\ rd[r].attempt \in 0 .. Attempts
    BY AtTyped DEF FetchInv, Requests, Typed
  <2>2. ASSUME NEW h \in Handles
        PROVE  /\ Len(cache[h]) =< MaxCached
               /\ \A i, j \in DOMAIN cache[h] : cache[h][i] = cache[h][j] => i = j
    BY DEF BlocksInv, Memory
  <2> QED
    BY <2>1, <2>2 DEF BlocksInv, WindowInv, TransferInv, HandleTypes, HandleRecords, TypeOK
<1> QED
  BY <1>1, <1>2, <1>3, <1>4, <1>5, <1>6, TransferInit, FetchAlways, PTL DEF Spec
=============================================================================
