----------------------------- MODULE AppendOnly -----------------------------
(***************************************************************************)
(* The AppendOnly space manager policy: jni/space/AppendOnly.c, between    *)
(* the bitmaps of SpaceManager, the cache of pages with free space         *)
(* (AppendOnlyCache) and the file.  A page or a chunk of a record goes to  *)
(* a cached page that has the room for it, else to a new page; after a     *)
(* release the unused pages at the end of the file are cut off.            *)
(*                                                                         *)
(* A call that updates the cache once is one step; acquireRecord,          *)
(* releaseRecord and the cut of the tail update it once a turn, and each   *)
(* turn is a step.  The call variable says where the call in progress is.  *)
(***************************************************************************)
EXTENDS SpaceManager

CONSTANTS
  limit,     \* appendOnlyCacheSize
  Records,   \* bound: the Record objects of the application
  Lengths,   \* bound: the lengths in bytes the application asks for
  Rooms      \* bound: the pages a storage has room for

ASSUME RequestAssumption ==
  /\ limit \in Nat \ {0} /\ Lengths \subseteq Nat \ {0}
  /\ Rooms \subseteq MinPages .. MaxPages

VARIABLES
  sm,            \* the space manager
  cache,         \* the AppendOnlyCache: elements,
  minFreeSpace,  \*   threshold,
  space,         \*   and the space it was told of (ghost)
  call,          \* the call in progress
  given,         \* pages acquirePage has given out
  usage,         \* the blocks of every record, page by page
  len,           \* the length each live record was acquired with, 0: none
  failed         \* records whose acquireRecord returned false

vars == <<sm, cache, minFreeSpace, space, call, given, usage, len, failed>>

Cache == INSTANCE AppendOnlyCache WITH Pages <- PageIds, MaxSpace <- PageSize

NoUsage  == [p \in PageIds |-> {}]
Idle     == [mode |-> "idle"]
Hung     == [mode |-> "hung"]
InRecord == call.mode = "record"
Least(x, y) == IF x < y THEN x ELSE y

cacheVars == <<cache, minFreeSpace, space>>
heldVars  == <<given, usage, len, failed>>

(* The manager after one page was added to the file and update() ran. *)
Grown == Update([sm EXCEPT !.file = @ + 1])

-----------------------------------------------------------------------------
(* acquirePage and releasePage.                                              *)

AcquireCachedPage ==
  LET id == Cache!GetBestId(PageSize) IN
  /\ call = Idle
  /\ id # Cache!NoPage
  /\ sm' = SetPageUsed(sm, id, TRUE)
  /\ Cache!Update(id, 0)
  /\ given' = given \cup {id}
  /\ UNCHANGED <<call, usage, len, failed>>

(* With the storage full the call returns ACQUIRE_FAILED and changes
   nothing. *)
AcquireNewPage ==
  /\ call = Idle
  /\ Cache!GetBestId(PageSize) = Cache!NoPage
  /\ sm.file < sm.room
  /\ IF Grown.hung
     THEN sm' = Grown /\ call' = Hung /\ UNCHANGED given
     ELSE /\ sm' = SetPageUsed(Grown, sm.file, TRUE)
          /\ given' = given \cup {sm.file}
          /\ UNCHANGED call
  /\ UNCHANGED <<cacheVars, usage, len, failed>>

(* The cut of the tail, from the end of the file on; then the call goes on
   as after says. *)
Trim(after) == [mode |-> "trim", id |-> sm.file - 1, after |-> after]

ReleasePage(id) ==
  /\ call = Idle
  /\ id \in given
  /\ given' = given \ {id}
  /\ sm' = SetPageUsed(sm, id, FALSE)
  /\ Cache!Update(id, PageSize)
  /\ call' = Trim(Idle)
  /\ UNCHANGED <<usage, len, failed>>

(* Fault: a page cut off stays in the cache. *)
TrimPage_fault ==
  /\ call.mode = "trim"
  /\ ~IsPageUsed(sm, call.id)
  /\ call' = [call EXCEPT !.id = @ - 1]
  /\ UNCHANGED <<sm, cacheVars, heldVars>>

(* Fault: the loop forgets to go on to the page before. *)
TrimPage_fault2 ==
  /\ call.mode = "trim"
  /\ ~IsPageUsed(sm, call.id)
  /\ Cache!Update(call.id, 0)
  /\ UNCHANGED <<sm, call, heldVars>>

(* One turn of the loop of removePages. *)
TrimPage ==
  /\ call.mode = "trim"
  /\ ~IsPageUsed(sm, call.id)
  /\ Cache!Update(call.id, 0)
  /\ call' = [call EXCEPT !.id = @ - 1]
  /\ UNCHANGED <<sm, heldVars>>

(* Fault: a page too many. *)
CutTail_fault ==
  /\ call.mode = "trim"
  /\ IsPageUsed(sm, call.id)
  /\ sm' = IF call.id = sm.file - 1 THEN sm
           ELSE Update([sm EXCEPT !.file = call.id])
  /\ call' = call.after
  /\ UNCHANGED <<cacheVars, heldVars>>

CutTail ==
  /\ call.mode = "trim"
  /\ IsPageUsed(sm, call.id)
  /\ sm' = IF call.id = sm.file - 1 THEN sm
           ELSE Update([sm EXCEPT !.file = call.id + 1])
  /\ call' = call.after
  /\ UNCHANGED <<cacheVars, heldVars>>

-----------------------------------------------------------------------------
(* acquireRecord.                                                            *)

(* Fault: blocks in use are taken too. *)
ReserveBlocks_fault(s, id, length) == {b \in Blocks : BlockSize * b < length}

(* reserveBlocks takes free blocks from the first one on, until it has length
   bytes. *)
ReserveBlocks(s, id, length) ==
  LET free == {b \in Blocks : ~IsBlockUsed(s, id, b)} IN
  {b \in free : BlockSize * Cardinality({c \in free : c < b}) < length}

(* The loop variables of acquireRecord for a record of l bytes. *)
Begin(r, l) ==
  LET chunks == (l + PageSize - 1) \div PageSize IN
  [mode |-> "record", rec |-> r, len |-> l, left |-> l, chunks |-> chunks,
   spare |-> chunks * PageSize - l, usage |-> NoUsage]

(* A record in use again after a failed acquireRecord would still have the
   blocks of that one: the application drops it. *)
StartRecord(r, l) ==
  /\ call = Idle
  /\ len[r] = 0 /\ r \notin failed
  /\ call' = Begin(r, l)
  /\ UNCHANGED <<sm, cacheVars, heldVars>>

(* A chunk on page id of manager s, which has free bytes. *)
Chunk(s, id, free) ==
  LET reserved == Least(call.left, free)
      blocks   == ReserveBlocks(s, id, reserved)
  IN
  /\ sm' = s
  /\ Cache!Update(id, free - BlockSize * Cardinality(blocks))
  /\ call' = [call EXCEPT !.chunks = @ - 1,
                          !.left   = @ - reserved,
                          !.spare  = @ - (PageSize - reserved),
                          !.usage[id] = @ \cup blocks]
  /\ UNCHANGED heldVars

CachedFor(need) == Cache!GetBestId(need)
SpaceOf(id) == (CHOOSE e \in {cache[i] : i \in DOMAIN cache} : e.id = id).freeSpace

ChunkFromCache ==
  LET id == CachedFor(PageSize - call.spare) IN
  /\ InRecord /\ call.chunks > 0
  /\ id # Cache!NoPage
  /\ Chunk(sm, id, SpaceOf(id))

ChunkFromNewPage ==
  /\ InRecord /\ call.chunks > 0
  /\ CachedFor(PageSize - call.spare) = Cache!NoPage
  /\ sm.file < sm.room
  /\ IF Grown.hung
     THEN sm' = Grown /\ call' = Hung /\ UNCHANGED <<cacheVars, heldVars>>
     ELSE Chunk(Grown, sm.file, PageSize)

(* The storage is full: the call returns false.  The pages it added stay in
   the file, the space it reserved stays out of the cache. *)
RecordFails ==
  /\ InRecord /\ call.chunks > 0
  /\ CachedFor(PageSize - call.spare) = Cache!NoPage
  /\ sm.file = sm.room
  /\ call' = Idle
  /\ failed' = failed \cup {call.rec}
  /\ UNCHANGED <<sm, cacheVars, given, usage, len>>

FinishRecord ==
  /\ InRecord /\ call.chunks = 0
  /\ sm' = SetRecordUsed(sm, call.usage, TRUE)
  /\ usage' = [usage EXCEPT ![call.rec] = call.usage]
  /\ len' = [len EXCEPT ![call.rec] = call.len]
  /\ call' = Idle
  /\ UNCHANGED <<cacheVars, given, failed>>

-----------------------------------------------------------------------------
(* releaseRecord, reacquireRecord, commit and load.                          *)

DropRecord(r, after) ==
  /\ call = Idle
  /\ len[r] > 0
  /\ sm' = SetRecordUsed(sm, usage[r], FALSE)
  /\ usage' = [usage EXCEPT ![r] = NoUsage]
  /\ len' = [len EXCEPT ![r] = 0]
  /\ call' = [mode |-> "release", todo |-> {p \in PageIds : usage[r][p] # {}},
              after |-> after]
  /\ UNCHANGED <<cacheVars, given, failed>>

ReleaseRecord(r) == DropRecord(r, Idle)

ReacquireRecord(r, l) == DropRecord(r, Begin(r, l))

(* One turn of the loop over the record's pages, whose slots are in any
   order. *)
ReleaseSpace(p) ==
  /\ call.mode = "release"
  /\ p \in call.todo
  /\ Cache!Update(p, FreeSpaceOnPage(sm, p))
  /\ call' = IF call.todo = {p} THEN Trim(call.after)
             ELSE [call EXCEPT !.todo = @ \ {p}]
  /\ UNCHANGED <<sm, heldVars>>

CommitSpace ==
  /\ call = Idle
  /\ sm' = Commit(sm)
  /\ UNCHANGED <<cacheVars, call, heldVars>>

(* The file is closed after a commit and opened again: the cache is a new
   one, the owners take up what they had.  After a failed acquireRecord the
   chain on disk may end too early; that case is left out. *)
Reopen ==
  /\ call = Idle
  /\ sm.dirty = {} /\ failed = {}
  /\ sm' = Load(sm)
  /\ cache' = <<>> /\ minFreeSpace' = -1 /\ space' = [p \in PageIds |-> 0]
  /\ UNCHANGED <<call, heldVars>>

-----------------------------------------------------------------------------

(* What createStructure leaves: the system pages are marked after the commit
   of create(). *)
Init ==
  /\ \E room \in Rooms :
       sm = [Create(room) EXCEPT
               !.bits = [p \in PageIds |-> IF p \in System THEN Blocks ELSE @[p]],
               !.dirty = {InfoOf(p) : p \in System}]
  /\ cache = <<>> /\ minFreeSpace = -1 /\ space = [p \in PageIds |-> 0]
  /\ call = Idle
  /\ given = {}
  /\ usage = [r \in Records |-> NoUsage]
  /\ len = [r \in Records |-> 0]
  /\ failed = {}

Next ==
  \/ AcquireCachedPage
  \/ AcquireNewPage
  \/ \E p \in PageIds : ReleasePage(p)
  \/ TrimPage
  \/ CutTail
  \/ \E r \in Records, l \in Lengths : StartRecord(r, l)
  \/ ChunkFromCache
  \/ ChunkFromNewPage
  \/ RecordFails
  \/ FinishRecord
  \/ \E r \in Records : ReleaseRecord(r)
  \/ \E r \in Records, l \in Lengths : ReacquireRecord(r, l)
  \/ \E p \in PageIds : ReleaseSpace(p)
  \/ CommitSpace
  \/ Reopen

Spec == Init /\ [][Next]_vars

(* A call in progress is a loop of the application's only thread: its next
   turn comes.  Nothing makes the application begin a call. *)
Turn ==
  \/ TrimPage
  \/ CutTail
  \/ ChunkFromCache
  \/ ChunkFromNewPage
  \/ RecordFails
  \/ FinishRecord
  \/ \E p \in PageIds : ReleaseSpace(p)

FairSpec == Spec /\ WF_vars(Turn)

-----------------------------------------------------------------------------
(* Properties.                                                               *)

ChainPages == {sm.chain[i] : i \in DOMAIN sm.chain}
Held == System \cup ChainPages \cup given
BytesOf(u) ==
  BlockSize * Cardinality({x \in PageIds \X Blocks : x[2] \in u[x[1]]})

(* Every variable keeps its type, and the chain fits the file: one growth of *)
(* the chain is enough, so update() has nothing left to do when it is called *)
(* again, and its shrinking branch is never taken.                           *)
TypeOK ==
  /\ sm.bits \in [PageIds -> SUBSET Blocks]
  /\ sm.chain \in Seq(PageIds)
  /\ sm.dirty \subseteq 0 .. Len(sm.chain) - 1
  /\ sm.file \in MinPages .. sm.room
  /\ ~sm.hung => Cover(sm) - PerPage < sm.file /\ sm.file < Cover(sm)
  /\ Cache!TypeOK
  /\ call.mode \in {"idle", "hung", "record", "release", "trim"}
  /\ given \subseteq PageIds
  /\ usage \in [Records -> [PageIds -> SUBSET Blocks]]
  /\ len \in [Records -> Nat]
  /\ failed \subseteq Records

(* What somebody owns lies inside the file and is marked in the bitmaps, so  *)
(* that neither a search nor the cut of the tail can take it away; a record  *)
(* of one page or of several has exactly the blocks its length needs.        *)
OwnedAreUsed ==
  /\ \A p \in Held : p < sm.file /\ sm.bits[p] = Blocks
  /\ \A r \in Records :
       /\ \A p \in PageIds : usage[r][p] # {} =>
            p < sm.file /\ usage[r][p] \subseteq sm.bits[p]
       /\ BytesOf(usage[r]) = BlockSize * ((len[r] + BlockSize - 1) \div BlockSize)

(* A cached page is in the file, is nobody's as a whole, and has the space   *)
(* it is cached with beside what the running acquireRecord has reserved on   *)
(* it: acquireRecord reserves there without a look at the bitmap's count, and*)
(* reserveBlocks runs past the page when the space is not there.             *)
CachedSpaceIsThere ==
  \A i \in DOMAIN cache :
    LET p == cache[i].id
        pending == IF InRecord THEN call.usage[p] ELSE {}
    IN /\ p < sm.file /\ p \notin Held
       /\ cache[i].freeSpace <= BlockSize * Cardinality(Blocks \ (sm.bits[p] \cup pending))

(* With nothing dirty, load gets back the chain and the bitmaps, as long as  *)
(* no acquireRecord has failed: an info page names the next one on disk only *)
(* if it is written after that one joined the chain.                         *)
CommittedImage == sm.dirty = {} /\ failed = {} => Load(sm) = sm

(* Every call comes back, with a record of several pages, a tail of any      *)
(* length and a cache that offers and withdraws pages on the way; the one    *)
(* way to stay away is update() calling itself for ever in a full storage,   *)
(* and that is Hung.  The loop of removePages has no end but a used page,    *)
(* acquireRecord counts down chunks its spare bytes may have skipped, and a  *)
(* reacquire releases, cuts the tail and then acquires.                      *)
CallReturns == call # Idle ~> call \in {Idle, Hung}

(* The policy implements the same abstract allocator as Hybrid.              *)
Allocator == INSTANCE BlockAllocator WITH
  Pages <- PageIds, Fixed <- System \cup {InfoPage}, held <- Held, owned <- usage

AllocatorSpec == Allocator!Spec
=============================================================================
