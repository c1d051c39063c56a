------------------------------- MODULE Hybrid -------------------------------
(***************************************************************************)
(* The space manager policy Jello binds by default: jni/space/Hybrid.c.    *)
(*                                                                         *)
(* A database file is a run of pages, a page is a run of blocks, and the   *)
(* policy hands out whole pages (acquirePage: indexes, class and schema    *)
(* lists) and the blocks of records (acquireRecord: stored objects).  It   *)
(* keeps one bit per block in free-space-info pages that live in the file  *)
(* itself and form a chain, and a histogram of the pages by free space,    *)
(* with one witness page per class, to find a page without a scan.         *)
(*                                                                         *)
(* This module is one session: from the end of DatabaseFile.createStructure*)
(* (or of a load, see HybridReopen) to the moment the process is gone.     *)
(* acquireRecord is modelled chunk by chunk, every other call is one step. *)
(***************************************************************************)
EXTENDS Integers, Sequences, FiniteSets

CONSTANTS
  PageSize,    \* bytes of a page
  BlockSize,   \* bytes of a block, the unit of the bitmaps
  Classes,     \* nextFitHistogramClasses: classes of free space below "empty"
  PerPage,     \* freeSpaceInfosPerPage: file pages one info page describes
  InfoPage,    \* freeSpaceInfoPageId: the first page of the info chain
  MinPages,    \* minimumPages: header, first info page, class list
  MaxPages,    \* bound: pages the storage can hold; addPages fails beyond it
  Records,     \* bound: the Record objects of the application
  Lengths      \* bound: the lengths in bytes the application asks for

ASSUME SizesAssumption ==
  /\ PageSize \in Nat \ {0} /\ BlockSize \in Nat \ {0} /\ Classes \in Nat \ {0}
  /\ BlockSize * (PageSize \div BlockSize) = PageSize
  /\ Classes * (PageSize \div Classes) = PageSize    \* init(), Hybrid.c:220

ASSUME LayoutAssumption ==
  /\ PerPage \in Nat /\ MinPages \in Nat /\ MaxPages \in Nat
  /\ InfoPage \in 0 .. MinPages - 1
  /\ MinPages < PerPage       \* a fresh file needs one info page
  /\ 3 <= PerPage             \* an info page holds more than itself
  /\ MinPages <= MaxPages

ASSUME LengthsAssumption == Lengths \subseteq Nat \ {0}

BlocksPerPage == PageSize \div BlockSize
ClassSize     == PageSize \div Classes
Blocks        == 0 .. BlocksPerPage - 1
PageIds       == 0 .. MaxPages - 1
ClassIds      == 1 .. Classes
System        == 0 .. MinPages - 1  \* pages createStructure marks used
NoId          == -1                 \* ListPage.NO_MORE_PAGES, empty witness
NoPage        == -2                 \* HistogramNoPage
NoWitness     == -1                 \* HistogramNoWitness
NoUsage       == [p \in PageIds |-> {}]

VARIABLES
  file,         \* pages in the PagedFile
  chain,        \* freeSpaceInfo[].pageId: the info chain in memory
  bits,         \* freeSpaceInfo[].data: the used blocks of every page
  dirty,        \* indexes (from 0) of info pages changed since written
  disk,         \* what each page of the file holds, read as an info page
  hist,         \* counts[] and witnesses[]
  lastAcquired, \* where the next scan starts
  call,         \* the acquireRecord in progress, or why there will be none
  holders,      \* how many holders acquirePage has given each page to
  usage,        \* the blocks of every record, page by page
  len           \* the length each live record was acquired with, 0: none

vars == <<file, chain, bits, dirty, disk, hist, lastAcquired, call, holders,
          usage, len>>

Idle   == [mode |-> "idle"]
(* addFreeSpaceInfoPages failed inside freeSpaceInfoUpdate, which then calls
   itself again for ever: the call never returns. *)
Hung   == [mode |-> "hung"]
(* Bitmap bytes outside the page's own were read or written. *)
Broken == [mode |-> "broken"]

ChainPages == {chain[i] : i \in DOMAIN chain}
Cover(ch)  == PerPage * Len(ch)
InfoOf(p)  == p \div PerPage

-----------------------------------------------------------------------------
(* The histogram.  Class 0 (less free space than ClassSize) is left out: a   *)
(* search starts at class 1 or above, so its count and witness are never     *)
(* read.                                                                     *)

FreeBytes(b) == BlockSize * Cardinality(Blocks \ b)
ClassFor(f)  == f \div ClassSize

(* Fault: the witness is left behind. *)
Forget_fault(h, id, f) ==
  [h EXCEPT !.counts = [c \in ClassIds |->
                          IF c = ClassFor(f) THEN @[c] - 1 ELSE @[c]]]

Forget(h, id, f) ==
  [counts  |-> [c \in ClassIds |->
                  IF c = ClassFor(f) THEN h.counts[c] - 1 ELSE h.counts[c]],
   witness |-> [c \in ClassIds |->
                  IF c = ClassFor(f) /\ h.witness[c] = id
                  THEN NoId ELSE h.witness[c]]]

Learn(h, id, f) ==
  [counts  |-> [c \in ClassIds |->
                  IF c = ClassFor(f) THEN h.counts[c] + 1 ELSE h.counts[c]],
   witness |-> [c \in ClassIds |->
                  IF c = ClassFor(f) THEN id ELSE h.witness[c]]]

Moved(h, id, old, new) == Learn(Forget(h, id, old), id, new)

(* The first class whose every page has room for need bytes. *)
FirstClass(need) ==
  IF ClassFor(need) = Classes THEN Classes ELSE ClassFor(need) + 1

GetWitness(need) ==
  LET busy == {c \in FirstClass(need) .. Classes : hist.counts[c] > 0}
      seen == {c \in busy : hist.witness[c] # NoId}
  IN IF seen # {}
     THEN hist.witness[CHOOSE c \in seen : \A d \in seen : c <= d]
     ELSE IF busy = {} THEN NoPage ELSE NoWitness

-----------------------------------------------------------------------------
(* The info chain.                                                           *)

(* Fault: > for >=, a page too late. *)
Settled_fault(n) ==
  IF n <= Cover(chain) \/ n >= MaxPages
  THEN [ok |-> TRUE, file |-> n, chain |-> chain]
  ELSE [ok |-> TRUE, file |-> n + 1, chain |-> Append(chain, n)]

(* freeSpaceInfoUpdate for a file that now has n pages.  Its shrinking branch
   is not modelled: InfoPagesFit says its condition is never met. *)
Settled(n) ==
  IF n < Cover(chain) THEN [ok |-> TRUE, file |-> n, chain |-> chain]
  ELSE IF n < MaxPages
       THEN [ok |-> TRUE, file |-> n + 1, chain |-> Append(chain, n)]
       ELSE [ok |-> FALSE, file |-> n, chain |-> chain]

(* The bitmaps with the pages of the chain marked used. *)
WithInfo(b, ch) ==
  [p \in PageIds |-> IF \E i \in DOMAIN ch : ch[i] = p THEN Blocks ELSE b[p]]

(* Fault: a new info page is not marked dirty. *)
NewInfo_fault(ch) == {}

(* Fault: one index too many. *)
NewInfo_fault2(ch) == Len(chain) .. Len(ch)

(* The info pages a settled chain has added are dirty. *)
NewInfo(ch) == (Len(chain) .. Len(ch) - 1)

ZeroImage == [next |-> 0, data |-> [o \in 0 .. PerPage - 1 |-> {}]]

(* Fault: an info page is linked only to a page written with it. *)
Written_fault(b, ds) ==
  [p \in PageIds |->
    IF \E i \in ds : chain[i + 1] = p
    THEN LET i == CHOOSE k \in ds : chain[k + 1] = p
         IN [next |-> IF i + 1 \in ds THEN chain[i + 2] ELSE NoId,
             data |-> [o \in 0 .. PerPage - 1 |->
                         IF PerPage * i + o \in PageIds
                         THEN b[PerPage * i + o] ELSE {}]]
    ELSE disk[p]]

(* freeSpaceInfoCommit: only dirty info pages are written, each with the id
   of the one after it. *)
Written(b, ds) ==
  [p \in PageIds |->
    IF \E i \in ds : chain[i + 1] = p
    THEN LET i == CHOOSE k \in ds : chain[k + 1] = p
         IN [next |-> IF i + 1 < Len(chain) THEN chain[i + 2] ELSE NoId,
             data |-> [o \in 0 .. PerPage - 1 |->
                         IF PerPage * i + o \in PageIds
                         THEN b[PerPage * i + o] ELSE {}]]
    ELSE disk[p]]

-----------------------------------------------------------------------------
(* acquirePage and releasePage.                                              *)

(* The first page of S met by a scan of n pages that starts at lastAcquired. *)
NextFrom(S, n) ==
  CHOOSE p \in S : \A q \in S : (p - lastAcquired) % n <= (q - lastAcquired) % n

EmptyPages(n) == {p \in 0 .. n - 1 : bits[p] = {}}

Stop(why) ==
  /\ call' = why
  /\ UNCHANGED <<chain, bits, dirty, disk, lastAcquired, holders, usage, len>>

(* The end of acquirePage: page id goes to the caller; the file has n pages
   by now and the histogram is h. *)
GivePage(id, n, h) ==
  LET s == Settled(n) IN
  /\ hist' = h
  /\ file' = s.file
  /\ IF s.ok
     THEN /\ chain' = s.chain
          /\ bits' = [WithInfo(bits, s.chain) EXCEPT ![id] = Blocks]
          /\ dirty' = dirty \cup NewInfo(s.chain) \cup {InfoOf(id)}
          /\ lastAcquired' = (id + 1) % file
          /\ holders' = [holders EXCEPT ![id] = @ + 1]
          /\ UNCHANGED <<disk, call, usage, len>>
     ELSE Stop(Hung)

PageByWitness ==
  LET id == GetWitness(PageSize) IN
  /\ call = Idle
  /\ id \in PageIds
  /\ GivePage(id, file, Moved(hist, id, PageSize, 0))

(* Fault: a page found by the scan stays counted as empty. *)
PageByScan_fault ==
  /\ call = Idle
  /\ GetWitness(PageSize) = NoWitness
  /\ IF EmptyPages(file) = {}
     THEN Stop(Broken) /\ UNCHANGED <<file, hist>>
     ELSE GivePage(NextFrom(EmptyPages(file), file), file, hist)

(* A scan that finds nothing leaves -1 as the page id, whose bits are in
   front of the bitmap. *)
PageByScan ==
  /\ call = Idle
  /\ GetWitness(PageSize) = NoWitness
  /\ IF EmptyPages(file) = {}
     THEN Stop(Broken) /\ UNCHANGED <<file, hist>>
     ELSE LET id == NextFrom(EmptyPages(file), file)
          IN GivePage(id, file, Moved(hist, id, PageSize, 0))

(* The new page stays out of the histogram: its class is 0 by now.  With the
   storage full acquirePage returns ACQUIRE_FAILED and changes nothing. *)
PageByGrowth ==
  /\ call = Idle
  /\ GetWitness(PageSize) = NoPage
  /\ file < MaxPages
  /\ GivePage(file, file + 1, hist)

AcquirePage == PageByWitness \/ PageByScan \/ PageByGrowth

(* Fault: the page above the empty tail goes with it. *)
EmptyTail_fault(b, n) == {p \in 0 .. n - 1 : \A q \in p + 1 .. n - 1 : b[q] = {}}

(* Fault: if for while, one page at most. *)
EmptyTail_fault2(b, n) == {p \in {n - 1} : b[p] = {}}

(* The pages removeEmptyPages cuts off a file of n pages with bitmaps b. *)
EmptyTail(b, n) == {p \in 0 .. n - 1 : \A q \in p .. n - 1 : b[q] = {}}

(* Fault: pages cut off stay in the histogram. *)
WithoutTail_fault(h, tail) == h

WithoutTail(h, tail) ==
  [counts  |-> [h.counts EXCEPT ![Classes] = @ - Cardinality(tail)],
   witness |-> [h.witness EXCEPT ![Classes] = IF @ \in tail THEN NoId ELSE @]]

(* Fault: the released page is not put back in the histogram. *)
ReleasePage_fault(id) ==
  /\ call = Idle
  /\ holders[id] > 0
  /\ holders' = [holders EXCEPT ![id] = @ - 1]
  /\ bits' = [bits EXCEPT ![id] = {}]
  /\ dirty' = dirty \cup {InfoOf(id)}
  /\ UNCHANGED <<file, hist, chain, disk, lastAcquired, call, usage, len>>

(* The caller gives back a page it holds.  The call to freeSpaceInfoUpdate
   after the cut finds nothing to do (InfoPagesFit). *)
ReleasePage(id) ==
  LET b    == [bits EXCEPT ![id] = {}]
      tail == EmptyTail(b, file)
  IN
  /\ call = Idle
  /\ holders[id] > 0
  /\ holders' = [holders EXCEPT ![id] = @ - 1]
  /\ bits' = b
  /\ dirty' = dirty \cup {InfoOf(id)}
  /\ hist' = WithoutTail(Moved(hist, id, 0, PageSize), tail)
  /\ file' = file - Cardinality(tail)
  /\ UNCHANGED <<chain, disk, lastAcquired, call, usage, len>>

-----------------------------------------------------------------------------
(* acquireRecord.                                                            *)

Least(x, y) == IF x < y THEN x ELSE y

(* Fault: blocks in use are taken too. *)
Reserve_fault(free, length) == {b \in Blocks : BlockSize * b < length}

(* Fault: one block more when the length is whole blocks. *)
Reserve_fault2(free, length) ==
  {b \in free : BlockSize * Cardinality({c \in free : c < b}) <= length}

(* reserveBlocks takes free blocks from the first one on, until it has length
   bytes. *)
Reserve(free, length) ==
  {b \in free : BlockSize * Cardinality({c \in free : c < b}) < length}

(* What reserveBlocks returns: with nothing to take it still counts a block. *)
ReservedBytes(blocks, length) ==
  IF length > 0 THEN BlockSize * Cardinality(blocks) ELSE BlockSize

(* The loop variables of acquireRecordNF for a record of l bytes. *)
Begin(r, l, n) ==
  LET chunks == (l + PageSize - 1) \div PageSize IN
  [mode |-> "record", rec |-> r, len |-> l, left |-> l, chunks |-> chunks,
   spare |-> chunks * PageSize - l, pages |-> n, usage |-> NoUsage]

(* The record is one whose usage is clear; its length is at most
   maxRecordSize, the size of the buffer it was written to. *)
StartRecord(r, l) ==
  /\ call = Idle
  /\ len[r] = 0
  /\ call' = Begin(r, l, file)
  /\ UNCHANGED <<file, chain, bits, dirty, disk, hist, lastAcquired, holders,
                 usage, len>>

InRecord == call.mode = "record"
Need     == PageSize - call.spare

(* One chunk: the record gets blocks of page id, which has free bytes. *)
NextChunk(id, free) ==
  LET reserved == Least(call.left, free)
  IN [call EXCEPT !.chunks = @ - 1,
                  !.left   = @ - reserved,
                  !.spare  = @ - (PageSize - reserved),
                  !.usage  = [call.usage EXCEPT ![id] =
                                @ \cup Reserve(Blocks \ bits[id], reserved)]]

FreeAfter(id, free) ==
  LET reserved == Least(call.left, free)
  IN free - ReservedBytes(Reserve(Blocks \ bits[id], reserved), reserved)

ChunkByWitness ==
  LET id   == GetWitness(Need)
      free == FreeBytes(bits[id])
  IN
  /\ InRecord /\ call.chunks > 0
  /\ id \in PageIds
  /\ call' = NextChunk(id, free)
  /\ hist' = Moved(hist, id, free, FreeAfter(id, free))
  /\ UNCHANGED <<file, chain, bits, dirty, disk, lastAcquired, holders, usage,
                 len>>

(* The scan covers the pages the file had when the call began, and reads the
   bitmaps, which do not show yet what this call has reserved.  If no page
   will do, the chunk is skipped. *)
ChunkByScan ==
  LET found == {p \in 0 .. call.pages - 1 : FreeBytes(bits[p]) >= Need}
      id    == NextFrom(found, call.pages)
      free  == FreeBytes(bits[id])
  IN
  /\ InRecord /\ call.chunks > 0
  /\ GetWitness(Need) = NoWitness
  /\ IF found = {}
     THEN /\ call' = [call EXCEPT !.chunks = @ - 1]
          /\ UNCHANGED <<hist, lastAcquired>>
     ELSE /\ call' = NextChunk(id, free)
          /\ hist' = Moved(hist, id, free, FreeAfter(id, free))
          /\ lastAcquired' = (id + 1) % call.pages
  /\ UNCHANGED <<file, chain, bits, dirty, disk, holders, usage, len>>

(* A new page is taken to be empty.  When the storage is full the call
   returns false: the bitmaps show nothing of it, and the caller drops the
   record. *)
ChunkByGrowth ==
  LET s == Settled(file + 1)
      b == WithInfo(bits, s.chain)
  IN
  /\ InRecord /\ call.chunks > 0
  /\ GetWitness(Need) = NoPage
  /\ IF file = MaxPages
     THEN /\ call' = Idle
          /\ UNCHANGED <<file, chain, bits, dirty, disk, hist, lastAcquired,
                         holders, usage, len>>
     ELSE /\ file' = s.file
          /\ IF s.ok /\ FreeBytes(b[file]) >= Least(call.left, PageSize)
             THEN /\ chain' = s.chain
                  /\ bits' = b
                  /\ dirty' = dirty \cup NewInfo(s.chain)
                  /\ call' = NextChunk(file, PageSize)
                  /\ hist' = Learn(hist, file, FreeAfter(file, PageSize))
                  /\ UNCHANGED <<disk, lastAcquired, holders, usage, len>>
             ELSE Stop(IF s.ok THEN Broken ELSE Hung) /\ UNCHANGED hist

(* setRecordUsed, and the call returns true. *)
FinishRecord ==
  /\ InRecord /\ call.chunks = 0
  /\ bits' = [p \in PageIds |-> bits[p] \cup call.usage[p]]
  /\ dirty' = dirty \cup {InfoOf(p) : p \in {q \in PageIds : call.usage[q] # {}}}
  /\ usage' = [usage EXCEPT ![call.rec] = call.usage]
  /\ len' = [len EXCEPT ![call.rec] = call.len]
  /\ call' = Idle
  /\ UNCHANGED <<file, chain, disk, hist, lastAcquired, holders>>

-----------------------------------------------------------------------------
(* releaseRecord, reacquireRecord and commit.                                *)

(* The histogram after the pages in ps have gone from the free space in old
   to that in new, one after the other.  The order, the order of the record's
   slots, decides which page is left as the witness of a class: any may be. *)
MovedAll(h, ps, old, new) ==
  LET left(c)  == {p \in ps : ClassFor(FreeBytes(old[p])) = c}
      enter(c) == {p \in ps : ClassFor(FreeBytes(new[p])) = c}
      kept(c)  == IF h.witness[c] \in left(c) THEN NoId ELSE h.witness[c]
  IN {[counts  |-> [c \in ClassIds |-> h.counts[c] - Cardinality(left(c))
                                       + Cardinality(enter(c))],
       witness |-> w] :
      w \in {f \in [ClassIds -> PageIds \cup {NoId}] :
               \A c \in ClassIds : IF enter(c) = {} THEN f[c] = kept(c)
                                   ELSE f[c] \in enter(c)}}

DropRecord(r) ==
  LET b    == [p \in PageIds |-> bits[p] \ usage[r][p]]
      ps   == {p \in PageIds : usage[r][p] # {}}
      tail == EmptyTail(b, file)
  IN
  /\ call = Idle
  /\ len[r] > 0
  /\ bits' = b
  /\ \E h \in MovedAll(hist, ps, bits, b) : hist' = WithoutTail(h, tail)
  /\ file' = file - Cardinality(tail)
  /\ disk' = Written(b, dirty \cup {InfoOf(p) : p \in ps})
  /\ dirty' = {}
  /\ usage' = [usage EXCEPT ![r] = NoUsage]

ReleaseRecord(r) ==
  /\ DropRecord(r)
  /\ len' = [len EXCEPT ![r] = 0]
  /\ UNCHANGED <<chain, lastAcquired, call, holders>>

(* releaseRecord, clearUsage, and the first step of acquireRecord. *)
ReacquireRecord(r, l) ==
  /\ DropRecord(r)
  /\ len' = [len EXCEPT ![r] = 0]
  /\ call' = Begin(r, l, file')
  /\ UNCHANGED <<chain, lastAcquired, holders>>

Commit ==
  /\ call = Idle
  /\ disk' = Written(bits, dirty)
  /\ dirty' = {}
  /\ UNCHANGED <<file, chain, bits, hist, lastAcquired, call, holders, usage,
                 len>>

-----------------------------------------------------------------------------

(* What createStructure leaves: create() has written an info page that knows
   only itself, setPageUsed has marked the other system pages since. *)
Init ==
  /\ file = MinPages
  /\ chain = <<InfoPage>>
  /\ bits = [p \in PageIds |-> IF p \in System THEN Blocks ELSE {}]
  /\ dirty = {0}
  /\ disk = [p \in PageIds |->
               IF p = InfoPage
               THEN [next |-> NoId,
                     data |-> [o \in 0 .. PerPage - 1 |->
                                 IF o = InfoPage THEN Blocks ELSE {}]]
               ELSE ZeroImage]
  /\ hist = [counts  |-> [c \in ClassIds |-> 0],
             witness |-> [c \in ClassIds |-> NoId]]
  /\ lastAcquired = 0
  /\ call = Idle
  /\ holders = [p \in PageIds |-> 0]
  /\ usage = [r \in Records |-> NoUsage]
  /\ len = [r \in Records |-> 0]

Next ==
  \/ AcquirePage
  \/ \E p \in PageIds : ReleasePage(p)
  \/ \E r \in Records, l \in Lengths : StartRecord(r, l)
  \/ ChunkByWitness
  \/ ChunkByScan
  \/ ChunkByGrowth
  \/ FinishRecord
  \/ \E r \in Records : ReleaseRecord(r)
  \/ \E r \in Records, l \in Lengths : ReacquireRecord(r, l)
  \/ Commit

Spec == Init /\ [][Next]_vars

-----------------------------------------------------------------------------
(* Properties.  Those marked (1) are about records of at most one page.      *)

(* Every variable keeps its type. *)
TypeOK ==
  /\ file \in MinPages .. MaxPages
  /\ chain \in Seq(PageIds)
  /\ bits \in [PageIds -> SUBSET Blocks]
  /\ dirty \subseteq 0 .. Len(chain) - 1
  /\ DOMAIN disk = PageIds
  /\ hist.counts \in [ClassIds -> Int]
  /\ hist.witness \in [ClassIds -> PageIds \cup {NoId}]
  /\ lastAcquired \in 0 .. MaxPages
  /\ call.mode \in {"idle", "hung", "broken", "record"}
  /\ holders \in [PageIds -> Nat]
  /\ usage \in [Records -> [PageIds -> SUBSET Blocks]]
  /\ len \in [Records -> Nat]

(* (1) No block has two owners: a system page, a page of the info chain, a   *)
(* page acquirePage gave out, or a record.  acquirePage and acquireRecord    *)
(* find their pages through a histogram that only summarises the bitmaps.    *)
OwnersDisjoint ==
  /\ \A p \in PageIds :
       \/ holders[p] = 0
       \/ holders[p] = 1 /\ p \notin System \cup ChainPages
  /\ \A r \in Records, p \in PageIds :
       usage[r][p] # {} => holders[p] = 0 /\ p \notin System \cup ChainPages
  /\ \A r, s \in Records, p \in PageIds :
       r # s => usage[r][p] \cap usage[s][p] = {}

(* (1) What somebody owns lies inside the file and is marked in the bitmaps, *)
(* so that neither a scan nor the cut of the empty tail can take it away.    *)
OwnedAreUsed ==
  /\ \A p \in PageIds :
       p \in System \cup ChainPages \/ holders[p] > 0
         => p < file /\ bits[p] = Blocks
  /\ \A r \in Records, p \in PageIds :
       usage[r][p] # {} => p < file /\ usage[r][p] \subseteq bits[p]

(* The blocks of page p in use, those of the call in progress included. *)
Taken(p) == bits[p] \cup IF InRecord THEN call.usage[p] ELSE {}
InClass(c) == {p \in 0 .. file - 1 : ClassFor(FreeBytes(Taken(p))) = c}

(* (1) The histogram, updated by differences on every path, agrees with the  *)
(* bitmaps: each count is the number of pages of its class and each witness  *)
(* is such a page, also between two chunks and after pages were cut off.     *)
HistogramTrue ==
  call.mode \in {"idle", "record"} =>
    \A c \in ClassIds :
      /\ hist.counts[c] = Cardinality(InClass(c))
      /\ hist.witness[c] # NoId => hist.witness[c] \in InClass(c)

(* (1) A live record has the blocks its length needs and no more, whatever   *)
(* holes the page had that reserveBlocks took them from.                     *)
RecordSize(r) ==
  BlockSize * Cardinality({x \in PageIds \X Blocks : x[2] \in usage[r][x[1]]})

RecordLength ==
  \A r \in Records :
    len[r] > 0 =>
      RecordSize(r) = BlockSize * ((len[r] + BlockSize - 1) \div BlockSize)

(* The chain describes every page of the file and its last page is needed:   *)
(* an info page lies in the part it describes and stays used, so releasing   *)
(* pages never makes freeSpaceInfoUpdate shrink the chain.                   *)
InfoPagesFit ==
  call.mode # "hung" => Cover(chain) - PerPage < file /\ file < Cover(chain)

(* (1) Between calls the file ends with a page in use, as removeEmptyPages   *)
(* promises after a release: a failed acquireRecord leaves no page behind.   *)
FileTrimmed == call = Idle => bits[file - 1] # {}

(* (1) With nothing dirty, a load that walks the chain on disk gets back the *)
(* chain and the bitmaps, although only changed info pages are written and   *)
(* an info page on disk names the next one.                                  *)
ChainOn(d) ==
  LET walk[n \in 0 .. MaxPages] ==
        IF n = 0 THEN <<InfoPage>>
        ELSE LET s == walk[n - 1] IN
             IF d[s[Len(s)]].next = NoId THEN s
             ELSE Append(s, d[s[Len(s)]].next)
  IN walk[MaxPages]

BitsOn(d) ==
  LET ch == ChainOn(d) IN
  [p \in PageIds |-> IF p < Cover(ch) THEN d[ch[InfoOf(p) + 1]].data[p % PerPage]
                     ELSE {}]

CommittedImage ==
  dirty = {} => ChainOn(disk) = chain /\ BitsOn(disk) = bits

(* (1) When every counted page of the classes that would do has lost its     *)
(* witness, the scan finds a page: acquirePage never goes on with page -1.   *)
NoHeapDamage == call.mode # "broken"

(* (1) The file grows only when no page is left in the classes a search      *)
(* covers; the histogram forgets no empty page for good.                     *)
GrowsOnlyWhenNeeded ==
  [][file' > file =>
       \A p \in 0 .. file - 1 :
         ClassFor(FreeBytes(Taken(p))) <
           FirstClass(IF InRecord THEN Need ELSE PageSize)]_vars

(* The policy implements the abstract allocator: each call takes blocks that *)
(* nobody has or gives back exactly what its caller has.                     *)
Held == {p \in PageIds : p \in System \cup ChainPages \/ holders[p] > 0}

Allocator == INSTANCE BlockAllocator WITH
  Pages <- PageIds, Fixed <- System \cup {InfoPage}, held <- Held, owned <- usage

AllocatorSpec == Allocator!Spec
=============================================================================
