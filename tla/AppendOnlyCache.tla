--------------------------- MODULE AppendOnlyCache --------------------------
(***************************************************************************)
(* The cache of pages with free space that the AppendOnly policy appends   *)
(* to: jni/space/AppendOnlyCacheNative.c.  It is a doubly linked list in   *)
(* which a new element goes to the front; a full cache gives up its page   *)
(* with the least space for a page with more.                              *)
(***************************************************************************)
EXTENDS Integers, Sequences, SequencesExt

CONSTANTS
  Pages,     \* ids of the pages of the file
  MaxSpace,  \* bound: the most free space a page has
  limit      \* appendOnlyCacheSize

ASSUME CacheAssumption ==
  /\ Pages \subseteq Nat
  /\ MaxSpace \in Nat \ {0}
  /\ limit \in Nat \ {0}

NoPage == -1                      \* NO_PAGE
Spaces == 1 .. MaxSpace
Elements == [id : Pages, freeSpace : Spaces]

VARIABLES
  cache,         \* the elements, from the first one on
  minFreeSpace,  \* the least space when the cache last turned a page down
  space          \* ghost: the free space each page was last updated with

vars == <<cache, minFreeSpace, space>>

CachedIds == {cache[i].id : i \in DOMAIN cache}

-----------------------------------------------------------------------------

(* Fault: > and < mixed up in the comparison of the extra space. *)
Better_fault(i, j, need) ==
  cache[j].freeSpace - need < cache[i].freeSpace - need

(* bestExtraSpace, that of element j, is more than that of element i. *)
Better(i, j, need) ==
  cache[j].freeSpace - need > cache[i].freeSpace - need

(* The best of the first k elements as the loop of getBestId has it after k
   turns: the place of an element, or 0 for NULL. *)
Searched(need) ==
  LET best[k \in 0 .. Len(cache)] ==
        IF k = 0 THEN 0
        ELSE IF /\ cache[k].freeSpace >= need
                /\ best[k - 1] = 0 \/ Better(k, best[k - 1], need)
             THEN k
             ELSE best[k - 1]
  IN best

(* getBestId: one pass over the list. *)
GetBestId(need) ==
  LET best == Searched(need)[Len(cache)] IN
  IF best = 0 THEN NoPage ELSE cache[best].id

(* The first element with the least space, which a full cache gives up. *)
LeastSpace ==
  CHOOSE i \in DOMAIN cache :
    \A j \in DOMAIN cache :
      \/ cache[i].freeSpace < cache[j].freeSpace
      \/ cache[i].freeSpace = cache[j].freeSpace /\ i <= j

Without(i) == SubSeq(cache, 1, i - 1) \o SubSeq(cache, i + 1, Len(cache))

Seen(id, f) == space' = [space EXCEPT ![id] = f]

(* Fault: a page without space stays in the list. *)
UpdateCached_fault(id, f) ==
  /\ id \in CachedIds
  /\ cache' = [i \in DOMAIN cache |->
                 IF cache[i].id = id THEN [cache[i] EXCEPT !.freeSpace = f]
                 ELSE cache[i]]
  /\ Seen(id, f)
  /\ UNCHANGED minFreeSpace

(* Fault: the space of a cached page only shrinks. *)
UpdateCached_fault2(id, f) ==
  /\ id \in CachedIds
  /\ \E i \in DOMAIN cache :
       /\ cache[i].id = id
       /\ cache' = IF f = 0 THEN Without(i)
                   ELSE [cache EXCEPT ![i].freeSpace = IF f < @ THEN f ELSE @]
  /\ Seen(id, f)
  /\ UNCHANGED minFreeSpace

(* update() of a page that is in the list. *)
UpdateCached(id, f) ==
  /\ id \in CachedIds
  /\ \E i \in DOMAIN cache :
       /\ cache[i].id = id
       /\ cache' = IF f = 0 THEN Without(i)
                   ELSE [cache EXCEPT ![i].freeSpace = f]
  /\ Seen(id, f)
  /\ UNCHANGED minFreeSpace

(* A page without space is not put into the list. *)
UpdateFull(id, f) ==
  /\ id \notin CachedIds
  /\ f = 0
  /\ Seen(id, f)
  /\ UNCHANGED <<cache, minFreeSpace>>

(* Fault: <= for <. *)
Insert_fault(id, f) ==
  /\ id \notin CachedIds
  /\ f > 0
  /\ Len(cache) <= limit
  /\ cache' = <<[id |-> id, freeSpace |-> f]>> \o cache
  /\ Seen(id, f)
  /\ UNCHANGED minFreeSpace

Insert(id, f) ==
  /\ id \notin CachedIds
  /\ f > 0
  /\ Len(cache) < limit
  /\ cache' = <<[id |-> id, freeSpace |-> f]>> \o cache
  /\ Seen(id, f)
  /\ UNCHANGED minFreeSpace

(* The cache is full: the comment over the test says the page has less space
   than any in the cache, the test lets through what has no more than
   minFreeSpace. *)
TurnDown(id, f) ==
  /\ id \notin CachedIds
  /\ f > 0
  /\ Len(cache) = limit
  /\ minFreeSpace # -1 /\ f > minFreeSpace
  /\ Seen(id, f)
  /\ UNCHANGED <<cache, minFreeSpace>>

Replace(id, f) ==
  LET least == cache[LeastSpace].freeSpace IN
  /\ id \notin CachedIds
  /\ f > 0
  /\ Len(cache) = limit
  /\ minFreeSpace = -1 \/ f <= minFreeSpace
  /\ IF f <= least
     THEN /\ minFreeSpace' = least
          /\ UNCHANGED cache
     ELSE /\ minFreeSpace' = -1
          /\ cache' = <<[id |-> id, freeSpace |-> f]>> \o Without(LeastSpace)
  /\ Seen(id, f)

(* update(id, freeSpace). *)
Update(id, f) ==
  \/ UpdateCached(id, f)
  \/ UpdateFull(id, f)
  \/ Insert(id, f)
  \/ TurnDown(id, f)
  \/ Replace(id, f)

Init ==
  /\ cache = <<>>
  /\ minFreeSpace = -1
  /\ space = [p \in Pages |-> 0]

Next == \E id \in Pages, f \in 0 .. MaxSpace : Update(id, f)

Spec == Init /\ [][Next]_vars

-----------------------------------------------------------------------------
(* Properties.                                                               *)

(* Every variable keeps its type. *)
TypeOK ==
  /\ cache \in Seq(Elements)
  /\ minFreeSpace \in {-1} \cup Spaces
  /\ space \in [Pages -> 0 .. MaxSpace]

(* The list never has more than limit elements, nor two of one page, on any  *)
(* path of update; getFreeSpace and update stop at the first match.          *)
CacheBounded ==
  /\ Len(cache) <= limit
  /\ \A i, j \in DOMAIN cache : cache[i].id = cache[j].id => i = j

(* A cached page is cached with the space it was last updated with: what     *)
(* acquireRecord of AppendOnly reserves there without another look.          *)
CacheTrue == \A i \in DOMAIN cache : cache[i].freeSpace = space[cache[i].id]

(* The one pass of getBestId misses nothing: the page it offers was last      *)
(* updated with the space asked for, no listed page fits better, and none is  *)
(* offered only if no listed page has the space.                             *)
OffersFit ==
  \A need \in Spaces :
    LET id == GetBestId(need) IN
    IF id = NoPage THEN \A p \in CachedIds : space[p] < need
    ELSE /\ space[id] >= need
         /\ \A p \in CachedIds : space[p] >= need => space[p] >= space[id]
=============================================================================
