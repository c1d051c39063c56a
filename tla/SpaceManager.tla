---------------------------- MODULE SpaceManager ----------------------------
(***************************************************************************)
(* The bitmaps of used blocks that the AppendOnly policy works on:         *)
(* jni/space/SpaceManagerNative.c.  Every operation of the C code is an    *)
(* operator from the state of the manager to its next state: a record s    *)
(* with                                                                    *)
(*   room   the pages the storage has room for                             *)
(*   file   the pages in the PagedFile                                     *)
(*   chain  freeSpaceInfo[].pageId, the info pages in memory               *)
(*   bits   freeSpaceInfo[].data, the used blocks of every page            *)
(*   dirty  the indexes (from 0) of info pages changed since written       *)
(*   disk   what each page of the file holds, read as an info page         *)
(*   hung   update() has begun to call itself for ever                     *)
(***************************************************************************)
EXTENDS Integers, Sequences, FiniteSets

CONSTANTS
  PageSize,    \* bytes of a page
  BlockSize,   \* bytes of a block
  PerPage,     \* freeSpaceInfosPerPage: file pages one info page describes
  InfoPage,    \* pageFreeSpaceInfo: the first page of the chain
  MinPages,    \* minimumPages
  MaxPages     \* bound: pages of the largest storage

ASSUME LayoutAssumption ==
  /\ PageSize \in Nat \ {0} /\ BlockSize \in Nat \ {0}
  /\ BlockSize * (PageSize \div BlockSize) = PageSize
  /\ PerPage \in Nat /\ MinPages \in Nat /\ MaxPages \in Nat
  /\ InfoPage \in 0 .. MinPages - 1
  /\ MinPages < PerPage /\ MinPages <= MaxPages

Blocks  == 0 .. PageSize \div BlockSize - 1
PageIds == 0 .. MaxPages - 1
System  == 0 .. MinPages - 1        \* pages createStructure marks used
NoId    == -1                       \* ListPage.NO_MORE_PAGES

Cover(s)  == PerPage * Len(s.chain) \* currentPages
InfoOf(p) == p \div PerPage         \* getFreeSpaceInfoPage
ZeroImage == [next |-> 0, data |-> [o \in 0 .. PerPage - 1 |-> {}]]

-----------------------------------------------------------------------------

(* A page the chain does not describe counts as free. *)
IsPageUsed(s, id) == InfoOf(id) < Len(s.chain) /\ s.bits[id] # {}

IsBlockUsed(s, id, b) == b \in s.bits[id]

FreeSpaceOnPage(s, id) == BlockSize * Cardinality(Blocks \ s.bits[id])

(* Fault: the info page is not marked dirty. *)
SetPageUsed_fault(s, id, used) ==
  [s EXCEPT !.bits[id] = IF used THEN Blocks ELSE {}]

SetPageUsed(s, id, used) ==
  [s EXCEPT !.bits[id] = IF used THEN Blocks ELSE {},
            !.dirty = @ \cup {InfoOf(id)}]

(* setRecordUsed for a record with the blocks usage, page by page. *)
SetRecordUsed(s, usage, used) ==
  [s EXCEPT !.bits = [p \in PageIds |-> IF used THEN @[p] \cup usage[p]
                                        ELSE @[p] \ usage[p]],
            !.dirty = @ \cup {InfoOf(p) : p \in {q \in PageIds : usage[q] # {}}}]

(* addPages: n info pages at the end of the file, and nothing when the
   storage is full. *)
AddPages(s, n) ==
  IF s.file + n > s.room THEN s
  ELSE LET new == s.file .. s.file + n - 1 IN
       [s EXCEPT
          !.file  = @ + n,
          !.chain = @ \o [i \in 1 .. n |-> s.file + i - 1],
          !.bits  = [p \in PageIds |-> IF p \in new THEN Blocks ELSE @[p]],
          !.dirty = @ \cup (Len(s.chain) .. Len(s.chain) + n - 1)
                      \cup {InfoOf(p) : p \in new}]

(* removePages: the last n info pages. *)
RemovePages(s, n) ==
  LET left == Len(s.chain) - n
      cut  == {s.chain[i] : i \in left + 1 .. Len(s.chain)} IN
  [s EXCEPT
     !.chain = SubSeq(@, 1, left),
     !.bits  = [p \in PageIds |-> IF p \in cut THEN {} ELSE @[p]],
     !.dirty = (@ \cup {InfoOf(p) : p \in cut}) \cap (0 .. left - 1)]

(* Fault: > for >=, a page too late. *)
Update_fault(s) ==
  IF s.file > Cover(s) THEN AddPages(s, (s.file - Cover(s)) \div PerPage + 1)
  ELSE s

(* update: the chain after a change of the file's size.  After a growth the
   code calls update again: that finds nothing to do when the pages were
   added, and calls itself for ever when they were not. *)
Update(s) ==
  IF s.file >= Cover(s)
  THEN LET t == AddPages(s, (s.file - Cover(s)) \div PerPage + 1) IN
       IF t = s THEN [s EXCEPT !.hung = TRUE] ELSE t
  ELSE IF s.file <= Cover(s) - PerPage
       THEN RemovePages(s, (Cover(s) - s.file) \div PerPage)
       ELSE s

(* commit: only dirty info pages are written, each with the id of the one
   after it. *)
Commit(s) ==
  [s EXCEPT
     !.disk = [p \in PageIds |->
       IF \E i \in s.dirty : s.chain[i + 1] = p
       THEN LET i == CHOOSE k \in s.dirty : s.chain[k + 1] = p IN
            [next |-> IF i + 1 < Len(s.chain) THEN s.chain[i + 2] ELSE NoId,
             data |-> [o \in 0 .. PerPage - 1 |->
                         IF PerPage * i + o \in PageIds
                         THEN s.bits[PerPage * i + o] ELSE {}]]
       ELSE @[p]],
     !.dirty = {}]

(* create: the first info page, in a file of MinPages new pages. *)
Create(room) ==
  Commit(Update(SetPageUsed(
    [room  |-> room,
     file  |-> MinPages,
     chain |-> <<InfoPage>>,
     bits  |-> [p \in PageIds |-> {}],
     dirty |-> {},
     disk  |-> [p \in PageIds |-> ZeroImage],
     hung  |-> FALSE], InfoPage, TRUE)))

(* load: the chain is followed from its first page to the page that has no
   next one. *)
Load(s) ==
  LET walk[n \in 0 .. MaxPages] ==
        IF n = 0 THEN <<InfoPage>>
        ELSE LET ch == walk[n - 1]
                 nx == s.disk[ch[Len(ch)]].next
             IN IF nx = NoId THEN ch ELSE Append(ch, nx)
      chain == walk[MaxPages]
  IN [s EXCEPT
        !.chain = chain,
        !.bits  = [p \in PageIds |->
                     IF InfoOf(p) < Len(chain)
                     THEN s.disk[chain[InfoOf(p) + 1]].data[p % PerPage]
                     ELSE {}],
        !.dirty = {}]
=============================================================================
