------------------------------- MODULE BTree --------------------------------
(***************************************************************************)
(* The index of a class: jni/btree/BTree.cpp with BTreeLeaf.cpp,           *)
(* BTreeNode.cpp, ChildInfo.cpp, RecordInfo.cpp and PageIds.cpp.  A leaf   *)
(* maps record ids to records, a node maps the least id of each child to   *)
(* the child; both keep their entries in an AVLTree, of which AVLTree.tla  *)
(* shows that it is the ordered map used here.  Sizes are in words of four *)
(* bytes.                                                                  *)
(***************************************************************************)
EXTENDS Integers, Sequences, FiniteSets, FiniteSetsExt, Functions, SequencesExt, TLC

CONSTANTS
  MaxId,           \* bound: ids are 0 .. MaxId
  Lengths,         \* RecordInfo.length: 2 + 2 * pages used
  leafCapacity,    \* bTreeLeafCapacity
  nodeCapacity,    \* bTreeNodeCapacity
  PageSize,
  SplitRootLeaf    \* bound: whether an update may split a leaf that is the root

Header == 4            \* type, minId, freeSpace, count
RecordCost == 5        \* an AVL node with a NULL pointer
ChildCost == 6         \* the same, with the id of the child's page
FirstCost == 1         \* the second NULL pointer of the first AVL node

ASSUME BTreeAssumption ==
  /\ MaxId \in Nat /\ Lengths \subseteq Nat
  /\ nodeCapacity >= Header + FirstCost + 2 * ChildCost
  /\ \A len \in Lengths : 2 * (RecordCost + len) <= leafCapacity - Header
  /\ PageSize >= leafCapacity + Header /\ PageSize >= nodeCapacity + Header
  /\ SplitRootLeaf \in BOOLEAN

Ids == 0 .. MaxId
NoId == -1             \* the minId of an element without entries; no id
Null == 0
KlassIndexPage == 1    \* klassIndexPageId

VARIABLES
  tree,      \* [root, e: the elements]
  pageIds,   \* PageIds.ids
  index      \* ghost: the length of the record last stored under each id

vars == <<tree, pageIds, index>>

Keys == INSTANCE OrderedMap WITH keys <- DOMAIN index

Empty == [root |-> Null, e |-> << >>]
NoEntries == [id \in {} |-> Null]
Entries(t, x) == t.e[x].entries
MinId(t, x) == t.e[x].minId
Parent(t, x) == t.e[x].parent

(* The constructors of BTreeLeaf and BTreeNode, at a place of the heap that
   is free. *)
Fresh(t) == CHOOSE x \in 1 .. Cardinality(DOMAIN t.e) + 1 : x \notin DOMAIN t.e

NewElement(type) ==
  [type |-> type, parent |-> Null, minId |-> NoId, count |-> 0,
   free |-> (IF type = "leaf" THEN leafCapacity ELSE nodeCapacity) - Header,
   entries |-> NoEntries]

New(t, type) == [t EXCEPT !.e = (Fresh(t) :> NewElement(type)) @@ @]

Delete(t, x) == [t EXCEPT !.e = Restrict(@, DOMAIN @ \ {x})]

-----------------------------------------------------------------------------
(* Entries of an element.                                                  *)

Without(f, key) == Restrict(f, DOMAIN f \ {key})

Cost(t, x, content) ==
  IF t.e[x].type = "leaf" THEN RecordCost + content ELSE ChildCost

(* Fault: the AVL node around a record is not counted. *)
Fits_fault(t, x, content) == t.e[x].free >= content

Fits(t, x, content) == t.e[x].free >= Cost(t, x, content)

(* updateChild: the key of a child changes, and with it the least key of its
   parents. *)
RECURSIVE UpdateChild(_, _, _, _)
UpdateChild(t, n, old, new) ==
  IF n = Null THEN t
  ELSE IF old \notin DOMAIN Entries(t, n) THEN t
  ELSE LET entries == (new :> Entries(t, n)[old]) @@ Without(Entries(t, n), old)
           least == Keys!Lowest(DOMAIN entries)
           t1 == [t EXCEPT !.e[n].entries = entries, !.e[n].minId = least]
       IN IF least = MinId(t, n) THEN t1
          ELSE UpdateChild(t1, Parent(t, n), MinId(t, n), least)

(* BTreeLeaf.add and BTreeNode.addChild, of an entry that fits. *)
Enter(t, x, key, content) ==
  LET first == t.e[x].count = 0
      lowest == key < MinId(t, x) \/ MinId(t, x) = NoId
      t1 == IF lowest
            THEN [UpdateChild(t, Parent(t, x), MinId(t, x), key)
                    EXCEPT !.e[x].minId = key]
            ELSE t
      t2 == [t1 EXCEPT !.e[x].count = @ + 1,
                       !.e[x].free = @ - Cost(t, x, content)
                                       - (IF first THEN FirstCost ELSE 0),
                       !.e[x].entries = (key :> content) @@ @]
  IN IF t.e[x].type = "leaf" THEN t2 ELSE [t2 EXCEPT !.e[content].parent = x]

(* An entry is taken out of an element, whose minId is not yet true. *)
Extract(t, x, key) ==
  LET last == t.e[x].count = 1 IN
  [t EXCEPT !.e[x].count = @ - 1,
            !.e[x].free = @ + Cost(t, x, Entries(t, x)[key])
                            + (IF last THEN FirstCost ELSE 0),
            !.e[x].entries = Without(@, key)]

(* Fault: the parent is not told. *)
Settle_fault(t, x) ==
  [t EXCEPT !.e[x].minId = Keys!Lowest(DOMAIN Entries(t, x))]

(* minId becomes the least key, and the parent hears of it. *)
Settle(t, x) ==
  LET least == Keys!Lowest(DOMAIN Entries(t, x)) IN
  UpdateChild([t EXCEPT !.e[x].minId = least], Parent(t, x), MinId(t, x), least)

(* BTreeLeaf.remove and BTreeNode.removeChild. *)
Drop(t, x, key) ==
  IF key \notin DOMAIN Entries(t, x) THEN t
  ELSE IF key = MinId(t, x) THEN Settle(Extract(t, x, key), x)
  ELSE Extract(t, x, key)

(* BTreeLeaf.split and BTreeNode.split: the least entries move to y, until
   half of it is taken. *)
RECURSIVE MoveLeast(_, _, _, _)
MoveLeast(t, x, y, target) ==
  IF t.e[y].free <= target THEN t
  ELSE LET key == Keys!Lowest(DOMAIN Entries(t, x)) IN
       MoveLeast(Enter(Extract(t, x, key), y, key, Entries(t, x)[key]), x, y, target)

Split(t, x, y) == Settle(MoveLeast(t, x, y, t.e[y].free \div 2), x)

-----------------------------------------------------------------------------
(* The tree.                                                               *)

(* The walk down to the leaf for an id; NULL when a node has no child for
   it. *)
RECURSIVE Descend(_, _, _)
Descend(t, x, id) ==
  IF x = Null \/ t.e[x].type = "leaf" THEN x
  ELSE LET key == Keys!Higher(DOMAIN Entries(t, x), id) IN
       IF key = NoId THEN Null ELSE Descend(t, Entries(t, x)[key], id)

LeafFor(t, id) == Descend(t, t.root, id)

(* find. *)
Find(t, id) ==
  LET leaf == LeafFor(t, id) IN
  IF leaf = Null \/ id \notin DOMAIN Entries(t, leaf) THEN NoId
  ELSE Entries(t, leaf)[id]

(* A root above x, which was the root. *)
Raise(t, x) ==
  LET n == Fresh(t) IN
  [Enter(New(t, "node"), n, MinId(t, x), x) EXCEPT !.root = n]

(* Fault: always the new one. *)
Half_fault(t, x, y, id) == y

(* Of a split element and its new left neighbour, the one that takes an
   id. *)
Half(t, x, y, id) == IF MinId(t, x) = NoId \/ id > MinId(t, x) THEN x ELSE y

(* addToNode: a full node is split and the new one added to its parent. *)
RECURSIVE AddToNode(_, _, _)
AddToNode(t, n, child) ==
  IF Fits(t, n, child) THEN Enter(t, n, MinId(t, child), child)
  ELSE LET m == Fresh(t)
           t1 == Split(New(t, "node"), n, m)
           h == Half(t1, n, m, MinId(t1, child))
           t2 == Enter(t1, h, MinId(t1, child), child)
           t3 == IF Parent(t2, n) = Null THEN Raise(t2, n) ELSE t2
       IN IF Fits(t1, h, child) THEN AddToNode(t3, Parent(t3, n), m) ELSE t1

(* add. *)
AddRecord(t, id, len) ==
  LET t0 == IF t.root = Null
            THEN [New(t, "leaf") EXCEPT !.root = Fresh(t)] ELSE t
      leaf == LeafFor(t0, id)
      new == Fresh(t0)
  IN IF leaf = Null THEN t0
     ELSE IF Fits(t0, leaf, len) THEN Enter(t0, leaf, id, len)
     ELSE LET t1 == Split(New(t0, "leaf"), leaf, new)
              h == Half(t1, leaf, new, id)
              t2 == Enter(t1, h, id, len)
              t3 == IF Parent(t2, leaf) = Null THEN Raise(t2, leaf) ELSE t2
          IN IF Fits(t1, h, len) THEN AddToNode(t3, Parent(t3, leaf), new) ELSE t1

(* mergeNode: elements without entries are deleted, up to the root; a root
   node with one child gives way to it. *)
RECURSIVE MergeNode(_, _)
MergeNode(t, x) ==
  IF t.e[x].count = 0
  THEN LET p == Parent(t, x) IN
       IF p = Null THEN Delete([t EXCEPT !.root = Null], x)
       ELSE Delete(MergeNode(Drop(t, p, MinId(t, x)), p), x)
  ELSE IF x = t.root /\ t.e[x].count = 1 /\ t.e[x].type = "node"
  THEN LET c == Entries(t, x)[Keys!Lowest(DOMAIN Entries(t, x))] IN
       Delete([t EXCEPT !.root = c, !.e[c].parent = Null], x)
  ELSE t

(* remove. *)
RemoveRecord(t, id) ==
  LET leaf == LeafFor(t, id) IN
  IF leaf = Null THEN t ELSE MergeNode(Drop(t, leaf, id), leaf)

(* BTreeLeaf.update. *)
Replaceable(t, leaf, id, len) == t.e[leaf].free >= len - Entries(t, leaf)[id]

(* Fault: the length of the new record is not taken. *)
Replace_fault(t, leaf, id, len) ==
  [t EXCEPT !.e[leaf].free = @ + Entries(t, leaf)[id],
            !.e[leaf].entries[id] = len]

Replace(t, leaf, id, len) ==
  [t EXCEPT !.e[leaf].free = @ + Entries(t, leaf)[id] - len,
            !.e[leaf].entries[id] = len]

(* update: of a leaf that has to be split, one half is put below the parent.
   When the leaf is the root, the node above it is not made the root. *)
UpdateRecord(t, id, len) ==
  LET leaf == LeafFor(t, id)
      new == Fresh(t)
  IN IF leaf = Null THEN t
     ELSE IF Replaceable(t, leaf, id, len)
     THEN MergeNode(Replace(t, leaf, id, len), leaf)
     ELSE LET t1 == Split(New(t, "leaf"), leaf, new)
              h == IF id < MinId(t1, leaf) THEN new ELSE leaf
              t2 == Replace(t1, h, id, len)
              t3 == IF Parent(t2, leaf) = Null
                    THEN [Raise(t2, leaf) EXCEPT !.root = t.root] ELSE t2
          IN IF Replaceable(t1, h, id, len)
             THEN AddToNode(t3, Parent(t3, leaf), new) ELSE t1

(* getNextId. *)
RECURSIVE FirstLeaf(_, _)
FirstLeaf(t, x) ==
  IF t.e[x].type = "leaf" THEN x
  ELSE FirstLeaf(t, Entries(t, x)[Keys!Lowest(DOMAIN Entries(t, x))])

(* Fault: the walk does not climb. *)
RightOf_fault(t, x, id) ==
  IF Parent(t, x) = Null THEN Null
  ELSE LET siblings == Entries(t, Parent(t, x))
           key == Keys!Right(DOMAIN siblings, id)
       IN IF key = NoId THEN Null ELSE FirstLeaf(t, siblings[key])

RECURSIVE RightOf(_, _, _)
RightOf(t, x, id) ==
  IF Parent(t, x) = Null THEN Null
  ELSE LET siblings == Entries(t, Parent(t, x))
           key == Keys!Right(DOMAIN siblings, id)
       IN IF key = NoId THEN RightOf(t, Parent(t, x), id)
          ELSE FirstLeaf(t, siblings[key])

FirstId(t) ==
  IF t.root = Null THEN NoId
  ELSE Keys!Lowest(DOMAIN Entries(t, FirstLeaf(t, t.root)))

NextId(t, leaf, id) ==
  LET next == Keys!Right(DOMAIN Entries(t, leaf), id)
      right == RightOf(t, leaf, id)
  IN IF next # NoId THEN next
     ELSE IF right = Null THEN NoId
     ELSE Keys!Lowest(DOMAIN Entries(t, right))

-----------------------------------------------------------------------------
(* Pages.                                                                  *)

(* PageIds.get: the next page of the last commit, or one the policy gives. *)
GetPage(s) ==
  IF s.position < Len(s.ids)
  THEN [s EXCEPT !.position = @ + 1, !.page = s.ids[s.position + 1]]
  ELSE LET new == Max(Range(s.ids)) + 1 IN
       [s EXCEPT !.position = @ + 1, !.page = new, !.ids = Append(@, new)]

(* commit of an element: it takes a page, then its children are written, then
   the element itself.  The AVL tree's order of the children is abstracted to
   the order of their keys. *)
RECURSIVE CommitElement(_, _, _)
CommitElement(t, x, s) ==
  LET s1 == GetPage(s)
      keys == SetToSortSeq(DOMAIN Entries(t, x), <)
      Child(r, key) ==
        LET c == CommitElement(t, Entries(t, x)[key], r.s) IN
        [s |-> c, entries |-> (key :> c.page) @@ r.entries]
      r == IF t.e[x].type = "leaf" THEN [s |-> s1, entries |-> Entries(t, x)]
           ELSE FoldLeft(Child, [s |-> s1, entries |-> NoEntries], keys)
      image == [type |-> t.e[x].type, minId |-> MinId(t, x),
                free |-> t.e[x].free, count |-> t.e[x].count,
                entries |-> r.entries]
  IN [r.s EXCEPT !.page = s1.page, !.disk = (s1.page :> image) @@ @]

EmptyPage == [type |-> "none"]

(* Fault: the pages that are left over stay in the list. *)
CommitTree_fault(t, ids) ==
  LET s == [ids |-> ids, position |-> 0, page |-> Null, disk |-> << >>] IN
  IF t.root = Null THEN [disk |-> KlassIndexPage :> EmptyPage, ids |-> ids]
  ELSE CommitElement(t, t.root, s)

(* commit: the pages written.  Pages beyond the last one are forgotten, and
   not released: iterationDone sets count before it looks for them. *)
CommitTree(t, ids) ==
  LET s == [ids |-> ids, position |-> 0, page |-> Null, disk |-> << >>]
      r == IF t.root = Null
           THEN LET s1 == GetPage(s) IN [s1 EXCEPT !.disk = s1.page :> EmptyPage]
           ELSE CommitElement(t, t.root, s)
  IN [disk |-> r.disk, ids |-> SubSeq(r.ids, 1, r.position)]

(* ChildInfo.fromBytes: the element on a page and all below it, in the order
   they were written. *)
RECURSIVE LoadElement(_, _, _, _)
LoadElement(disk, page, parent, s) ==
  LET image == disk[page]
      x == Fresh(s.t)
      element == [NewElement(image.type) EXCEPT
                    !.parent = parent, !.minId = image.minId,
                    !.free = image.free, !.count = image.count]
      r == [t |-> [New(s.t, image.type) EXCEPT !.e[x] = element],
            ids |-> Append(s.ids, page), x |-> x]
      Child(a, key) ==
        LET c == LoadElement(disk, image.entries[key], x, a)
        IN [c EXCEPT !.t.e[x].entries = (key :> c.x) @@ @]
  IN IF image.type = "leaf"
     THEN [r EXCEPT !.t.e[x].entries = image.entries]
     ELSE [FoldLeft(Child, r, SetToSortSeq(DOMAIN image.entries, <))
             EXCEPT !.x = x]

(* load, by a new BTree. *)
LoadTree(disk) ==
  LET s == LoadElement(disk, KlassIndexPage, Null,
                       [t |-> Empty, ids |-> << >>, x |-> Null])
  IN IF disk[KlassIndexPage] = EmptyPage
     THEN [t |-> Empty, ids |-> <<KlassIndexPage>>]
     ELSE [t |-> [s.t EXCEPT !.root = s.x], ids |-> s.ids]

-----------------------------------------------------------------------------

Init ==
  /\ tree = Empty
  /\ pageIds = <<KlassIndexPage>>
  /\ index = NoEntries

(* insert: the class manager gives ids in ascending order. *)
Insert(id, len) ==
  /\ \A i \in DOMAIN index : i < id
  /\ tree' = AddRecord(tree, id, len)
  /\ index' = (id :> len) @@ index
  /\ UNCHANGED pageIds

(* update and remove: performUpdateTransaction and performDeleteTransaction
   are given ids that are stored. *)
Update(id, len) ==
  /\ id \in DOMAIN index
  /\ ~SplitRootLeaf /\ tree.e[tree.root].type = "leaf" =>
       Replaceable(tree, tree.root, id, len)
  /\ tree' = UpdateRecord(tree, id, len)
  /\ index' = [index EXCEPT ![id] = len]
  /\ UNCHANGED pageIds

RemoveId(id) ==
  /\ id \in DOMAIN index
  /\ tree' = RemoveRecord(tree, id)
  /\ index' = Without(index, id)
  /\ UNCHANGED pageIds

Commit ==
  /\ pageIds' = CommitTree(tree, pageIds).ids
  /\ UNCHANGED <<tree, index>>

(* The process ends after a commit, and the next one loads the index.  (A
   reload that finds an older commit goes back to a state seen before.) *)
Reload ==
  LET loaded == LoadTree(CommitTree(tree, pageIds).disk) IN
  /\ tree' = loaded.t
  /\ pageIds' = loaded.ids
  /\ UNCHANGED index

Next ==
  \/ Commit
  \/ Reload
  \/ \E id \in Ids : RemoveId(id) \/ \E len \in Lengths : Insert(id, len) \/ Update(id, len)

Spec == Init /\ [][Next]_vars

-----------------------------------------------------------------------------

TypeOK ==
  /\ tree.root \in DOMAIN tree.e \cup {Null}
  /\ \A x \in DOMAIN tree.e :
       /\ tree.e[x].type \in {"leaf", "node"}
       /\ Parent(tree, x) \in DOMAIN tree.e \cup {Null}
       /\ MinId(tree, x) \in Ids
       /\ tree.e[x].free \in Nat
       /\ tree.e[x].count \in Nat
       /\ tree.e[x].type = "node" =>
            \A key \in DOMAIN Entries(tree, x) : Entries(tree, x)[key] \in DOMAIN tree.e
  /\ index \in UNION {[S -> Lengths] : S \in SUBSET Ids}

(* Every id that was stored and not removed is found, with the record last
   stored under it, however leaves and nodes were split and merged; no other
   id is. *)
FindsAll ==
  \A id \in Ids : Find(tree, id) = IF id \in DOMAIN index THEN index[id] ELSE NoId

(* The parts of the tree agree: an element is known to its parent by its
   least id, its least id is that of its entries, and no element but the root
   is without a parent, so that the walks up and down meet. *)
LinksTrue ==
  \A x \in DOMAIN tree.e :
    LET p == Parent(tree, x) IN
    /\ tree.e[x].count = Cardinality(DOMAIN Entries(tree, x))
    /\ tree.e[x].count > 0
    /\ MinId(tree, x) = Min(DOMAIN Entries(tree, x))
    /\ IF x = tree.root THEN p = Null
       ELSE /\ p # Null
            /\ MinId(tree, x) \in DOMAIN Entries(tree, p)
            /\ x = Entries(tree, p)[MinId(tree, x)]

(* What commit writes of an element, its header, the AVL nodes of its entries
   and the NULL pointers below them, fits in a page. *)
PagesFit ==
  \A x \in DOMAIN tree.e :
    LET entries == Entries(tree, x)
        Node(key) == 4 + IF tree.e[x].type = "leaf" THEN entries[key] ELSE 1
    IN Header + MapThenSumSet(Node, DOMAIN entries)
         + Cardinality(DOMAIN entries) + 1 <= PageSize

(* Iterating gives every id once, in ascending order. *)
WalkTrue ==
  /\ FirstId(tree) = Keys!Lowest(DOMAIN index)
  /\ \A id \in DOMAIN index :
       NextId(tree, LeafFor(tree, id), id) = Keys!Right(DOMAIN index, id)

(* A commit loses nothing: the tree loaded from its pages finds what the
   tree that was committed finds, and knows every page that was written, so
   that the next commit writes over them. *)
Committed ==
  LET c == CommitTree(tree, pageIds)
      loaded == LoadTree(c.disk)
  IN /\ loaded.ids = c.ids
     /\ DOMAIN c.disk = Range(c.ids)
     /\ \A id \in Ids : Find(loaded.t, id) = Find(tree, id)
=============================================================================
