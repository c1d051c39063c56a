------------------------------ MODULE AVLTree -------------------------------
(***************************************************************************)
(* The search tree in which every element of the B-tree keeps its entries: *)
(* jni/btree/AVLTree.cpp, pointer by pointer.  A node is named by its      *)
(* record id: the ids in a tree are distinct.                              *)
(***************************************************************************)
EXTENDS Integers, Sequences, FiniteSetsExt, Functions, TLC

CONSTANT Ids     \* bound: the ids that are added

ASSUME AVLAssumption == Ids \subseteq Nat

Null == -1                       \* NULL, and the id that stands for it in a page

VARIABLE tree    \* [root, count, n: the nodes]

Empty == [root |-> Null, count |-> 0, n |-> << >>]

NewNode == [parent |-> Null, left |-> Null, right |-> Null,
            height |-> 1, balance |-> 0]

Side(id, p) == IF id < p THEN "left" ELSE "right"
Other(side) == IF side = "left" THEN "right" ELSE "left"

-----------------------------------------------------------------------------

HeightOf(t, x) == IF x = Null THEN 0 ELSE t.n[x].height

(* updateHeight: the parent is told only when the height changed. *)
RECURSIVE UpdateHeight(_, _)
UpdateHeight(t, x) ==
  LET l == HeightOf(t, t.n[x].left)
      r == HeightOf(t, t.n[x].right)
      h == 1 + Max({l, r})
      t1 == [t EXCEPT !.n[x].height = h, !.n[x].balance = r - l]
  IN IF t.n[x].parent # Null /\ h # t.n[x].height
     THEN UpdateHeight(t1, t.n[x].parent) ELSE t1

SetParent(t, x, p) == IF x = Null THEN t ELSE [t EXCEPT !.n[x].parent = p]

(* The link from p down to x; the root's when p is NULL. *)
Link(t, p, side, x) ==
  IF p = Null THEN [t EXCEPT !.root = x] ELSE [t EXCEPT !.n[p][side] = x]

(* Fault: the parent of the subtree that changes sides is not set. *)
Rotate_fault(t, x, down) ==
  LET y == t.n[x][Other(down)]
      p == t.n[x].parent
      t1 == [t EXCEPT !.n[x][Other(down)] = t.n[y][down], !.n[y][down] = x]
      t2 == UpdateHeight(UpdateHeight(t1, x), y)
      t3 == [t2 EXCEPT !.n[y].parent = p, !.n[x].parent = y]
  IN Link(t3, p, Side(y, p), y)

(* Fault: the height of the node that goes down is left as it was. *)
Rotate_fault2(t, x, down) ==
  LET y == t.n[x][Other(down)]
      p == t.n[x].parent
      inner == t.n[y][down]
      t1 == SetParent([t EXCEPT !.n[x][Other(down)] = inner,
                                !.n[y][down] = x], inner, x)
      t2 == UpdateHeight(t1, y)
      t3 == [t2 EXCEPT !.n[y].parent = p, !.n[x].parent = y]
  IN Link(t3, p, Side(y, p), y)

(* rotateLeft (down = "left") and rotateRight: x goes down, its child y on
   the other side takes its place.  Heights are updated while x is still the
   child of its parent. *)
Rotate(t, x, down) ==
  LET y == t.n[x][Other(down)]
      p == t.n[x].parent
      inner == t.n[y][down]
      t1 == SetParent([t EXCEPT !.n[x][Other(down)] = inner,
                                !.n[y][down] = x], inner, x)
      t2 == UpdateHeight(UpdateHeight(t1, x), y)
      t3 == [t2 EXCEPT !.n[y].parent = p, !.n[x].parent = y]
  IN Link(t3, p, Side(y, p), y)

(* rotateLeftTwice and rotateRightTwice: the child is passed by reference,
   so that x's link is moved first. *)
RotateTwice(t, x, down) ==
  LET c == t.n[x][Other(down)]
      t1 == [t EXCEPT !.n[x][Other(down)] = t.n[c][down]]
  IN Rotate(Rotate(t1, c, Other(down)), x, down)

(* rebalance: from x up to the root. *)
RECURSIVE Rebalance(_, _)
Rebalance(t, x) ==
  LET b == t.n[x].balance
      p == t.n[x].parent
      t1 == CASE b < -1 -> IF t.n[t.n[x].left].balance = 1
                           THEN RotateTwice(t, x, "right")
                           ELSE Rotate(t, x, "right")
              [] b > 1 -> IF t.n[t.n[x].right].balance = -1
                          THEN RotateTwice(t, x, "left")
                          ELSE Rotate(t, x, "left")
              [] OTHER -> t
  IN IF p = Null THEN t1 ELSE Rebalance(t1, p)

-----------------------------------------------------------------------------

(* The search for an id. *)
RECURSIVE Place(_, _, _)
Place(t, x, id) ==
  LET next == t.n[x][Side(id, x)] IN
  IF next = Null THEN x ELSE Place(t, next, id)

(* add(recordId, content): a new leaf of the tree. *)
AddNode(t, id) ==
  LET t1 == [t EXCEPT !.count = @ + 1, !.n = (id :> NewNode) @@ @] IN
  IF t.root = Null THEN [t1 EXCEPT !.root = id]
  ELSE LET p == Place(t, t.root, id)
           t2 == Link(SetParent(t1, id, p), p, Side(id, p), id)
       IN Rebalance(UpdateHeight(t2, p), p)

RECURSIVE Furthest(_, _, _)
Furthest(t, x, side) ==
  IF t.n[x][side] = Null THEN x ELSE Furthest(t, t.n[x][side], side)

(* Fault: a node is unlinked with all that hangs below it. *)
RemoveNode_fault(t, x) ==
  LET p == t.n[x].parent IN Link(t, p, Side(x, p), Null)

(* removeNode: a node with one child at most is replaced by the child; one
   with two by its predecessor, after that has been removed from its place.
   The removed node keeps its own pointers. *)
RECURSIVE RemoveNode(_, _)
RemoveNode(t, x) ==
  LET n == t.n[x]
      p == n.parent
  IN IF Null \in {n.left, n.right}
     THEN LET c == IF n.left = Null THEN n.right ELSE n.left
              t1 == SetParent(Link(t, p, Side(x, p), c), c, p)
          IN IF p = Null THEN t1 ELSE UpdateHeight(t1, p)
     ELSE LET prev == Furthest(t, n.left, "right")
              t1 == RemoveNode(t, prev)
              m == t1.n[x]
              t2 == [t1 EXCEPT !.n[prev] =
                       [@ EXCEPT !.parent = p, !.left = m.left,
                                 !.right = m.right]]
              t3 == SetParent(SetParent(t2, m.left, prev), m.right, prev)
          IN UpdateHeight(Link(t3, p, Side(prev, p), prev), prev)

(* remove(recordId) and extractSmallest, which delete the node they unlink. *)
Unlink(t, x) ==
  LET t1 == [RemoveNode(t, x) EXCEPT !.count = @ - 1]
      p == t1.n[x].parent
      t2 == IF p = Null THEN t1 ELSE Rebalance(t1, p)
  IN [t2 EXCEPT !.n = Restrict(@, DOMAIN @ \ {x})]

-----------------------------------------------------------------------------

(* find(recordId) and findNode. *)
RECURSIVE FindFrom(_, _, _)
FindFrom(t, x, id) ==
  IF x \in {Null, id} THEN x ELSE FindFrom(t, t.n[x][Side(id, x)], id)

(* findHigher: prev is the last node passed on the way right. *)
RECURSIVE HigherFrom(_, _, _, _)
HigherFrom(t, x, prev, id) ==
  IF x = Null THEN prev
  ELSE IF x <= id THEN HigherFrom(t, t.n[x].right, x, id)
       ELSE HigherFrom(t, t.n[x].left, prev, id)

(* Fault: findLeft finds the id itself. *)
LeftFrom_fault(t, x, prev, id) == HigherFrom(t, x, prev, id)

(* findLeft. *)
RECURSIVE LeftFrom(_, _, _, _)
LeftFrom(t, x, prev, id) ==
  IF x = Null THEN prev
  ELSE IF x < id THEN LeftFrom(t, t.n[x].right, x, id)
       ELSE LeftFrom(t, t.n[x].left, prev, id)

(* findRight and findRightNode. *)
RECURSIVE RightFrom(_, _, _, _)
RightFrom(t, x, prev, id) ==
  IF x = Null THEN prev
  ELSE IF x > id THEN RightFrom(t, t.n[x].left, x, id)
       ELSE RightFrom(t, t.n[x].right, prev, id)

(* getSmallest. *)
Smallest(t) == IF t.root = Null THEN Null ELSE Furthest(t, t.root, "left")

(* nodeToBytes: the tree in pre-order, with its heights. *)
RECURSIVE NodeToBytes(_, _)
NodeToBytes(t, x) ==
  IF x = Null THEN <<[id |-> Null]>>
  ELSE <<[id |-> x, height |-> t.n[x].height, balance |-> t.n[x].balance]>>
         \o NodeToBytes(t, t.n[x].left) \o NodeToBytes(t, t.n[x].right)

(* nodeFromBytes: the subtree that starts at `at`, added to t; its root and
   where it ends. *)
RECURSIVE NodeFromBytes(_, _, _)
NodeFromBytes(bytes, at, t) ==
  IF bytes[at].id = Null THEN [t |-> t, node |-> Null, next |-> at + 1]
  ELSE LET id == bytes[at].id
           node == [NewNode EXCEPT !.height = bytes[at].height,
                                   !.balance = bytes[at].balance]
           t1 == [t EXCEPT !.count = @ + 1, !.n = (id :> node) @@ @]
           l == NodeFromBytes(bytes, at + 1, t1)
           t2 == SetParent(Link(l.t, id, "left", l.node), l.node, id)
           r == NodeFromBytes(bytes, l.next, t2)
           t3 == SetParent(Link(r.t, id, "right", r.node), r.node, id)
       IN [t |-> t3, node |-> id, next |-> r.next]

(* Fault: the root is read and not kept. *)
FromBytes_fault(bytes) == NodeFromBytes(bytes, 1, Empty).t

(* commit and fromBytes. *)
ToBytes(t) == NodeToBytes(t, t.root)

FromBytes(bytes) ==
  LET r == NodeFromBytes(bytes, 1, Empty) IN [r.t EXCEPT !.root = r.node]

-----------------------------------------------------------------------------

Init == tree = Empty

Add(id) == id \notin DOMAIN tree.n /\ tree' = AddNode(tree, id)

(* An id that is not there is left alone. *)
Remove(id) ==
  /\ FindFrom(tree, tree.root, id) = id
  /\ tree' = Unlink(tree, id)

ExtractSmallest == tree.root # Null /\ tree' = Unlink(tree, Smallest(tree))

Next == ExtractSmallest \/ \E id \in Ids : Add(id) \/ Remove(id)

Spec == Init /\ [][Next]_tree

-----------------------------------------------------------------------------

(* The ids in search order, and the nodes the root leads to. *)
RECURSIVE InOrder(_, _)
InOrder(t, x) ==
  IF x = Null THEN << >>
  ELSE InOrder(t, t.n[x].left) \o <<x>> \o InOrder(t, t.n[x].right)

Keys == Range(InOrder(tree, tree.root))

Map == INSTANCE OrderedMap WITH keys <- Keys

(* Whatever was added, removed and rotated, a search can reach every node
   that lives and no other, left of it are the lower ids and right of it the
   higher ones, its parent pointer leads back to the node it hangs on, and
   count, which BTreeLeaf and BTreeNode split and merge by, counts them. *)
SearchTree ==
  LET s == InOrder(tree, tree.root) IN
  /\ \A i \in 1 .. Len(s) - 1 : s[i] < s[i + 1]
  /\ Range(s) = DOMAIN tree.n
  /\ tree.count = Len(s)
  /\ \A x \in DOMAIN tree.n :
       LET p == tree.n[x].parent IN
       IF p = Null THEN tree.root = x
       ELSE p \in DOMAIN tree.n /\ tree.n[p][Side(x, p)] = x

(* find, findHigher, findLeft, findRight and getSmallest answer what they
   answer of the set of ids, for the ids that are there and for those that
   are not. *)
Lookups ==
  /\ Smallest(tree) = Map!Lowest(Keys)
  /\ \A id \in Ids \cup {Max(Ids) + 1} :
       /\ FindFrom(tree, tree.root, id) = IF id \in Keys THEN id ELSE Null
       /\ HigherFrom(tree, tree.root, Null, id) = Map!Higher(Keys, id)
       /\ LeftFrom(tree, tree.root, Null, id) = Map!Left(Keys, id)
       /\ RightFrom(tree, tree.root, Null, id) = Map!Right(Keys, id)

(* A tree written to its page and read back is the tree it was: shape,
   heights, balances, parents and count. *)
RoundTrip == FromBytes(ToBytes(tree)) = tree

(* Rotations leave the heights of the ancestors stale (the parent is updated
   before it is linked to the node that took the other's place), a removal
   rebalances from the old parent only, and later rotations are chosen by
   these heights.  Yet they never say that a subtree is the deeper one when
   there is none: rotateLeft and its sisters use the child they lift, and the
   child of that child, without asking whether it is there. *)
LeansOnChild ==
  \A x \in DOMAIN tree.n :
    /\ tree.n[x].balance > 0 => tree.n[x].right # Null
    /\ tree.n[x].balance < 0 => tree.n[x].left # Null

(* The tree implements the ordered set of ids. *)
Implements == Map!Spec
=============================================================================
