----------------------------- MODULE OrderedMap -----------------------------
(***************************************************************************)
(* What an AVLTree promises the B-tree elements that keep their entries in *)
(* it: a set of record ids, and the neighbours of an id in it.             *)
(* jni/btree/AVLTree.cpp is shown to implement it (AVLTree.tla), and       *)
(* BTree.tla looks its entries up with these operators.                    *)
(***************************************************************************)
EXTENDS Integers, FiniteSetsExt

CONSTANT Ids

VARIABLE keys

None == -1                      \* NULL: no key

(* The keys an id is looked up between. *)
Highest(S) == IF S = {} THEN None ELSE Max(S)
Lowest(S) == IF S = {} THEN None ELSE Min(S)

Higher(S, id) == Highest({k \in S : k <= id})   \* findHigher
Left(S, id) == Highest({k \in S : k < id})      \* findLeft
Right(S, id) == Lowest({k \in S : k > id})      \* findRight

Add(id) == id \notin keys /\ keys' = keys \cup {id}

Remove(id) == keys' = keys \ {id}

ExtractSmallest == keys # {} /\ keys' = keys \ {Lowest(keys)}

Init == keys = {}

Next == ExtractSmallest \/ \E id \in Ids : Add(id) \/ Remove(id)

Spec == Init /\ [][Next]_keys
=============================================================================
