--------------------------- MODULE BlockAllocator ---------------------------
(***************************************************************************)
(* What a space manager policy promises (SpaceManagerPolicy.java): whole   *)
(* pages to some callers and blocks of pages to records, never the same    *)
(* block twice, and back exactly what was taken.  How a place is found, how*)
(* large the file is and what is written when is not said here.            *)
(***************************************************************************)
CONSTANTS
  Pages,    \* the pages there can be
  Blocks,   \* the blocks of a page
  Fixed,    \* pages in use for as long as the database lives
  Records   \* the records

VARIABLES
  held,     \* pages somebody has as a whole
  owned     \* the blocks of each record, page by page

Nothing == [p \in Pages |-> {}]

Free(p) == IF p \in held THEN {}
           ELSE {b \in Blocks : \A r \in Records : b \notin owned[r][p]}

Init == held = Fixed /\ owned = [r \in Records |-> Nothing]

(* A caller, or the policy for its own bitmaps, gets pages nobody uses. *)
TakePages(S) ==
  /\ \A p \in S : Free(p) = Blocks
  /\ held' = held \cup S
  /\ UNCHANGED owned

DropPage(p) ==
  /\ p \in held \ Fixed
  /\ held' = held \ {p}
  /\ UNCHANGED owned

(* A record without blocks gets free ones. *)
TakeBlocks(r) ==
  /\ owned[r] = Nothing
  /\ owned'[r] \in [Pages -> SUBSET Blocks]
  /\ \A p \in Pages : owned'[r][p] \subseteq Free(p)
  /\ owned' = [owned EXCEPT ![r] = owned'[r]]
  /\ UNCHANGED held

DropBlocks(r) ==
  /\ owned' = [owned EXCEPT ![r] = Nothing]
  /\ UNCHANGED held

Next ==
  \/ TakePages(held' \ held)
  \/ \E p \in Pages : DropPage(p)
  \/ \E r \in Records : TakeBlocks(r) \/ DropBlocks(r)

Spec == Init /\ [][Next]_<<held, owned>>
=============================================================================
