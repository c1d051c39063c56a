---------------------------- MODULE Transactions ----------------------------
(***************************************************************************)
(* The transactions of SimpleTransactionManager on one class: an insert    *)
(* and a delete are sequences of calls to the space manager policy, the    *)
(* class manager, the index and the schema manager, each of which commits  *)
(* on its own.  The module keeps what these have in memory beside what is  *)
(* in the file, and lets the application close the file between two        *)
(* transactions and the process die between two calls of one.              *)
(*                                                                         *)
(* The policy is what BlockAllocator says of it: it gives out a page nobody*)
(* has according to the bitmaps in memory.  Here a record takes one page.  *)
(* The index is what BTree says of it: a map, committed to its first page  *)
(* or, when it has more entries than a leaf can hold, to leaves below it.  *)
(* The class list and the policy's bitmaps are in pages of their own.      *)
(***************************************************************************)
EXTENDS Integers, Sequences, FiniteSets, SequencesExt, FiniteSetsExt

CONSTANTS
  Pages,      \* the pages the policy can give out
  LeafSize,   \* entries a leaf of the index holds
  MaxId,      \* bound: the ids there are
  Kills       \* bound: the transactions a kill can interrupt

ASSUME TransactionsAssumption ==
  /\ IsFiniteSet(Pages)
  /\ LeafSize \in Nat \ {0}
  /\ MaxId \in Nat
  /\ Kills \subseteq {"first", "insert", "delete"}

Null == 0 - 1
Ids  == 0 .. MaxId

VARIABLES
  open,       \* is the database open?
  used,       \* the policy's bitmaps in memory,
  usedDisk,   \*   and in the file
  klass,      \* the KlassInfo in memory,
  klassDisk,  \*   and in the class list
  index,      \* the tree in memory: the page of the record of each id
  pageIds,    \* the pages of the tree
  page,       \* what the pages in the file hold
  trans,      \* the transaction in progress
  stored      \* ghost: the ids in the last index committed

vars == <<open, used, usedDisk, klass, klassDisk, index, pageIds, page, trans,
          stored>>

NotManaged == [managed |-> FALSE, schemaPage |-> Null, indexPage |-> Null,
               nextId |-> 0]
NoEntries  == << >>
Nothing    == [kind |-> "nothing"]
SchemaList == [kind |-> "schemas"]
Data(id)   == [kind |-> "data", id |-> id]
Leaf(f)    == [kind |-> "leaf", entries |-> f]

Idle == [op |-> "none", step |-> "idle", id |-> Null, place |-> Null]
At(step) == open /\ trans.step = step
To(step) == trans' = [trans EXCEPT !.step = step]
Free == Pages \ used

With(f, id, p) == [i \in DOMAIN f \cup {id} |-> IF i = id THEN p ELSE f[i]]
Without(f, id) == [i \in DOMAIN f \ {id} |-> f[i]]

-----------------------------------------------------------------------------
(* The index in the file.                                                    *)

(* The entries from the i-th leaf of a committed tree with entries f. *)
Part(f, i) ==
  LET keys == SetToSortSeq(DOMAIN f, <)
      own  == {keys[k] : k \in {n \in DOMAIN keys : (n - 1) \div LeafSize = i - 1}}
  IN [id \in own |-> f[id]]

(* The pages a tree of n entries takes. *)
Leaves(n) == (n + LeafSize - 1) \div LeafSize
PagesFor(n) == IF Leaves(n) <= 1 THEN 1 ELSE 1 + Leaves(n)
Entries == Cardinality(DOMAIN index)

(* The pages of a file in which the tree with entries f was written to ids:
   the root to the first of them. *)
WithIndex(file, f, ids) ==
  LET Image(k) == IF Len(ids) = 1 THEN Leaf(f)
                  ELSE IF k = 1 THEN [kind |-> "node", children |-> Tail(ids)]
                  ELSE Leaf(Part(f, k - 1))
      last(p) == CHOOSE k \in DOMAIN ids : ids[k] = p
  IN [p \in Pages |-> IF p \in Range(ids) THEN Image(last(p)) ELSE file[p]]

(* What load makes of the page p: garbage has no entries. *)
EntriesOf(file, p) ==
  IF file[p].kind = "leaf" THEN file[p].entries ELSE NoEntries

(* The pages load finds a tree on. *)
TreePages(file, p) ==
  IF file[p].kind = "node" THEN <<p>> \o file[p].children ELSE <<p>>

Loaded ==
  IF ~klassDisk.managed THEN NoEntries
  ELSE LET ps == Range(TreePages(page, klassDisk.indexPage)) IN
       [id \in UNION {DOMAIN EntriesOf(page, p) : p \in ps} |->
          EntriesOf(page, CHOOSE p \in ps : id \in DOMAIN EntriesOf(page, p))[id]]

(* index.commit: pages the tree does not have yet are taken from the policy;
   pages it no longer needs are forgotten. *)
CommitIndex ==
  \E new \in kSubset(Max({0, PagesFor(Entries) - Len(pageIds)}), Free) :
    /\ used' = used \cup new
    /\ pageIds' = SubSeq(pageIds \o SetToSeq(new), 1, PagesFor(Entries))
    /\ page' = WithIndex(page, index, pageIds')
    /\ stored' = DOMAIN index

-----------------------------------------------------------------------------
(* performInsertTransaction.                                                 *)

(* The pages an insert takes. *)
Needed ==
  1 + IF klass.managed THEN Max({0, PagesFor(Entries + 1) - Len(pageIds)}) ELSE 2

(* acquireRecord.  A full storage is left out: the transaction would go on
   with a record without blocks. *)
StartInsert ==
  /\ At("idle")
  /\ klass.nextId <= MaxId
  /\ Cardinality(Free) >= Needed
  /\ \E p \in Free :
       /\ used' = used \cup {p}
       /\ trans' = [op |-> IF klass.managed THEN "insert" ELSE "first",
                    step |-> "klass", id |-> Null, place |-> p]
  /\ UNCHANGED <<open, usedDisk, klass, klassDisk, index, pageIds, page, stored>>

(* addKlass and the commit of the class list, for a class not yet managed. *)
AddKlass ==
  /\ At("klass")
  /\ ~klass.managed
  /\ \E p \in Free : \E q \in Free \ {p} :
       /\ used' = used \cup {p, q}
       /\ klass' = [managed |-> TRUE, schemaPage |-> p, indexPage |-> q,
                    nextId |-> 0]
       /\ pageIds' = <<q>>
  /\ klassDisk' = klass'
  /\ To("index")
  /\ UNCHANGED <<open, usedDisk, index, page, stored>>

KlassKnown ==
  /\ At("klass")
  /\ klass.managed
  /\ To("index")
  /\ UNCHANGED <<open, used, usedDisk, klass, klassDisk, index, pageIds, page,
                 stored>>

(* getIdFor and index.insert. *)
InsertEntry ==
  /\ At("index")
  /\ klass' = [klass EXCEPT !.nextId = @ + 1]
  /\ index' = With(index, klass.nextId, trans.place)
  /\ trans' = [trans EXCEPT !.step = "write", !.id = klass.nextId]
  /\ UNCHANGED <<open, used, usedDisk, klassDisk, pageIds, page, stored>>

WriteRecord ==
  /\ At("write")
  /\ page' = [page EXCEPT ![trans.place] = Data(trans.id)]
  /\ To("policyCommit")
  /\ UNCHANGED <<open, used, usedDisk, klass, klassDisk, index, pageIds, stored>>

(* Fault: the commit of the policy is forgotten. *)
CommitPolicy_fault ==
  /\ At("policyCommit")
  /\ To(IF trans.op = "delete" THEN "indexCommit" ELSE "klassCommit")
  /\ UNCHANGED <<open, used, usedDisk, klass, klassDisk, index, pageIds, page,
                 stored>>

CommitPolicy ==
  /\ At("policyCommit")
  /\ usedDisk' = used
  /\ To(IF trans.op = "delete" THEN "indexCommit" ELSE "klassCommit")
  /\ UNCHANGED <<open, used, klass, klassDisk, index, pageIds, page, stored>>

(* Fault: the commit of the class manager is forgotten. *)
CommitKlass_fault ==
  /\ At("klassCommit")
  /\ To("indexCommit")
  /\ UNCHANGED <<open, used, usedDisk, klass, klassDisk, index, pageIds, page,
                 stored>>

CommitKlass ==
  /\ At("klassCommit")
  /\ klassDisk' = klass
  /\ To("indexCommit")
  /\ UNCHANGED <<open, used, usedDisk, klass, index, pageIds, page, stored>>

(* The last commit of a delete, the last but one of an insert. *)
IndexCommit ==
  /\ At("indexCommit")
  /\ CommitIndex
  /\ trans' = IF trans.op = "delete" THEN Idle
              ELSE [trans EXCEPT !.step = "schemaCommit"]
  /\ UNCHANGED <<open, usedDisk, klass, klassDisk, index>>

CommitSchema ==
  /\ At("schemaCommit")
  /\ page' = [page EXCEPT ![klass.schemaPage] = SchemaList]
  /\ trans' = Idle
  /\ UNCHANGED <<open, used, usedDisk, klass, klassDisk, index, pageIds, stored>>

-----------------------------------------------------------------------------
(* performDeleteTransaction.                                                 *)

(* find, and releaseRecord, which in Hybrid commits the bitmaps. *)
StartDelete(id) ==
  /\ At("idle")
  /\ klass.managed
  /\ id \in DOMAIN index
  /\ used' = used \ {index[id]}
  /\ usedDisk' = used'
  /\ trans' = [op |-> "delete", step |-> "remove", id |-> id, place |-> index[id]]
  /\ UNCHANGED <<open, klass, klassDisk, index, pageIds, page, stored>>

(* Fault: the index keeps the entry. *)
RemoveEntry_fault ==
  /\ At("remove")
  /\ To("policyCommit")
  /\ UNCHANGED <<open, used, usedDisk, klass, klassDisk, index, pageIds, page,
                 stored>>

(* index.remove. *)
RemoveEntry ==
  /\ At("remove")
  /\ index' = Without(index, trans.id)
  /\ To("policyCommit")
  /\ UNCHANGED <<open, used, usedDisk, klass, klassDisk, pageIds, page, stored>>

-----------------------------------------------------------------------------
(* Jello.close commits nothing; neither does a kill.                         *)

Forget ==
  /\ open' = FALSE
  /\ trans' = Idle
  /\ used' = {} /\ klass' = NotManaged /\ index' = NoEntries /\ pageIds' = << >>
  /\ UNCHANGED <<usedDisk, klassDisk, page, stored>>

Close == At("idle") /\ Forget

Kill == open /\ trans.op \in Kills /\ Forget

(* loadStructure: the policy, and the class manager, which loads the index
   of the class. *)
Open ==
  /\ ~open
  /\ open' = TRUE
  /\ used' = usedDisk
  /\ klass' = klassDisk
  /\ index' = Loaded
  /\ pageIds' = IF klassDisk.managed THEN TreePages(page, klassDisk.indexPage)
                ELSE << >>
  /\ UNCHANGED <<usedDisk, klassDisk, page, trans, stored>>

-----------------------------------------------------------------------------

Init ==
  /\ open = TRUE
  /\ used = {} /\ usedDisk = {}
  /\ klass = NotManaged /\ klassDisk = NotManaged
  /\ index = NoEntries /\ pageIds = << >>
  /\ page = [p \in Pages |-> Nothing]
  /\ trans = Idle
  /\ stored = {}

Next ==
  \/ StartInsert \/ AddKlass \/ KlassKnown \/ InsertEntry \/ WriteRecord
  \/ CommitPolicy \/ CommitKlass \/ IndexCommit \/ CommitSchema
  \/ (\E id \in Ids : StartDelete(id)) \/ RemoveEntry
  \/ Close \/ Kill \/ Open

Spec == Init /\ [][Next]_vars

-----------------------------------------------------------------------------
(* Properties.                                                               *)

(* The ids whose records the transaction in progress leaves alone. *)
Kept == stored \ IF trans.op = "delete" THEN {trans.id} ELSE {}

(* An object in the last index committed can be read: the index has it, in   *)
(* memory and in the file, and what is on its page is the object, however    *)
(* many objects came, went and reused pages, and wherever a kill came.       *)
ObjectsKept ==
  \A id \in Kept :
    LET f == IF open THEN index ELSE Loaded IN
    /\ id \in DOMAIN f
    /\ page[f[id]] = Data(id)

(* The commit of the index is the moment a transaction takes place: what the *)
(* file holds is every object of the last commit and no other; and none of   *)
(* the ids in it will be given to another object.                            *)
DurableIndex ==
  /\ DOMAIN Loaded = stored
  /\ \A id \in stored : id < klassDisk.nextId

(* What the file refers to is marked in the bitmaps in the file, so that the *)
(* next session does not give it out again: the record of every object, the  *)
(* pages of the index and of the schemas, once the first insert is over; and *)
(* no page is two of these.                                                  *)
OwnersMarked ==
  LET tree   == Range(TreePages(page, klassDisk.indexPage))
      places == {Loaded[id] : id \in Kept}
  IN klassDisk.managed /\ trans.op # "first" =>
       /\ tree \cup places \cup {klassDisk.schemaPage} \subseteq usedDisk
       /\ Cardinality(places) = Cardinality(Kept)
       /\ tree \cap places = {}
       /\ klassDisk.schemaPage \notin tree \cup places
=============================================================================
