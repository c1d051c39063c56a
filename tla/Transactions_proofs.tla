------------------------ MODULE Transactions_proofs -------------------------
(***************************************************************************)
(* What SimpleTransactionManager keeps, for any number of pages and ids:   *)
(* the objects of the last commit of the index, in memory and in the file. *)
(***************************************************************************)
EXTENDS Transactions, FiniteSetTheorems, SequenceTheorems, TLAPS

(* The index fits in one leaf, so that its commit takes no page; and a kill
   interrupts only inserts into a class that is managed. *)
OneLeaf == MaxId < LeafSize /\ Kills \subseteq {"insert"}

Maps == UNION {[S -> Pages] : S \in SUBSET Ids}

Klasses ==
  {NotManaged} \cup
  [managed : {TRUE}, schemaPage : Pages, indexPage : Pages, nextId : Nat]

Contents ==
  {Nothing, SchemaList} \cup {Data(id) : id \in Ids} \cup {Leaf(f) : f \in Maps}

Inserting == trans.op \in {"first", "insert"}
Deleting  == trans.op = "delete"

Steps ==
  IF Inserting THEN {"klass", "index", "write", "policyCommit", "klassCommit",
                     "indexCommit", "schemaCommit"}
  ELSE {"remove", "policyCommit", "indexCommit"}

(* The index in the file. *)
Durable ==
  IF klassDisk.managed THEN EntriesOf(page, klassDisk.indexPage) ELSE NoEntries

(* The entry of the insert in progress is in memory only. *)
Entered ==
  Inserting /\ trans.step \in {"write", "policyCommit", "klassCommit", "indexCommit"}

Typed ==
  /\ open \in BOOLEAN
  /\ used \in SUBSET Pages /\ usedDisk \in SUBSET Pages
  /\ klass \in Klasses /\ klassDisk \in Klasses
  /\ page \in [Pages -> Contents]
  /\ stored \in SUBSET Ids
  /\ trans = Idle \/ (open /\ trans \in
       [op : {"first", "insert", "delete"}, step : Steps, id : Ids \cup {Null},
        place : Pages])

(* The class and the tree of the file, whose objects are where the tree says. *)
FileOK ==
  /\ ~klassDisk.managed => page = [p \in Pages |-> Nothing]
  /\ klassDisk.managed =>
       /\ klassDisk.indexPage # klassDisk.schemaPage
       /\ page[klassDisk.indexPage].kind # "node"
       /\ trans.op # "first" =>
            klassDisk.indexPage \in usedDisk /\ klassDisk.schemaPage \in usedDisk
  /\ DOMAIN Durable = stored
  /\ \A id \in stored :
       /\ id < klassDisk.nextId
       /\ Durable[id] \notin {klassDisk.indexPage, klassDisk.schemaPage}
  /\ \A id \in Kept : page[Durable[id]] = Data(id) /\ Durable[id] \in usedDisk

(* Memory is ahead of the file by what the transaction in progress has done. *)
MemoryOK ==
  /\ usedDisk \subseteq used
  /\ ~(Inserting /\ trans.step \in {"klass", "index", "write", "policyCommit"}) =>
       used = usedDisk
  /\ klass = IF Entered /\ trans.step # "indexCommit"
             THEN [klassDisk EXCEPT !.nextId = @ + 1] ELSE klassDisk
  /\ klass.managed =>
       /\ pageIds = <<klass.indexPage>>
       /\ klass.indexPage \in used /\ klass.schemaPage \in used
  /\ index = IF Entered THEN With(Durable, trans.id, trans.place)
             ELSE IF Deleting /\ trans.step # "remove" THEN Without(Durable, trans.id)
             ELSE Durable

(* The transaction in progress has a page of its own, or an object to delete. *)
TransOK ==
  /\ Inserting =>
       /\ klass.managed <=> ~(trans.op = "first" /\ trans.step = "klass")
       /\ trans.step \in {"klass", "index"} => klass.nextId <= MaxId
       /\ trans.step # "schemaCommit" =>
            /\ trans.place \in used /\ \A id \in stored : Durable[id] # trans.place
            /\ klass.managed => trans.place \notin {klass.indexPage, klass.schemaPage}
       /\ trans.step \in {"policyCommit", "klassCommit", "indexCommit"} =>
            page[trans.place] = Data(trans.id)
  /\ Entered => trans.id \in Ids \ stored /\ trans.id < klass.nextId
  /\ Deleting => klass.managed /\ trans.id \in stored

IInv == Typed /\ FileOK /\ (open => MemoryOK /\ TransOK)

-----------------------------------------------------------------------------
(* The operators of the model.                                               *)

(* What is on a page says what it is. *)
LEMMA Kinds ==
  /\ Nothing.kind = "nothing" /\ SchemaList.kind = "schemas"
  /\ \A id : Data(id).kind = "data" /\ Data(id).id = id
  /\ \A f : Leaf(f).kind = "leaf" /\ Leaf(f).entries = f
BY DEF Nothing, SchemaList, Data, Leaf

(* The pages of a class that is managed. *)
LEMMA KlassType ==
  ASSUME NEW k \in Klasses
  PROVE  /\ k.managed \in BOOLEAN
         /\ k.managed => k.schemaPage \in Pages /\ k.indexPage \in Pages
         /\ ~k.managed => k = NotManaged
         /\ k.nextId \in Nat
<1>1. CASE k = NotManaged
  <2>1. NotManaged.managed = FALSE /\ NotManaged.nextId = 0
    BY DEF NotManaged
  <2>2. k.managed = FALSE /\ k.nextId = 0
    BY <1>1, <2>1
  <2>3. k.managed \in BOOLEAN /\ ~k.managed
    BY <2>2
  <2> QED
    BY <1>1, <2>2, <2>3
<1>2. CASE k \in [managed : {TRUE}, schemaPage : Pages, indexPage : Pages, nextId : Nat]
  <2>1. k.managed = TRUE /\ k.schemaPage \in Pages /\ k.indexPage \in Pages /\ k.nextId \in Nat
    BY <1>2
  <2> QED
    BY <2>1
<1> QED
  BY <1>1, <1>2 DEF Klasses

LEMMA NoEntriesType == NoEntries \in Maps /\ DOMAIN NoEntries = {}
<1>1. DOMAIN NoEntries = {}
  BY DEF NoEntries
<1>2. NoEntries \in [{} -> Pages]
  BY DEF NoEntries
<1> QED
  BY <1>1, <1>2 DEF Maps

(* A map is determined by its entries. *)
LEMMA MapType ==
  ASSUME NEW f \in Maps
  PROVE  /\ DOMAIN f \in SUBSET Ids
         /\ \A id \in DOMAIN f : f[id] \in Pages
         /\ f = [id \in DOMAIN f |-> f[id]]
BY DEF Maps

(* With enters one pair and keeps the others. *)
LEMMA WithFacts ==
  ASSUME NEW f \in Maps, NEW id \in Ids, NEW p \in Pages
  PROVE  /\ With(f, id, p) \in Maps
         /\ DOMAIN With(f, id, p) = DOMAIN f \cup {id}
         /\ With(f, id, p)[id] = p
         /\ \A k \in DOMAIN f : k # id => With(f, id, p)[k] = f[k]
<1>1. DOMAIN f \in SUBSET Ids /\ \A k \in DOMAIN f : f[k] \in Pages
  BY MapType
<1>2. DOMAIN f \cup {id} \in SUBSET Ids
  BY <1>1
<1>3. With(f, id, p) \in [DOMAIN f \cup {id} -> Pages]
  BY <1>1 DEF With
<1> QED
  BY <1>2, <1>3 DEF Maps, With

(* Without forgets one pair and keeps the others. *)
LEMMA WithoutFacts ==
  ASSUME NEW f \in Maps, NEW id
  PROVE  /\ Without(f, id) \in Maps
         /\ DOMAIN Without(f, id) = DOMAIN f \ {id}
         /\ \A k \in DOMAIN f : k # id => Without(f, id)[k] = f[k]
<1>1. DOMAIN f \in SUBSET Ids /\ \A k \in DOMAIN f : f[k] \in Pages
  BY MapType
<1>2. DOMAIN f \ {id} \in SUBSET Ids
  BY <1>1
<1>3. Without(f, id) \in [DOMAIN f \ {id} -> Pages]
  BY <1>1 DEF Without
<1> QED
  BY <1>2, <1>3 DEF Maps, Without

(* What load makes of a page is a map. *)
LEMMA EntriesType ==
  ASSUME NEW file \in [Pages -> Contents], NEW p \in Pages
  PROVE  EntriesOf(file, p) \in Maps
<1>1. file[p] \in Contents
  OBVIOUS
<1>2. CASE file[p] = Nothing \/ file[p] = SchemaList \/ \E id \in Ids : file[p] = Data(id)
  <2>1. file[p].kind # "leaf"
    BY <1>2, Kinds
  <2> QED
    BY <2>1, NoEntriesType DEF EntriesOf
<1>3. CASE \E f \in Maps : file[p] = Leaf(f)
  BY <1>3, Kinds DEF EntriesOf
<1> QED
  BY <1>1, <1>2, <1>3 DEF Contents

(* A tree without a node is on one page. *)
LEMMA OnePage ==
  ASSUME NEW file, NEW p, file[p].kind # "node"
  PROVE  TreePages(file, p) = <<p>> /\ Range(TreePages(file, p)) = {p}
<1>1. TreePages(file, p) = <<p>>
  BY DEF TreePages
<1>2. Range(<<p>>) = {p}
  BY DEF Range
<1> QED
  BY <1>1, <1>2

(* The map at the page p is what load makes of a tree on that page alone. *)
LEMMA OneMap ==
  ASSUME NEW file \in [Pages -> Contents], NEW p \in Pages, file[p].kind # "node"
  PROVE  LET ps == Range(TreePages(file, p)) IN
         [id \in UNION {DOMAIN EntriesOf(file, q) : q \in ps} |->
            EntriesOf(file, CHOOSE q \in ps : id \in DOMAIN EntriesOf(file, q))[id]]
         = EntriesOf(file, p)
<1> DEFINE f  == EntriesOf(file, p)
           ps == Range(TreePages(file, p))
           D  == UNION {DOMAIN EntriesOf(file, q) : q \in ps}
           Where(id) == CHOOSE q \in ps : id \in DOMAIN EntriesOf(file, q)
<1>1. f = [id \in DOMAIN f |-> f[id]]
  BY EntriesType, MapType
<1>2. ps = {p}
  BY OnePage
<1> HIDE DEF ps
<1>3. D = DOMAIN f
  BY <1>2
<1>4. ASSUME NEW id \in D
      PROVE  Where(id) = p
  BY <1>2, <1>3, <1>4
<1> HIDE DEF Where, D
<1>5. [id \in D |-> EntriesOf(file, Where(id))[id]] = [id \in D |-> f[id]]
  BY <1>4
<1>6. [id \in D |-> EntriesOf(file, Where(id))[id]] = f
  BY <1>1, <1>3, <1>5
<1> QED
  BY <1>6 DEF ps, D, Where

LEMMA DurableType ==
  ASSUME Typed
  PROVE  Durable \in Maps
<1>1. CASE klassDisk.managed
  <2>1. klassDisk.indexPage \in Pages
    BY <1>1, KlassType DEF Typed
  <2> QED
    BY <1>1, <2>1, EntriesType DEF Typed, Durable
<1>2. CASE ~klassDisk.managed
  BY <1>2, NoEntriesType DEF Durable
<1> QED
  BY <1>1, <1>2

LEMMA LoadedIsDurable ==
  ASSUME Typed, FileOK
  PROVE  Loaded = Durable
<1>1. CASE klassDisk.managed
  <2> DEFINE q == klassDisk.indexPage
  <2>1. q \in Pages
    BY <1>1, KlassType DEF Typed
  <2>2. page[q].kind # "node"
    BY <1>1 DEF FileOK
  <2>3. page \in [Pages -> Contents]
    BY DEF Typed
  <2>4. Loaded = EntriesOf(page, q)
    BY <1>1, <2>1, <2>2, <2>3, OneMap DEF Loaded
  <2> QED
    BY <1>1, <2>4 DEF Durable
<1>2. CASE ~klassDisk.managed
  BY <1>2 DEF Loaded, Durable
<1> QED
  BY <1>1, <1>2

-----------------------------------------------------------------------------
(* The commit of an index of one leaf.                                       *)

LEMMA OneLeafIsEnough ==
  ASSUME NEW n \in Nat, LeafSize \in Nat \ {0}, n <= LeafSize
  PROVE  PagesFor(n) = 1
<1>1. (n + LeafSize - 1) \in Nat /\ n + LeafSize - 1 < 2 * LeafSize
  OBVIOUS
<1>2. ASSUME NEW m \in Nat, NEW l \in Nat \ {0}, m < 2 * l
      PROVE  m \div l <= 1
  <2>1. m = l * (m \div l) + (m % l) /\ m % l \in 0 .. l - 1 /\ m \div l \in Int
    OBVIOUS
  <2>2. ASSUME m \div l >= 2
        PROVE  FALSE
    <3>1. l * (m \div l) >= l * 2
      BY <2>1, <2>2
    <3> QED
      BY <1>2, <2>1, <3>1
  <2> QED
    BY <2>1, <2>2
<1> QED
  BY <1>1, <1>2 DEF PagesFor, Leaves

LEMMA CommitOneLeaf ==
  ASSUME OneLeaf, page \in [Pages -> Contents], index \in Maps, used \in SUBSET Pages,
         NEW q \in Pages, pageIds = <<q>>, CommitIndex
  PROVE  /\ used' = used
         /\ pageIds' = pageIds
         /\ page' = [page EXCEPT ![q] = Leaf(index)]
         /\ stored' = DOMAIN index
<1>1. PagesFor(Entries) = 1
  <2>1. DOMAIN index \in SUBSET Ids
    BY MapType
  <2>2. IsFiniteSet(Ids) /\ Cardinality(Ids) = MaxId + 1
    BY FS_Interval, TransactionsAssumption DEF Ids
  <2>3. Cardinality(DOMAIN index) \in Nat /\ Cardinality(DOMAIN index) <= MaxId + 1
    BY <2>1, <2>2, FS_Subset, FS_CardinalityType
  <2>4. Cardinality(DOMAIN index) <= LeafSize
    BY <2>3, TransactionsAssumption DEF OneLeaf
  <2> QED
    BY <2>3, <2>4, OneLeafIsEnough, TransactionsAssumption DEF Entries
<1>2. Max({0, PagesFor(Entries) - Len(pageIds)}) = 0
  BY <1>1 DEF Max
<1>3. PICK new \in kSubset(0, Free) :
        /\ used' = used \cup new
        /\ pageIds' = SubSeq(pageIds \o SetToSeq(new), 1, 1)
        /\ page' = WithIndex(page, index, pageIds')
        /\ stored' = DOMAIN index
  BY <1>1, <1>2 DEF CommitIndex
<1>4. new = {}
  <2>1. new \in SUBSET Pages /\ Cardinality(new) = 0
    BY <1>3 DEF kSubset, Free
  <2>2. IsFiniteSet(new)
    BY <2>1, FS_Subset, TransactionsAssumption
  <2> QED
    BY <2>1, <2>2, FS_EmptySet
<1>5. pageIds' = <<q>>
  <2>1. SetToSeq(new) \in Seq(Pages)
    <3> DEFINE C == [1 .. Cardinality(new) -> new]
    <3>1. 1 .. Cardinality(new) = {}
      BY <1>4, FS_EmptySet
    <3>2. << >> \in C /\ IsInjective(<< >>)
      BY <1>4, <3>1 DEF IsInjective
    <3>3. SetToSeq(new) \in C
      BY <3>2 DEF SetToSeq
    <3>4. C = [1 .. 0 -> {}]
      BY <1>4, FS_EmptySet
    <3>5. ASSUME NEW e \in [1 .. 0 -> {}]
          PROVE  e \in Seq(Pages)
      OBVIOUS
    <3> HIDE DEF C
    <3> QED
      BY <3>3, <3>4, <3>5
  <2>2. PICK e \in Seq(Pages) : e = SetToSeq(new)
    BY <2>1
  <2>3. SubSeq(<<q>> \o e, 1, 1) = <<q>>
    <3> DEFINE s == <<q>> \o e
    <3>1. <<q>> \in Seq(Pages) /\ Len(<<q>>) = 1 /\ <<q>>[1] = q
      OBVIOUS
    <3>2. s \in Seq(Pages) /\ Len(s) >= 1 /\ s[1] = q
      BY <3>1, ConcatProperties
    <3> HIDE DEF s
    <3>3. SubSeq(s, 1, 1) \in Seq(Pages) /\ Len(SubSeq(s, 1, 1)) = 1
      BY <3>2
    <3>4. SubSeq(s, 1, 1)[1] = q
      BY <3>2
    <3>5. PICK r : r = SubSeq(s, 1, 1)
      OBVIOUS
    <3>6. r \in Seq(Pages) /\ Len(r) = Len(<<q>>)
      BY <3>1, <3>3, <3>5
    <3>7. \A i \in 1 .. Len(r) : r[i] = <<q>>[i]
      BY <3>1, <3>3, <3>4, <3>5
    <3>8. r = <<q>>
      BY <3>1, <3>6, <3>7, SeqEqual
    <3> QED
      BY <3>5, <3>8 DEF s
  <2> QED
    BY <1>3, <2>2, <2>3
<1>6. WithIndex(page, index, <<q>>) = [page EXCEPT ![q] = Leaf(index)]
  <2>1. Range(<<q>>) = {q} /\ Len(<<q>>) = 1
    BY DEF Range
  <2> QED
    BY <2>1 DEF WithIndex
<1> QED
  BY <1>3, <1>4, <1>5, <1>6

-----------------------------------------------------------------------------
(* What the parts of the invariant say of one state.                         *)

LEMMA IdleFields ==
  Idle.op = "none" /\ Idle.step = "idle" /\ Idle.id = Null /\ Idle.place = Null
BY DEF Idle

(* A transaction in progress has a step and a page. *)
LEMMA TransType ==
  ASSUME Typed
  PROVE  /\ trans.op \in {"none", "first", "insert", "delete"}
         /\ trans.op = "none" \/ trans.step = "idle" => trans = Idle
         /\ trans.op # "none" =>
              /\ open /\ trans.step \in Steps /\ trans.place \in Pages
              /\ trans.id \in Ids \cup {Null}
              /\ trans \in [op : {"first", "insert", "delete"}, step : Steps,
                            id : Ids \cup {Null}, place : Pages]
         /\ ~open => trans = Idle
<1>1. CASE trans = Idle
  BY <1>1, IdleFields
<1>2. CASE trans # Idle
  <2>1. open /\ trans \in [op : {"first", "insert", "delete"}, step : Steps,
                           id : Ids \cup {Null}, place : Pages]
    BY <1>2 DEF Typed
  <2>2. "idle" \notin Steps
    BY DEF Steps
  <2> QED
    BY <2>1, <2>2
<1> QED
  BY <1>1, <1>2

(* A step of a transaction, as the guards name it. *)
LEMMA Stepping ==
  ASSUME IInv, NEW s, At(s), s # "idle"
  PROVE  /\ open /\ trans.step = s /\ s \in Steps
         /\ Typed /\ FileOK /\ MemoryOK /\ TransOK
         /\ trans.op \in {"first", "insert", "delete"} /\ trans.op # "none"
         /\ Inserting \/ Deleting
         /\ trans.place \in Pages /\ trans.id \in Ids \cup {Null}
         /\ trans \in [op : {"first", "insert", "delete"}, step : Steps,
                       id : Ids \cup {Null}, place : Pages]
<1>1. open /\ trans.step = s /\ Typed /\ FileOK /\ MemoryOK /\ TransOK
  BY DEF IInv, At
<1>2. trans # Idle
  BY <1>1, IdleFields
<1>3. trans.op # "none"
  BY <1>1, <1>2, TransType
<1> QED
  BY <1>1, <1>3, TransType DEF Inserting, Deleting

LEMMA Resting ==
  ASSUME IInv, At("idle")
  PROVE  /\ open /\ trans = Idle /\ Kept = stored
         /\ Typed /\ FileOK /\ MemoryOK /\ TransOK
         /\ ~Inserting /\ ~Deleting /\ ~Entered
         /\ used = usedDisk /\ klass = klassDisk /\ index = Durable
<1>1. open /\ Typed /\ FileOK /\ MemoryOK /\ TransOK /\ trans.step = "idle"
  BY DEF IInv, At
<1>2. trans = Idle
  BY <1>1, TransType
<1>3. ~Inserting /\ ~Deleting /\ ~Entered
  BY <1>2, IdleFields DEF Inserting, Deleting, Entered
<1>4. Kept = stored
  BY <1>2, IdleFields DEF Kept
<1>5. used = usedDisk
  BY <1>1, <1>3 DEF MemoryOK
<1>6. klass = klassDisk /\ index = Durable
  BY <1>1, <1>3 DEF MemoryOK
<1> QED
  BY <1>1, <1>2, <1>3, <1>4, <1>5, <1>6

(* The pages of the class and of its objects are apart, and marked once the
   class is. *)
LEMMA FilePages ==
  ASSUME Typed, FileOK, klassDisk.managed
  PROVE  /\ klassDisk.indexPage \in Pages /\ klassDisk.schemaPage \in Pages
         /\ klassDisk.indexPage # klassDisk.schemaPage
         /\ Durable = EntriesOf(page, klassDisk.indexPage)
         /\ Durable \in Maps
         /\ \A id \in stored : Durable[id] \in Pages
BY KlassType, DurableType, MapType DEF Typed, FileOK, Durable

(* A step that leaves the file alone, and does not give up an object. *)
LEMMA FileSame ==
  ASSUME FileOK, UNCHANGED <<usedDisk, klassDisk, page, stored>>, Kept' \subseteq Kept,
         klassDisk.managed /\ trans'.op # "first" => trans.op # "first"
  PROVE  FileOK' /\ Durable' = Durable
<1>1. Durable' = Durable
  BY DEF Durable
<1> QED
  BY <1>1 DEF FileOK

-----------------------------------------------------------------------------
(* The invariant, step by step.                                              *)

LEMMA InitHolds ==
  ASSUME Init
  PROVE  IInv
<1>1. ~klassDisk.managed /\ ~klass.managed
  BY DEF Init, NotManaged
<1>2. Durable = NoEntries
  BY <1>1 DEF Durable
<1>3. trans.op = "none" /\ trans.step = "idle" /\ ~Inserting /\ ~Deleting /\ ~Entered
  BY IdleFields DEF Init, Inserting, Deleting, Entered
<1>4. Typed
  <2>1. page \in [Pages -> Contents]
    BY DEF Init, Contents
  <2>2. klass \in Klasses /\ klassDisk \in Klasses
    BY DEF Init, Klasses
  <2> QED
    BY <2>1, <2>2 DEF Init, Typed
<1>5. FileOK
  <2>1. Kept = {} /\ stored = {}
    BY DEF Init, Kept
  <2> QED
    BY <1>1, <1>2, <2>1, NoEntriesType DEF Init, FileOK
<1>6. MemoryOK
  BY <1>1, <1>2, <1>3 DEF Init, MemoryOK
<1>7. TransOK
  BY <1>3 DEF TransOK
<1> QED
  BY <1>4, <1>5, <1>6, <1>7 DEF IInv

LEMMA StutterHolds ==
  ASSUME IInv, UNCHANGED vars
  PROVE  IInv'
BY DEF IInv, Typed, FileOK, MemoryOK, TransOK, Inserting, Deleting, Entered, Steps,
       Durable, EntriesOf, Kept, vars

LEMMA StartInsertHolds ==
  ASSUME IInv, StartInsert
  PROVE  IInv'
<1>1. /\ open /\ trans = Idle /\ Kept = stored
      /\ Typed /\ FileOK /\ MemoryOK /\ TransOK
      /\ used = usedDisk /\ klass = klassDisk /\ index = Durable
  BY Resting DEF StartInsert
<1>2. PICK p \in Free :
        /\ used' = used \cup {p}
        /\ trans' = [op |-> IF klass.managed THEN "insert" ELSE "first",
                     step |-> "klass", id |-> Null, place |-> p]
  BY DEF StartInsert
<1>3. /\ klass.nextId <= MaxId
      /\ UNCHANGED <<open, usedDisk, klass, klassDisk, index, pageIds, page, stored>>
  BY DEF StartInsert
<1>4. p \in Pages /\ p \notin used
  BY DEF Free
<1>5. /\ trans'.op = IF klass.managed THEN "insert" ELSE "first"
      /\ trans'.step = "klass" /\ trans'.id = Null /\ trans'.place = p
  BY <1>2
<1>6. klass.managed \in BOOLEAN
  BY <1>1, KlassType DEF Typed
<1>7. Inserting' /\ ~Deleting' /\ ~Entered' /\ "klass" \in Steps'
  BY <1>5, <1>6 DEF Inserting, Deleting, Entered, Steps
<1>8. Typed'
  <2>1. trans' \in [op : {"first", "insert", "delete"}, step : Steps',
                    id : Ids \cup {Null}, place : Pages]
    BY <1>2, <1>4, <1>6, <1>7
  <2>2. used' \in SUBSET Pages
    BY <1>1, <1>2, <1>4 DEF Typed
  <2> QED
    BY <1>1, <1>3, <2>1, <2>2 DEF Typed
<1>9. FileOK' /\ Durable' = Durable
  <2>1. Kept' \subseteq Kept
    BY <1>1, <1>3, <1>5, <1>6 DEF Kept
  <2>2. trans.op # "first"
    BY <1>1, IdleFields
  <2> QED
    BY <1>1, <1>3, <2>1, <2>2, FileSame
<1>10. MemoryOK'
  BY <1>1, <1>2, <1>3, <1>5, <1>7, <1>9 DEF MemoryOK
<1>11. TransOK'
  <2>1. \A id \in stored : Durable[id] # p
    BY <1>1, <1>4 DEF FileOK
  <2>2. klass.managed => p \notin {klass.indexPage, klass.schemaPage}
    BY <1>1, <1>4 DEF MemoryOK
  <2> QED
    BY <1>2, <1>3, <1>5, <1>6, <1>7, <1>9, <2>1, <2>2 DEF TransOK
<1> QED
  BY <1>8, <1>9, <1>10, <1>11 DEF IInv

(* To changes the step of the transaction and nothing else of it. *)
LEMMA Advance ==
  ASSUME IInv, NEW r, At(r), r # "idle", NEW s \in Steps, To(s)
  PROVE  /\ trans'.op = trans.op /\ trans'.step = s
         /\ trans'.id = trans.id /\ trans'.place = trans.place
         /\ (Inserting' <=> Inserting) /\ (Deleting' <=> Deleting)
         /\ trans' \in [op : {"first", "insert", "delete"}, step : Steps',
                        id : Ids \cup {Null}, place : Pages]
         /\ stored' = stored => Kept' = Kept
         /\ (Inserting <=> ~Deleting)
<1>1. trans \in [op : {"first", "insert", "delete"}, step : Steps,
                 id : Ids \cup {Null}, place : Pages]
  BY Stepping
<1>2. trans' = [trans EXCEPT !.step = s]
  BY DEF To
<1>3. /\ trans'.op = trans.op /\ trans'.step = s
      /\ trans'.id = trans.id /\ trans'.place = trans.place
  BY <1>1, <1>2
<1>4. (Inserting' <=> Inserting) /\ (Deleting' <=> Deleting) /\ Steps' = Steps
  BY <1>3 DEF Inserting, Deleting, Steps
<1>5. trans' \in [op : {"first", "insert", "delete"}, step : Steps,
                  id : Ids \cup {Null}, place : Pages]
  BY <1>1, <1>2
<1>6. stored' = stored => Kept' = Kept
  BY <1>3 DEF Kept
<1>7. (Inserting <=> ~Deleting)
  BY <1>1 DEF Inserting, Deleting
<1> QED
  BY <1>3, <1>4, <1>5, <1>6, <1>7

LEMMA AddKlassHolds ==
  ASSUME IInv, AddKlass
  PROVE  IInv'
<1>1. /\ open /\ trans.step = "klass" /\ "klass" \in Steps
      /\ Typed /\ FileOK /\ MemoryOK /\ TransOK
      /\ trans.place \in Pages
  BY Stepping DEF AddKlass
<1>2. Inserting /\ "index" \in Steps
  BY <1>1 DEF Steps, Inserting
<1>3. /\ trans'.op = trans.op /\ trans'.step = "index"
      /\ trans'.id = trans.id /\ trans'.place = trans.place
      /\ Inserting' /\ ~Deleting' /\ ~Deleting
      /\ trans' \in [op : {"first", "insert", "delete"}, step : Steps',
                     id : Ids \cup {Null}, place : Pages]
      /\ Kept' = Kept
  BY <1>2, Advance DEF AddKlass
<1>4. PICK p \in Free, q \in Free :
        /\ p # q
        /\ used' = used \cup {p, q}
        /\ klass' = [managed |-> TRUE, schemaPage |-> p, indexPage |-> q, nextId |-> 0]
        /\ pageIds' = <<q>>
  BY DEF AddKlass
<1>5. /\ klassDisk' = klass' /\ ~klass.managed
      /\ UNCHANGED <<open, usedDisk, index, page, stored>>
  BY DEF AddKlass
<1>6. p \in Pages /\ q \in Pages /\ p # q /\ p \notin used /\ q \notin used
  BY <1>4 DEF Free
<1>7. /\ klass'.managed /\ klass'.schemaPage = p /\ klass'.indexPage = q
      /\ klass'.nextId = 0 /\ klass' \in Klasses
  BY <1>4, <1>6 DEF Klasses
<1>8. ~Entered /\ ~Entered' /\ trans.op = "first"
  BY <1>1, <1>2, <1>3, <1>5 DEF Entered, TransOK
<1>9. klass = klassDisk /\ index = Durable
  BY <1>1, <1>3, <1>8 DEF MemoryOK
<1>10. page = [z \in Pages |-> Nothing] /\ Durable = NoEntries /\ stored = {}
  <2>1. page = [z \in Pages |-> Nothing] /\ Durable = NoEntries
    BY <1>1, <1>5, <1>9 DEF FileOK, Durable
  <2>2. DOMAIN Durable = stored
    BY <1>1 DEF FileOK
  <2> QED
    BY <2>1, <2>2, NoEntriesType
<1>11. Durable' = Durable /\ page'[q].kind # "node"
  <2>1. page'[q] = Nothing
    BY <1>5, <1>6, <1>10
  <2>2. EntriesOf(page, q) = NoEntries
    BY <1>6, <1>10, Kinds DEF EntriesOf
  <2> QED
    BY <1>5, <1>7, <1>10, <2>1, <2>2, Kinds DEF Durable
<1>12. Typed'
  <2>1. used' \in SUBSET Pages
    BY <1>1, <1>4, <1>6 DEF Typed
  <2> QED
    BY <1>1, <1>3, <1>5, <1>7, <2>1 DEF Typed
<1>13. FileOK'
  <2>1. klassDisk'.managed /\ klassDisk'.indexPage # klassDisk'.schemaPage
    BY <1>5, <1>6, <1>7
  <2>2. stored' = {} /\ Kept' = {} /\ DOMAIN Durable' = {}
    BY <1>3, <1>5, <1>10, <1>11, NoEntriesType DEF Kept
  <2> QED
    BY <1>3, <1>5, <1>7, <1>8, <1>11, <2>1, <2>2 DEF FileOK
<1>14. MemoryOK'
  <2>1. usedDisk' \subseteq used'
    BY <1>1, <1>4, <1>5 DEF MemoryOK
  <2>2. index' = Durable'
    BY <1>5, <1>9, <1>11
  <2> QED
    BY <1>3, <1>4, <1>5, <1>7, <1>8, <2>1, <2>2 DEF MemoryOK
<1>15. TransOK'
  <2>1. trans.place \in used
    BY <1>1, <1>2 DEF TransOK
  <2>2. trans.place \in used' /\ trans.place \notin {p, q}
    BY <1>4, <1>6, <2>1
  <2>3. klass'.nextId <= MaxId
    BY <1>7, TransactionsAssumption
  <2> QED
    BY <1>3, <1>5, <1>7, <1>8, <1>10, <2>2, <2>3 DEF TransOK
<1> QED
  BY <1>12, <1>13, <1>14, <1>15 DEF IInv

LEMMA KlassKnownHolds ==
  ASSUME IInv, KlassKnown
  PROVE  IInv'
<1>1. /\ open /\ trans.step = "klass" /\ "klass" \in Steps
      /\ Typed /\ FileOK /\ MemoryOK /\ TransOK
  BY Stepping DEF KlassKnown
<1>2. Inserting /\ "index" \in Steps
  BY <1>1 DEF Steps, Inserting
<1>3. /\ trans'.op = trans.op /\ trans'.step = "index"
      /\ trans'.id = trans.id /\ trans'.place = trans.place
      /\ Inserting' /\ ~Deleting' /\ ~Deleting
      /\ trans' \in [op : {"first", "insert", "delete"}, step : Steps',
                     id : Ids \cup {Null}, place : Pages]
      /\ Kept' = Kept
  BY <1>2, Advance DEF KlassKnown
<1>4. /\ klass.managed
      /\ UNCHANGED <<open, used, usedDisk, klass, klassDisk, index, pageIds, page, stored>>
  BY DEF KlassKnown
<1>5. ~Entered /\ ~Entered'
  BY <1>1, <1>3 DEF Entered
<1>6. Typed'
  BY <1>1, <1>3, <1>4 DEF Typed
<1>7. FileOK' /\ Durable' = Durable
  BY <1>1, <1>3, <1>4, FileSame
<1>8. MemoryOK'
  BY <1>1, <1>3, <1>4, <1>5, <1>7 DEF MemoryOK
<1>9. TransOK'
  BY <1>1, <1>2, <1>3, <1>4, <1>5, <1>7 DEF TransOK
<1> QED
  BY <1>6, <1>7, <1>8, <1>9 DEF IInv

(* The class keeps its pages; its next id is an id more. *)
LEMMA NextId ==
  ASSUME NEW k \in Klasses, NEW j, j = [k EXCEPT !.nextId = @ + 1]
  PROVE  /\ j.managed = k.managed /\ j.schemaPage = k.schemaPage
         /\ j.indexPage = k.indexPage /\ j.nextId = k.nextId + 1
         /\ k.managed => j \in Klasses
<1>1. CASE k = NotManaged
  BY <1>1 DEF NotManaged
<1>2. CASE k \in [managed : {TRUE}, schemaPage : Pages, indexPage : Pages, nextId : Nat]
  <2>1. j \in [managed : {TRUE}, schemaPage : Pages, indexPage : Pages, nextId : Nat]
    <3>1. k.nextId + 1 \in Nat
      BY <1>2
    <3> DEFINE n == k.nextId + 1
    <3>2. j = [k EXCEPT !.nextId = n]
      OBVIOUS
    <3> HIDE DEF n
    <3> QED
      BY <1>2, <3>1, <3>2 DEF n
  <2>2. /\ j.schemaPage = k.schemaPage /\ j.indexPage = k.indexPage
        /\ j.nextId = k.nextId + 1
    BY <1>2
  <2>3. j.managed = TRUE /\ k.managed = TRUE
    BY <1>2, <2>1
  <2> QED
    BY <2>1, <2>2, <2>3 DEF Klasses
<1> QED
  BY <1>1, <1>2 DEF Klasses

LEMMA InsertEntryHolds ==
  ASSUME IInv, InsertEntry
  PROVE  IInv'
<1>1. /\ open /\ trans.step = "index" /\ "index" \in Steps
      /\ Typed /\ FileOK /\ MemoryOK /\ TransOK
      /\ trans.place \in Pages
      /\ trans \in [op : {"first", "insert", "delete"}, step : Steps,
                    id : Ids \cup {Null}, place : Pages]
  BY Stepping DEF InsertEntry
<1>2. Inserting /\ ~Deleting /\ "write" \in Steps
  BY <1>1 DEF Steps, Inserting, Deleting
<1>3. /\ klass' = [klass EXCEPT !.nextId = @ + 1]
      /\ index' = With(index, klass.nextId, trans.place)
      /\ trans' = [trans EXCEPT !.step = "write", !.id = klass.nextId]
      /\ UNCHANGED <<open, used, usedDisk, klassDisk, pageIds, page, stored>>
  BY DEF InsertEntry
<1>4. ~Entered /\ klass = klassDisk /\ index = Durable
  <2>1. ~Entered
    BY <1>1 DEF Entered
  <2> QED
    BY <1>1, <1>2, <2>1 DEF MemoryOK
<1>5. klass.managed /\ klass.nextId <= MaxId
  BY <1>1, <1>2 DEF TransOK
<1>6. /\ klass \in Klasses /\ klass'.managed /\ klass' \in Klasses
      /\ klass'.indexPage = klass.indexPage /\ klass'.schemaPage = klass.schemaPage
      /\ klass'.nextId = klass.nextId + 1 /\ klass.nextId \in Nat
  BY <1>1, <1>3, <1>5, KlassType, NextId DEF Typed
<1>7. klass.nextId \in Ids
  BY <1>5, <1>6, TransactionsAssumption DEF Ids
<1>8. /\ trans'.op = trans.op /\ trans'.step = "write"
      /\ trans'.id = klass.nextId /\ trans'.place = trans.place
  BY <1>1, <1>3
<1>9. Inserting' /\ ~Deleting' /\ Entered' /\ Steps' = Steps
  BY <1>2, <1>8 DEF Inserting, Deleting, Entered, Steps
<1>10. Typed'
  <2>1. trans' \in [op : {"first", "insert", "delete"}, step : Steps',
                    id : Ids \cup {Null}, place : Pages]
    BY <1>1, <1>2, <1>3, <1>7, <1>9
  <2> QED
    BY <1>1, <1>3, <1>6, <2>1 DEF Typed
<1>11. FileOK' /\ Durable' = Durable
  <2>1. Kept' = Kept
    BY <1>2, <1>3, <1>9 DEF Kept, Deleting
  <2> QED
    BY <1>1, <1>3, <1>8, <2>1, FileSame
<1>12. MemoryOK'
  BY <1>1, <1>2, <1>3, <1>4, <1>5, <1>6, <1>8, <1>9, <1>11 DEF MemoryOK
<1>13. TransOK'
  <2>1. klass.nextId \notin stored
    BY <1>1, <1>4, <1>6 DEF FileOK
  <2>2. /\ trans.place \in used /\ \A id \in stored : Durable[id] # trans.place
        /\ trans.place \notin {klass.indexPage, klass.schemaPage}
    BY <1>1, <1>2, <1>5 DEF TransOK
  <2> QED
    BY <1>3, <1>6, <1>7, <1>8, <1>9, <1>11, <2>1, <2>2 DEF TransOK
<1> QED
  BY <1>10, <1>11, <1>12, <1>13 DEF IInv

(* The entry is in memory: its id is new, and its page is nobody's. *)
LEMMA EntryInMemory ==
  ASSUME IInv, open, Entered
  PROVE  /\ Inserting /\ ~Deleting
         /\ klass.managed /\ klassDisk.managed /\ klass \in Klasses /\ klassDisk \in Klasses
         /\ klass.indexPage = klassDisk.indexPage /\ klass.schemaPage = klassDisk.schemaPage
         /\ trans.id \in Ids \ stored /\ trans.id < klass.nextId
         /\ trans.place \in used
         /\ trans.place # klassDisk.indexPage /\ trans.place # klassDisk.schemaPage
         /\ \A id \in stored : Durable[id] # trans.place
<1>1. Typed /\ FileOK /\ MemoryOK /\ TransOK
  BY DEF IInv
<1>2. Inserting /\ ~Deleting /\ trans.step \notin {"klass", "schemaCommit"}
  BY DEF Entered, Inserting, Deleting
<1>3. klass.managed /\ klass \in Klasses /\ klassDisk \in Klasses
  BY <1>1, <1>2 DEF TransOK, Typed
<1>4. /\ klass.indexPage = klassDisk.indexPage /\ klass.schemaPage = klassDisk.schemaPage
      /\ klass.managed = klassDisk.managed
  BY <1>1, <1>3, NextId DEF MemoryOK
<1> QED
  BY <1>1, <1>2, <1>3, <1>4 DEF TransOK

LEMMA WriteRecordHolds ==
  ASSUME IInv, WriteRecord
  PROVE  IInv'
<1>1. /\ open /\ trans.step = "write" /\ "write" \in Steps
      /\ Typed /\ FileOK /\ MemoryOK /\ TransOK
      /\ trans.place \in Pages
  BY Stepping DEF WriteRecord
<1>2. Inserting /\ "policyCommit" \in Steps /\ Entered
  BY <1>1 DEF Steps, Inserting, Entered
<1>3. /\ trans'.op = trans.op /\ trans'.step = "policyCommit"
      /\ trans'.id = trans.id /\ trans'.place = trans.place
      /\ Inserting' /\ ~Deleting' /\ ~Deleting
      /\ trans' \in [op : {"first", "insert", "delete"}, step : Steps',
                     id : Ids \cup {Null}, place : Pages]
      /\ (stored' = stored => Kept' = Kept)
  BY <1>2, Advance DEF WriteRecord
<1>4. /\ page' = [page EXCEPT ![trans.place] = Data(trans.id)]
      /\ UNCHANGED <<open, used, usedDisk, klass, klassDisk, index, pageIds, stored>>
  BY DEF WriteRecord
<1>5. Entered'
  BY <1>3 DEF Entered
<1>6. /\ klassDisk.managed /\ trans.id \in Ids
      /\ trans.place # klassDisk.indexPage
      /\ \A id \in stored : Durable[id] # trans.place
  BY <1>1, <1>2, EntryInMemory
<1>7. Typed'
  <2>1. Data(trans.id) \in Contents
    BY <1>6 DEF Contents
  <2>2. page' \in [Pages -> Contents]
    BY <1>1, <1>4, <2>1 DEF Typed
  <2> QED
    BY <1>1, <1>3, <1>4, <2>2 DEF Typed
<1>8. klassDisk.indexPage \in Pages /\ \A id \in stored : Durable[id] \in Pages
  BY <1>1, <1>6, FilePages
<1>9. page'[klassDisk.indexPage] = page[klassDisk.indexPage] /\ Durable' = Durable
  <2>1. page'[klassDisk.indexPage] = page[klassDisk.indexPage]
    BY <1>4, <1>6, <1>8
  <2> QED
    BY <1>4, <2>1 DEF Durable, EntriesOf
<1>10. FileOK'
  <2>1. \A id \in stored : page'[Durable[id]] = page[Durable[id]]
    BY <1>4, <1>6, <1>8
  <2>2. Kept' = Kept /\ Kept \subseteq stored
    BY <1>3, <1>4 DEF Kept
  <2> QED
    BY <1>1, <1>3, <1>4, <1>6, <1>9, <2>1, <2>2 DEF FileOK
<1>11. MemoryOK'
  BY <1>1, <1>2, <1>3, <1>4, <1>5, <1>9 DEF MemoryOK
<1>12. TransOK'
  <2>1. page'[trans.place] = Data(trans.id)
    BY <1>1, <1>4 DEF Typed
  <2> QED
    BY <1>1, <1>2, <1>3, <1>4, <1>5, <1>9, <2>1 DEF TransOK
<1> QED
  BY <1>7, <1>10, <1>11, <1>12 DEF IInv

LEMMA CommitPolicyHolds ==
  ASSUME IInv, CommitPolicy
  PROVE  IInv'
<1> DEFINE next == IF trans.op = "delete" THEN "indexCommit" ELSE "klassCommit"
<1>1. /\ open /\ trans.step = "policyCommit"
      /\ Typed /\ FileOK /\ MemoryOK /\ TransOK
      /\ trans.op \in {"first", "insert", "delete"}
  BY Stepping DEF CommitPolicy
<1>2. next \in Steps
  BY <1>1 DEF Steps, Inserting
<1>3. /\ trans'.op = trans.op /\ trans'.step = next
      /\ trans'.id = trans.id /\ trans'.place = trans.place
      /\ (Inserting' <=> Inserting) /\ (Deleting' <=> Deleting)
      /\ trans' \in [op : {"first", "insert", "delete"}, step : Steps',
                     id : Ids \cup {Null}, place : Pages]
      /\ (stored' = stored => Kept' = Kept)
      /\ (Inserting <=> ~Deleting)
  BY <1>2, Advance DEF CommitPolicy
<1>4. /\ usedDisk' = used
      /\ UNCHANGED <<open, used, klass, klassDisk, index, pageIds, page, stored>>
  BY DEF CommitPolicy
<1>5. (Entered <=> Inserting) /\ (Entered' <=> Inserting)
  BY <1>1, <1>3 DEF Entered, Inserting
<1>6. trans'.step = "indexCommit" => ~Inserting
  BY <1>3 DEF Inserting
<1>7. trans'.step # "remove" /\ trans'.step \in {"indexCommit", "klassCommit"}
  BY <1>3
<1>8. Durable' = Durable
  BY <1>4 DEF Durable
<1>9. Typed'
  BY <1>1, <1>3, <1>4 DEF Typed
<1>10. FileOK'
  <2>1. usedDisk \subseteq usedDisk'
    BY <1>1, <1>4 DEF MemoryOK
  <2>2. Kept' = Kept
    BY <1>3, <1>4
  <2> QED
    BY <1>1, <1>3, <1>4, <1>8, <2>1, <2>2 DEF FileOK
<1>11. MemoryOK'
  <2>1. klass' = IF Entered' /\ trans'.step # "indexCommit"
                 THEN [klassDisk' EXCEPT !.nextId = @ + 1] ELSE klassDisk'
    BY <1>1, <1>4, <1>5, <1>6 DEF MemoryOK
  <2>2. index' = IF Entered' THEN With(Durable', trans'.id, trans'.place)
                 ELSE IF Deleting' /\ trans'.step # "remove" THEN Without(Durable', trans'.id)
                 ELSE Durable'
    BY <1>1, <1>3, <1>4, <1>5, <1>7, <1>8 DEF MemoryOK
  <2>3. klass'.managed =>
          /\ pageIds' = <<klass'.indexPage>>
          /\ klass'.indexPage \in used' /\ klass'.schemaPage \in used'
    BY <1>1, <1>4 DEF MemoryOK
  <2> QED
    BY <1>4, <2>1, <2>2, <2>3 DEF MemoryOK
<1>12. TransOK'
  BY <1>1, <1>3, <1>4, <1>5, <1>7, <1>8 DEF TransOK
<1> QED
  BY <1>9, <1>10, <1>11, <1>12 DEF IInv

LEMMA CommitKlassHolds ==
  ASSUME IInv, CommitKlass
  PROVE  IInv'
<1>1. /\ open /\ trans.step = "klassCommit" /\ "klassCommit" \in Steps
      /\ Typed /\ FileOK /\ MemoryOK /\ TransOK
  BY Stepping DEF CommitKlass
<1>2. Inserting /\ "indexCommit" \in Steps /\ Entered
  BY <1>1 DEF Steps, Inserting, Entered
<1>3. /\ trans'.op = trans.op /\ trans'.step = "indexCommit"
      /\ trans'.id = trans.id /\ trans'.place = trans.place
      /\ Inserting' /\ ~Deleting' /\ ~Deleting
      /\ trans' \in [op : {"first", "insert", "delete"}, step : Steps',
                     id : Ids \cup {Null}, place : Pages]
      /\ (stored' = stored => Kept' = Kept)
  BY <1>2, Advance DEF CommitKlass
<1>4. /\ klassDisk' = klass
      /\ UNCHANGED <<open, used, usedDisk, klass, index, pageIds, page, stored>>
  BY DEF CommitKlass
<1>5. Entered'
  BY <1>3 DEF Entered
<1>6. /\ klass.managed /\ klassDisk.managed /\ klassDisk \in Klasses
      /\ klass.indexPage = klassDisk.indexPage /\ klass.schemaPage = klassDisk.schemaPage
  BY <1>1, <1>2, EntryInMemory
<1>7. klass = [klassDisk EXCEPT !.nextId = @ + 1] /\ klass.nextId = klassDisk.nextId + 1
  BY <1>1, <1>2, <1>6, NextId DEF MemoryOK
<1>8. Durable' = Durable
  BY <1>4, <1>6 DEF Durable
<1>9. Typed'
  BY <1>1, <1>3, <1>4 DEF Typed
<1>10. FileOK'
  <2>1. klassDisk'.managed /\ klassDisk'.indexPage = klassDisk.indexPage
        /\ klassDisk'.schemaPage = klassDisk.schemaPage
    BY <1>4, <1>6
  <2>2. Kept' = Kept
    BY <1>3, <1>4
  <2>3. \A id \in stored : id < klassDisk'.nextId
    <3>1. klassDisk.nextId \in Nat /\ stored \subseteq Int
      BY <1>1, <1>6, KlassType DEF Typed, Ids
    <3> QED
      BY <1>1, <1>4, <1>7, <3>1 DEF FileOK
  <2> QED
    BY <1>1, <1>3, <1>4, <1>6, <1>8, <2>1, <2>2, <2>3 DEF FileOK
<1>11. used = usedDisk
  BY <1>1 DEF MemoryOK
<1>12. MemoryOK'
  BY <1>1, <1>2, <1>3, <1>4, <1>5, <1>6, <1>8, <1>11 DEF MemoryOK
<1>13. TransOK'
  BY <1>1, <1>2, <1>3, <1>4, <1>5, <1>6, <1>8 DEF TransOK
<1> QED
  BY <1>9, <1>10, <1>12, <1>13 DEF IInv

(* The commit of the index replaces the map in the file by the one in memory. *)
LEMMA CommitFacts ==
  ASSUME OneLeaf, IInv, IndexCommit
  PROVE  LET q == klassDisk.indexPage IN
         /\ klassDisk.managed /\ klass = klassDisk /\ used = usedDisk
         /\ index \in Maps
         /\ used' = used /\ pageIds' = pageIds /\ pageIds = <<q>>
         /\ page' = [page EXCEPT ![q] = Leaf(index)]
         /\ stored' = DOMAIN index
         /\ page' \in [Pages -> Contents]
         /\ page'[q] = Leaf(index) /\ page'[q].kind # "node"
         /\ \A p \in Pages : p # q => page'[p] = page[p]
         /\ Durable' = index
         /\ UNCHANGED <<open, usedDisk, klass, klassDisk, index>>
<1> DEFINE q == klassDisk.indexPage
<1>1. /\ open /\ trans.step = "indexCommit"
      /\ Typed /\ FileOK /\ MemoryOK /\ TransOK
      /\ trans.place \in Pages /\ (Inserting \/ Deleting)
  BY Stepping DEF IndexCommit
<1>2. klass = klassDisk /\ used = usedDisk
  BY <1>1 DEF MemoryOK
<1>3. klass.managed
  BY <1>1 DEF TransOK
<1>4. q \in Pages /\ pageIds = <<q>>
  BY <1>1, <1>2, <1>3, FilePages DEF MemoryOK
<1>5. index \in Maps
  <2>1. Durable \in Maps
    BY <1>1, DurableType
  <2>2. CASE Entered
    BY <1>1, <2>1, <2>2, EntryInMemory, WithFacts DEF MemoryOK
  <2>3. CASE ~Entered
    BY <1>1, <2>1, <2>3, WithoutFacts DEF MemoryOK
  <2> QED
    BY <2>2, <2>3
<1>6. /\ page \in [Pages -> Contents] /\ used \in SUBSET Pages /\ CommitIndex
      /\ UNCHANGED <<open, usedDisk, klass, klassDisk, index>>
  BY <1>1 DEF Typed, IndexCommit
<1>7. /\ used' = used /\ pageIds' = pageIds
      /\ page' = [page EXCEPT ![q] = Leaf(index)]
      /\ stored' = DOMAIN index
  BY <1>4, <1>5, <1>6, CommitOneLeaf
<1>8. Leaf(index) \in Contents
  BY <1>5 DEF Contents
<1>9. /\ page' \in [Pages -> Contents] /\ page'[q] = Leaf(index)
      /\ \A p \in Pages : p # q => page'[p] = page[p]
  BY <1>4, <1>6, <1>7, <1>8
<1>10. page'[q].kind # "node" /\ EntriesOf(page', q) = index
  BY <1>9, Kinds DEF EntriesOf
<1>11. Durable' = index
  BY <1>2, <1>3, <1>6, <1>10 DEF Durable
<1> QED
  BY <1>2, <1>3, <1>4, <1>5, <1>6, <1>7, <1>9, <1>10, <1>11

LEMMA CommitInsertHolds ==
  ASSUME OneLeaf, IInv, IndexCommit, Inserting
  PROVE  IInv'
<1> DEFINE q == klassDisk.indexPage
<1>1. /\ open /\ trans.step = "indexCommit" /\ "indexCommit" \in Steps
      /\ Typed /\ FileOK /\ MemoryOK /\ TransOK
      /\ trans.place \in Pages
  BY Stepping DEF IndexCommit
<1>2. /\ klassDisk.managed /\ klass = klassDisk /\ used = usedDisk
      /\ used' = used /\ pageIds' = pageIds /\ pageIds = <<q>>
      /\ stored' = DOMAIN index
      /\ page' \in [Pages -> Contents] /\ page'[q].kind # "node"
      /\ \A p \in Pages : p # q => page'[p] = page[p]
      /\ Durable' = index
      /\ UNCHANGED <<open, usedDisk, klass, klassDisk, index>>
  BY CommitFacts
<1>3. Entered /\ ~Deleting /\ "schemaCommit" \in Steps /\ trans.op # "delete"
  BY <1>1 DEF Entered, Inserting, Deleting, Steps
<1>4. To("schemaCommit")
  BY <1>3 DEF IndexCommit, To
<1>5. /\ trans'.op = trans.op /\ trans'.step = "schemaCommit"
      /\ trans'.id = trans.id /\ trans'.place = trans.place
      /\ Inserting' /\ ~Deleting'
      /\ trans' \in [op : {"first", "insert", "delete"}, step : Steps',
                     id : Ids \cup {Null}, place : Pages]
  BY <1>3, <1>4, Advance DEF IndexCommit
<1>6. ~Entered'
  BY <1>5 DEF Entered
<1>7. /\ trans.id \in Ids \ stored /\ trans.id < klass.nextId
      /\ trans.place \in used
      /\ trans.place # q /\ trans.place # klassDisk.schemaPage
  BY <1>1, <1>3, EntryInMemory
<1>8. page[trans.place] = Data(trans.id)
  BY <1>1 DEF TransOK
<1>9. /\ index = With(Durable, trans.id, trans.place)
      /\ index \in Maps /\ DOMAIN index = stored \cup {trans.id}
      /\ index[trans.id] = trans.place
      /\ \A id \in stored : index[id] = Durable[id]
  <2>1. index = With(Durable, trans.id, trans.place)
    BY <1>1, <1>3 DEF MemoryOK
  <2>2. Durable \in Maps /\ DOMAIN Durable = stored
    BY <1>1, DurableType DEF FileOK
  <2>3. trans.id \in Ids /\ trans.id \notin stored /\ trans.place \in Pages
    BY <1>1, <1>7
  <2>4. PICK f, i, p : f = Durable /\ i = trans.id /\ p = trans.place
    OBVIOUS
  <2>5. /\ With(f, i, p) \in Maps /\ DOMAIN With(f, i, p) = DOMAIN f \cup {i}
        /\ With(f, i, p)[i] = p
        /\ \A k \in DOMAIN f : k # i => With(f, i, p)[k] = f[k]
    BY <2>2, <2>3, <2>4, WithFacts
  <2>6. index = With(f, i, p)
    BY <2>1, <2>4
  <2> QED
    BY <2>2, <2>3, <2>4, <2>5, <2>6
<1>10. Typed'
  <2>1. stored' \in SUBSET Ids
    BY <1>2, <1>9, MapType
  <2> QED
    BY <1>1, <1>2, <1>5, <2>1 DEF Typed
<1>11. FileOK'
  <2>1. /\ q # klassDisk.schemaPage
        /\ trans.op # "first" => q \in usedDisk /\ klassDisk.schemaPage \in usedDisk
        /\ \A id \in stored : /\ id < klassDisk.nextId
                              /\ Durable[id] # q /\ Durable[id] # klassDisk.schemaPage
        /\ \A id \in stored : page[Durable[id]] = Data(id) /\ Durable[id] \in usedDisk
    BY <1>1, <1>2, <1>3 DEF FileOK, Kept
  <2>2. Kept' = stored'
    BY <1>3, <1>5 DEF Kept
  <2>3. stored' = stored \cup {trans.id}
    BY <1>2, <1>9
  <2>4. ASSUME NEW id \in stored'
        PROVE  /\ id < klassDisk.nextId
               /\ index[id] # q /\ index[id] # klassDisk.schemaPage
               /\ page'[index[id]] = Data(id) /\ index[id] \in usedDisk
    <3>1. CASE id = trans.id
      BY <1>1, <1>2, <1>7, <1>8, <1>9, <3>1
    <3>2. CASE id \in stored
      <4>1. index[id] = Durable[id] /\ Durable[id] \in Pages
        BY <1>1, <1>2, <1>9, <3>2, FilePages
      <4> QED
        BY <1>2, <2>1, <3>2, <4>1
    <3> QED
      BY <2>3, <2>4, <3>1, <3>2
  <2>5. DOMAIN Durable' = stored'
    BY <1>2
  <2> QED
    BY <1>2, <1>5, <2>1, <2>2, <2>4, <2>5 DEF FileOK
<1>12. MemoryOK'
  BY <1>1, <1>2, <1>3, <1>5, <1>6 DEF MemoryOK
<1>13. TransOK'
  BY <1>1, <1>2, <1>5, <1>6 DEF TransOK
<1> QED
  BY <1>10, <1>11, <1>12, <1>13 DEF IInv

(* A transaction that is over. *)
LEMMA Over ==
  ASSUME trans' = Idle
  PROVE  /\ trans'.op = "none" /\ trans'.step = "idle"
         /\ ~Inserting' /\ ~Deleting' /\ ~Entered' /\ Kept' = stored'
BY IdleFields DEF Inserting, Deleting, Entered, Kept

LEMMA CommitDeleteHolds ==
  ASSUME OneLeaf, IInv, IndexCommit, Deleting
  PROVE  IInv'
<1> DEFINE q == klassDisk.indexPage
<1>1. /\ open /\ trans.step = "indexCommit"
      /\ Typed /\ FileOK /\ MemoryOK /\ TransOK
  BY Stepping DEF IndexCommit
<1>2. /\ klassDisk.managed /\ klass = klassDisk /\ used = usedDisk
      /\ used' = used /\ pageIds' = pageIds /\ pageIds = <<q>>
      /\ stored' = DOMAIN index
      /\ page' \in [Pages -> Contents] /\ page'[q].kind # "node"
      /\ \A p \in Pages : p # q => page'[p] = page[p]
      /\ Durable' = index
      /\ UNCHANGED <<open, usedDisk, klass, klassDisk, index>>
  BY CommitFacts
<1>3. /\ trans' = Idle /\ trans.op = "delete" /\ ~Inserting /\ ~Entered
      /\ Kept = stored \ {trans.id}
  BY DEF IndexCommit, Deleting, Inserting, Entered, Kept
<1>4. /\ trans'.op = "none" /\ trans'.step = "idle"
      /\ ~Inserting' /\ ~Deleting' /\ ~Entered' /\ Kept' = stored'
  BY <1>3, Over
<1>5. /\ index \in Maps /\ DOMAIN index = Kept
      /\ \A id \in Kept : index[id] = Durable[id]
  <2>1. index = Without(Durable, trans.id)
    BY <1>1, <1>3 DEF MemoryOK
  <2>2. Durable \in Maps /\ DOMAIN Durable = stored
    BY <1>1, DurableType DEF FileOK
  <2> QED
    BY <1>3, <2>1, <2>2, WithoutFacts
<1>6. Typed'
  <2>1. stored' \in SUBSET Ids
    BY <1>2, <1>5, MapType
  <2> QED
    BY <1>1, <1>2, <1>3, <2>1 DEF Typed
<1>7. FileOK'
  <2>1. /\ q # klassDisk.schemaPage
        /\ q \in usedDisk /\ klassDisk.schemaPage \in usedDisk
        /\ \A id \in stored : /\ id < klassDisk.nextId
                              /\ Durable[id] # q /\ Durable[id] # klassDisk.schemaPage
        /\ \A id \in Kept : page[Durable[id]] = Data(id) /\ Durable[id] \in usedDisk
    BY <1>1, <1>2, <1>3 DEF FileOK
  <2>2. stored' = Kept /\ Kept \subseteq stored
    BY <1>2, <1>3, <1>5
  <2>3. ASSUME NEW id \in stored'
        PROVE  /\ id < klassDisk.nextId
               /\ index[id] # q /\ index[id] # klassDisk.schemaPage
               /\ page'[index[id]] = Data(id) /\ index[id] \in usedDisk
    <3>1. index[id] = Durable[id] /\ Durable[id] \in Pages /\ id \in stored /\ id \in Kept
      BY <1>1, <1>2, <1>5, <2>2, <2>3, FilePages
    <3> QED
      BY <1>2, <2>1, <3>1
  <2>4. DOMAIN Durable' = stored'
    BY <1>2
  <2> QED
    BY <1>2, <1>4, <2>1, <2>3, <2>4 DEF FileOK
<1>8. MemoryOK'
  BY <1>1, <1>2, <1>4 DEF MemoryOK
<1>9. TransOK'
  BY <1>4 DEF TransOK
<1> QED
  BY <1>6, <1>7, <1>8, <1>9 DEF IInv

LEMMA IndexCommitHolds ==
  ASSUME OneLeaf, IInv, IndexCommit
  PROVE  IInv'
<1>1. Inserting \/ Deleting
  BY Stepping DEF IndexCommit
<1> QED
  BY <1>1, CommitInsertHolds, CommitDeleteHolds

LEMMA CommitSchemaHolds ==
  ASSUME IInv, CommitSchema
  PROVE  IInv'
<1>1. /\ open /\ trans.step = "schemaCommit" /\ "schemaCommit" \in Steps
      /\ Typed /\ FileOK /\ MemoryOK /\ TransOK
  BY Stepping DEF CommitSchema
<1>2. Inserting /\ ~Deleting /\ ~Entered
  BY <1>1 DEF Steps, Inserting, Deleting, Entered
<1>3. /\ page' = [page EXCEPT ![klass.schemaPage] = SchemaList] /\ trans' = Idle
      /\ UNCHANGED <<open, used, usedDisk, klass, klassDisk, index, pageIds, stored>>
  BY DEF CommitSchema
<1>4. /\ trans'.op = "none" /\ trans'.step = "idle"
      /\ ~Inserting' /\ ~Deleting' /\ ~Entered' /\ Kept' = stored'
  BY <1>3, Over
<1>5. klass = klassDisk /\ used = usedDisk /\ index = Durable /\ klassDisk.managed
  <2>1. klass = klassDisk /\ used = usedDisk /\ index = Durable
    BY <1>1, <1>2 DEF MemoryOK
  <2> QED
    BY <1>1, <1>2, <2>1 DEF TransOK
<1>6. Kept = stored
  BY <1>2 DEF Kept, Deleting
<1>7. /\ klassDisk.indexPage \in Pages /\ klassDisk.schemaPage \in Pages
      /\ klassDisk.indexPage # klassDisk.schemaPage
      /\ \A id \in stored : Durable[id] \in Pages /\ Durable[id] # klassDisk.schemaPage
  BY <1>1, <1>5, FilePages DEF FileOK
<1>8. Typed'
  <2>1. page' \in [Pages -> Contents]
    BY <1>1, <1>3 DEF Typed, Contents
  <2> QED
    BY <1>1, <1>3, <2>1 DEF Typed
<1>9. page'[klassDisk.indexPage] = page[klassDisk.indexPage] /\ Durable' = Durable
  <2>1. page'[klassDisk.indexPage] = page[klassDisk.indexPage]
    BY <1>3, <1>5, <1>7
  <2> QED
    BY <1>3, <2>1 DEF Durable, EntriesOf
<1>10. FileOK'
  <2>1. \A id \in stored : page'[Durable[id]] = page[Durable[id]]
    BY <1>3, <1>5, <1>7
  <2>2. klassDisk.indexPage \in usedDisk /\ klassDisk.schemaPage \in usedDisk
    BY <1>1, <1>5 DEF MemoryOK
  <2> QED
    BY <1>1, <1>3, <1>4, <1>5, <1>6, <1>9, <2>1, <2>2 DEF FileOK
<1>11. MemoryOK'
  BY <1>1, <1>3, <1>4, <1>5, <1>9 DEF MemoryOK
<1>12. TransOK'
  BY <1>4 DEF TransOK
<1> QED
  BY <1>8, <1>10, <1>11, <1>12 DEF IInv

LEMMA StartDeleteHolds ==
  ASSUME IInv, NEW id \in Ids, StartDelete(id)
  PROVE  IInv'
<1>1. /\ open /\ trans = Idle /\ Kept = stored
      /\ Typed /\ FileOK /\ MemoryOK /\ TransOK
      /\ used = usedDisk /\ klass = klassDisk /\ index = Durable
  BY Resting DEF StartDelete
<1>2. PICK p : p = index[id]
  OBVIOUS
<1>3. /\ klass.managed /\ id \in DOMAIN index
      /\ used' = used \ {p} /\ usedDisk' = used'
      /\ trans' = [op |-> "delete", step |-> "remove", id |-> id, place |-> p]
      /\ UNCHANGED <<open, klass, klassDisk, index, pageIds, page, stored>>
  BY <1>2 DEF StartDelete
<1>4. id \in stored /\ p = Durable[id]
  BY <1>1, <1>2, <1>3 DEF FileOK
<1>5. p \in Pages /\ klassDisk.managed
  BY <1>1, <1>3, <1>4, FilePages
<1>6. /\ trans'.op = "delete" /\ trans'.step = "remove"
      /\ trans'.id = id /\ trans'.place = p
  BY <1>3
<1>7. ~Inserting' /\ Deleting' /\ ~Entered' /\ "remove" \in Steps'
  BY <1>6 DEF Inserting, Deleting, Entered, Steps
<1>8. Durable' = Durable /\ Kept' = stored \ {id}
  BY <1>3, <1>6 DEF Durable, Kept
<1>9. Typed'
  <2>1. trans' \in [op : {"first", "insert", "delete"}, step : Steps',
                    id : Ids \cup {Null}, place : Pages]
    BY <1>3, <1>5, <1>7
  <2>2. used' \in SUBSET Pages /\ usedDisk' \in SUBSET Pages
    BY <1>1, <1>3 DEF Typed
  <2> QED
    BY <1>1, <1>3, <2>1, <2>2 DEF Typed
<1>10. /\ klassDisk.indexPage \in usedDisk' /\ klassDisk.schemaPage \in usedDisk'
  <2>1. klassDisk.indexPage \in usedDisk /\ klassDisk.schemaPage \in usedDisk
    BY <1>1, <1>5, IdleFields DEF FileOK
  <2>2. p # klassDisk.indexPage /\ p # klassDisk.schemaPage
    BY <1>1, <1>4 DEF FileOK
  <2> QED
    BY <1>1, <1>3, <2>1, <2>2
<1>11. FileOK'
  <2>1. ASSUME NEW k \in stored \ {id}
        PROVE  page[Durable[k]] = Data(k) /\ Durable[k] \in usedDisk'
    <3>1. page[Durable[k]] = Data(k) /\ Durable[k] \in usedDisk /\ page[p] = Data(id)
      BY <1>1, <1>4 DEF FileOK
    <3>2. Data(k) # Data(id)
      <4>1. Data(k).id = k /\ Data(id).id = id
        BY Kinds
      <4> QED
        BY <4>1
    <3> QED
      BY <1>1, <1>3, <3>1, <3>2
  <2> QED
    BY <1>1, <1>3, <1>5, <1>8, <1>10, <2>1 DEF FileOK
<1>12. MemoryOK'
  BY <1>1, <1>3, <1>6, <1>7, <1>8, <1>10 DEF MemoryOK
<1>13. TransOK'
  BY <1>3, <1>4, <1>6, <1>7 DEF TransOK
<1> QED
  BY <1>9, <1>11, <1>12, <1>13 DEF IInv

LEMMA RemoveEntryHolds ==
  ASSUME IInv, RemoveEntry
  PROVE  IInv'
<1>1. /\ open /\ trans.step = "remove" /\ "remove" \in Steps
      /\ Typed /\ FileOK /\ MemoryOK /\ TransOK
  BY Stepping DEF RemoveEntry
<1>2. ~Inserting /\ Deleting /\ "policyCommit" \in Steps
  <2>1. ~Inserting
    BY <1>1 DEF Steps
  <2>2. Deleting
    BY <2>1, Stepping DEF RemoveEntry
  <2> QED
    BY <2>1, <2>2 DEF Steps
<1>3. /\ trans'.op = trans.op /\ trans'.step = "policyCommit"
      /\ trans'.id = trans.id /\ trans'.place = trans.place
      /\ ~Inserting' /\ Deleting'
      /\ trans' \in [op : {"first", "insert", "delete"}, step : Steps',
                     id : Ids \cup {Null}, place : Pages]
      /\ (stored' = stored => Kept' = Kept)
  BY <1>2, Advance DEF RemoveEntry
<1>4. /\ index' = Without(index, trans.id)
      /\ UNCHANGED <<open, used, usedDisk, klass, klassDisk, pageIds, page, stored>>
  BY DEF RemoveEntry
<1>5. ~Entered /\ ~Entered'
  BY <1>2, <1>3 DEF Entered
<1>6. index = Durable
  BY <1>1, <1>5 DEF MemoryOK
<1>7. Typed'
  BY <1>1, <1>3, <1>4 DEF Typed
<1>8. FileOK' /\ Durable' = Durable
  BY <1>1, <1>3, <1>4, FileSame
<1>9. MemoryOK'
  BY <1>1, <1>2, <1>3, <1>4, <1>5, <1>6, <1>8 DEF MemoryOK
<1>10. TransOK'
  BY <1>1, <1>2, <1>3, <1>4, <1>5 DEF TransOK
<1> QED
  BY <1>7, <1>8, <1>9, <1>10 DEF IInv

(* What is in memory is forgotten, between transactions or in an insert into
   a class that is managed: what is in the file is enough. *)
LEMMA ForgetHolds ==
  ASSUME IInv, Forget, trans.op \notin {"first", "delete"}
  PROVE  IInv'
<1>1. /\ open' = FALSE /\ trans' = Idle
      /\ used' = {} /\ klass' = NotManaged
      /\ UNCHANGED <<usedDisk, klassDisk, page, stored>>
  BY DEF Forget
<1>2. Typed /\ FileOK
  BY DEF IInv
<1>3. Kept' = Kept
  BY <1>1, Over DEF Kept
<1>4. Typed'
  BY <1>1, <1>2 DEF Typed, Klasses
<1>5. FileOK'
  BY <1>1, <1>2, <1>3, FileSame
<1> QED
  BY <1>1, <1>4, <1>5 DEF IInv

LEMMA CloseHolds ==
  ASSUME IInv, Close
  PROVE  IInv'
<1>1. trans.op = "none"
  BY Resting, IdleFields DEF Close
<1> QED
  BY <1>1, ForgetHolds DEF Close

LEMMA KillHolds ==
  ASSUME OneLeaf, IInv, Kill
  PROVE  IInv'
<1>1. trans.op = "insert"
  BY DEF OneLeaf, Kill
<1> QED
  BY <1>1, ForgetHolds DEF Kill

LEMMA OpenHolds ==
  ASSUME IInv, Open
  PROVE  IInv'
<1>1. Typed /\ FileOK /\ ~open
  BY DEF IInv, Open
<1>2. trans = Idle
  BY <1>1, TransType
<1>3. Loaded = Durable
  BY <1>1, LoadedIsDurable
<1>4. /\ open' = TRUE /\ used' = usedDisk /\ klass' = klassDisk /\ index' = Durable
      /\ UNCHANGED <<usedDisk, klassDisk, page, trans, stored>>
  BY <1>3 DEF Open
<1>5. klassDisk.managed => pageIds' = <<klassDisk.indexPage>>
  BY <1>1, OnePage DEF Open, FileOK
<1>6. trans' = Idle
  BY <1>2, <1>4
<1>7. /\ trans'.op = "none" /\ ~Inserting' /\ ~Deleting' /\ ~Entered'
      /\ trans.op = "none"
  BY <1>2, <1>6, Over, IdleFields
<1>8. Typed'
  BY <1>1, <1>4, <1>6 DEF Typed
<1>9. FileOK' /\ Durable' = Durable
  <2>1. Kept' = Kept
    BY <1>4 DEF Kept
  <2> QED
    BY <1>1, <1>4, <1>7, <2>1, FileSame
<1>10. MemoryOK'
  <2>1. klassDisk.managed =>
          klassDisk.indexPage \in usedDisk /\ klassDisk.schemaPage \in usedDisk
    BY <1>1, <1>7 DEF FileOK
  <2> QED
    BY <1>4, <1>5, <1>7, <1>9, <2>1 DEF MemoryOK
<1>11. TransOK'
  BY <1>7 DEF TransOK
<1> QED
  BY <1>8, <1>9, <1>10, <1>11 DEF IInv

-----------------------------------------------------------------------------
(* The theorems.                                                             *)

(* The invariant holds in every state, for any number of pages and ids, as   *)
(* long as the index fits in a leaf and a kill only interrupts an insert     *)
(* into a class that is managed.                                             *)
THEOREM Invariance == ASSUME OneLeaf PROVE Spec => []IInv
<1>1. Init => IInv
  BY InitHolds
<1>2. IInv /\ [Next]_vars => IInv'
  <2> SUFFICES ASSUME IInv, [Next]_vars PROVE IInv'
    OBVIOUS
  <2>1. CASE StartInsert
    BY <2>1, StartInsertHolds
  <2>2. CASE AddKlass
    BY <2>2, AddKlassHolds
  <2>3. CASE KlassKnown
    BY <2>3, KlassKnownHolds
  <2>4. CASE InsertEntry
    BY <2>4, InsertEntryHolds
  <2>5. CASE WriteRecord
    BY <2>5, WriteRecordHolds
  <2>6. CASE CommitPolicy
    BY <2>6, CommitPolicyHolds
  <2>7. CASE CommitKlass
    BY <2>7, CommitKlassHolds
  <2>8. CASE IndexCommit
    BY <2>8, IndexCommitHolds
  <2>9. CASE CommitSchema
    BY <2>9, CommitSchemaHolds
  <2>10. CASE \E id \in Ids : StartDelete(id)
    BY <2>10, StartDeleteHolds
  <2>11. CASE RemoveEntry
    BY <2>11, RemoveEntryHolds
  <2>12. CASE Close
    BY <2>12, CloseHolds
  <2>13. CASE Kill
    BY <2>13, KillHolds
  <2>14. CASE Open
    BY <2>14, OpenHolds
  <2>15. CASE UNCHANGED vars
    BY <2>15, StutterHolds
  <2> QED
    BY <2>1, <2>2, <2>3, <2>4, <2>5, <2>6, <2>7, <2>8, <2>9, <2>10, <2>11, <2>12,
       <2>13, <2>14, <2>15 DEF Next
<1> QED
  BY <1>1, <1>2, PTL DEF Spec

LEMMA Keeping ==
  ASSUME IInv
  PROVE  ObjectsKept
<1>1. Typed /\ FileOK /\ Loaded = Durable
  BY LoadedIsDurable DEF IInv
<1>2. Durable \in Maps /\ DOMAIN Durable = stored /\ Kept \subseteq stored
  BY <1>1, DurableType DEF FileOK, Kept
<1>3. ASSUME NEW id \in Kept
      PROVE  LET f == IF open THEN index ELSE Loaded IN
             /\ id \in DOMAIN f
             /\ page[f[id]] = Data(id)
  <2>1. page[Durable[id]] = Data(id) /\ id \in DOMAIN Durable
    BY <1>1, <1>2, <1>3 DEF FileOK
  <2>2. open => id \in DOMAIN index /\ index[id] = Durable[id]
    <3> SUFFICES ASSUME open PROVE id \in DOMAIN index /\ index[id] = Durable[id]
      OBVIOUS
    <3>1. MemoryOK /\ TransOK
      BY DEF IInv
    <3>2. CASE Entered
      <4>1. trans.id \in Ids \ stored
        BY <3>1, <3>2 DEF TransOK
      <4>2. trans.place \in Pages
        BY <1>1, <3>2, TransType DEF Entered, Inserting
      <4>3. index = With(Durable, trans.id, trans.place) /\ id # trans.id
        BY <1>2, <2>1, <3>1, <3>2, <4>1 DEF MemoryOK
      <4>4. PICK f, i, p : f = Durable /\ i = trans.id /\ p = trans.place
        OBVIOUS
      <4>5. DOMAIN With(f, i, p) = DOMAIN f \cup {i}
            /\ \A k \in DOMAIN f : k # i => With(f, i, p)[k] = f[k]
        BY <1>2, <4>1, <4>2, <4>4, WithFacts
      <4> QED
        BY <2>1, <4>3, <4>4, <4>5
    <3>3. CASE ~Entered /\ Deleting /\ trans.step # "remove"
      <4>1. index = Without(Durable, trans.id) /\ id # trans.id
        BY <1>3, <3>1, <3>3 DEF MemoryOK, Kept, Deleting
      <4> QED
        BY <1>2, <2>1, <4>1, WithoutFacts
    <3>4. CASE ~Entered /\ ~(Deleting /\ trans.step # "remove")
      BY <2>1, <3>1, <3>4 DEF MemoryOK
    <3> QED
      BY <3>2, <3>3, <3>4
  <2> QED
    BY <1>1, <2>1, <2>2
<1> QED
  BY <1>3 DEF ObjectsKept

LEMMA Durability ==
  ASSUME IInv
  PROVE  DurableIndex
<1>1. Typed /\ FileOK /\ Loaded = Durable
  BY LoadedIsDurable DEF IInv
<1> QED
  BY <1>1 DEF FileOK, DurableIndex

(* A function of distinct values has as many values as arguments. *)
LEMMA AsManyValues ==
  ASSUME NEW f, NEW S, IsFiniteSet(S),
         \A x, y \in S : f[x] = f[y] => x = y
  PROVE  Cardinality({f[x] : x \in S}) = Cardinality(S)
<1> DEFINE T == {f[x] : x \in S}
           g == [x \in S |-> f[x]]
<1>1. g \in Surjection(S, T)
  BY DEF Surjection
<1>2. g \in Injection(S, T)
  BY DEF Injection, IsInjective
<1> QED
  BY <1>1, <1>2, FS_Surjection

LEMMA Marking ==
  ASSUME IInv
  PROVE  OwnersMarked
<1> DEFINE q == klassDisk.indexPage
           places == {Durable[id] : id \in Kept}
<1>1. Typed /\ FileOK /\ Loaded = Durable
  BY LoadedIsDurable DEF IInv
<1>2. SUFFICES ASSUME klassDisk.managed, trans.op # "first"
      PROVE  /\ {q} \cup places \cup {klassDisk.schemaPage} \subseteq usedDisk
             /\ Cardinality(places) = Cardinality(Kept)
             /\ {q} \cap places = {}
             /\ klassDisk.schemaPage \notin {q} \cup places
  <2>1. klassDisk.managed => Range(TreePages(page, q)) = {q}
    BY <1>1, OnePage DEF FileOK
  <2> QED
    BY <1>1, <1>2, <2>1 DEF OwnersMarked
<1>3. /\ q \in usedDisk /\ klassDisk.schemaPage \in usedDisk
      /\ q # klassDisk.schemaPage
      /\ \A id \in stored : Durable[id] # q /\ Durable[id] # klassDisk.schemaPage
      /\ \A id \in Kept : page[Durable[id]] = Data(id) /\ Durable[id] \in usedDisk
      /\ Kept \subseteq stored
  BY <1>1, <1>2 DEF FileOK, Kept
<1>4. Cardinality(places) = Cardinality(Kept)
  <2>1. IsFiniteSet(Kept)
    <3>1. IsFiniteSet(Ids)
      BY FS_Interval, TransactionsAssumption DEF Ids
    <3>2. Kept \in SUBSET Ids
      BY <1>1, <1>3 DEF Typed
    <3> QED
      BY <3>1, <3>2, FS_Subset
  <2>2. ASSUME NEW i \in Kept, NEW j \in Kept, Durable[i] = Durable[j]
        PROVE  i = j
    <3>1. Data(i) = Data(j)
      BY <1>3, <2>2
    <3>2. Data(i).id = i /\ Data(j).id = j
      BY Kinds
    <3> QED
      BY <3>1, <3>2
  <2> QED
    BY <2>1, <2>2, AsManyValues
<1> QED
  BY <1>3, <1>4

(* An object in the last index committed can be read, in memory and in the   *)
(* file, whatever came, went and reused pages (findData of                   *)
(* SimpleTransactionManager after its performInsert and performDelete).      *)
THEOREM ObjectsStay == ASSUME OneLeaf PROVE Spec => []ObjectsKept
BY Invariance, Keeping, PTL

(* The commit of the index is the moment a transaction takes place, and no   *)
(* id in the file is given out again (KlassInfo's nextId).                   *)
THEOREM IndexDurable == ASSUME OneLeaf PROVE Spec => []DurableIndex
BY Invariance, Durability, PTL

(* What the file refers to is marked in the bitmaps in the file, and no page *)
(* is two things.                                                            *)
THEOREM FileMarked == ASSUME OneLeaf PROVE Spec => []OwnersMarked
BY Invariance, Marking, PTL

=============================================================================
