--------------------------- MODULE Hybrid_proofs ----------------------------
(***************************************************************************)
(* What Hybrid promises of every value of its constants.                   *)
(***************************************************************************)
EXTENDS Hybrid, Counting

-----------------------------------------------------------------------------
(* Arithmetic.                                                               *)

(* What the constants derived from the sizes are. *)
LEMMA SizeFacts ==
  /\ BlocksPerPage \in Nat \ {0}
  /\ ClassSize \in Nat \ {0}
  /\ BlockSize * BlocksPerPage = PageSize
  /\ Classes * ClassSize = PageSize
<1>1. BlocksPerPage \in Nat /\ ClassSize \in Nat
  BY DivFacts, SizesAssumption DEF BlocksPerPage, ClassSize
<1>2. BlockSize * BlocksPerPage = PageSize /\ Classes * ClassSize = PageSize
  BY SizesAssumption DEF BlocksPerPage, ClassSize
<1>3. BlocksPerPage # 0 /\ ClassSize # 0
  BY <1>2, SizesAssumption
<1> QED
  BY <1>1, <1>2, <1>3

(* The class of a page's free space: the top class holds the empty pages. *)
LEMMA ClassForFacts ==
  ASSUME NEW f \in 0 .. PageSize
  PROVE  /\ ClassFor(f) \in 0 .. Classes
         /\ ClassFor(f) = Classes <=> f = PageSize
         /\ ClassFor(f) # 0 => f # 0
<1> DEFINE c == f \div ClassSize
<1>1. /\ c \in Nat /\ ClassSize * c <= f /\ f < ClassSize * c + ClassSize
      /\ f \in Nat /\ ClassSize \in Nat \ {0} /\ Classes \in Nat \ {0}
      /\ ClassSize * Classes = PageSize
  BY DivFacts, SizeFacts, SizesAssumption
<1>2. c <= Classes
  <2>1. SUFFICES ASSUME c > Classes PROVE FALSE
    BY <1>1
  <2>2. ClassSize * (Classes + 1) <= ClassSize * c
    BY <1>1, <2>1, TimesMonotone
  <2>3. ClassSize * (Classes + 1) = PageSize + ClassSize
    BY <1>1
  <2> QED
    BY <1>1, <2>2, <2>3, SizesAssumption
<1>3. c = Classes => f = PageSize
  BY <1>1, SizesAssumption
<1>4. f = PageSize => c = Classes
  <2>1. SUFFICES ASSUME f = PageSize, c < Classes PROVE FALSE
    BY <1>1, <1>2
  <2>2. ClassSize * (c + 1) <= ClassSize * Classes
    BY <1>1, <2>1, TimesMonotone
  <2>3. ClassSize * (c + 1) = ClassSize * c + ClassSize
    BY <1>1
  <2> QED
    BY <1>1, <2>1, <2>2, <2>3
<1>5. f = 0 => c = 0
  BY <1>1
<1> QED
  BY <1>1, <1>2, <1>3, <1>4, <1>5 DEF ClassFor

-----------------------------------------------------------------------------
(* Blocks.                                                                   *)

LEMMA BlocksFinite ==
  /\ IsFiniteSet(Blocks) /\ Cardinality(Blocks) = BlocksPerPage
  /\ Blocks # {} /\ Blocks \subseteq Nat
<1>1. IsFiniteSet(Blocks) /\ Cardinality(Blocks) = BlocksPerPage
  BY FS_Interval, SizeFacts DEF Blocks
<1>2. 0 \in Blocks
  BY SizeFacts DEF Blocks
<1>3. Blocks \subseteq Nat
  BY SizeFacts DEF Blocks
<1> QED
  BY <1>1, <1>2, <1>3

(* The free space of a page with the blocks b in use. *)
LEMMA FreeBytesFacts ==
  ASSUME NEW b \in SUBSET Blocks
  PROVE  /\ IsFiniteSet(Blocks \ b)
         /\ Cardinality(Blocks \ b) \in 0 .. BlocksPerPage
         /\ FreeBytes(b) \in 0 .. PageSize
         /\ FreeBytes(b) = PageSize <=> b = {}
         /\ FreeBytes(Blocks) = 0
<1> DEFINE n == Cardinality(Blocks \ b)
<1>1. IsFiniteSet(Blocks \ b) /\ n \in Nat /\ n <= BlocksPerPage
      /\ (n = BlocksPerPage => Blocks = Blocks \ b)
  <2>1. Blocks \ b \in SUBSET Blocks
    OBVIOUS
  <2> QED
    BY <2>1, BlocksFinite, FS_Subset, FS_CardinalityType
<1>2. BlockSize \in Nat \ {0} /\ BlocksPerPage \in Nat
      /\ BlockSize * BlocksPerPage = PageSize /\ PageSize \in Nat
  BY SizeFacts, SizesAssumption
<1>3. BlockSize * n \in Nat /\ BlockSize * n <= PageSize
  BY <1>1, <1>2, TimesMonotone
<1>4. BlockSize * n = PageSize => n = BlocksPerPage
  BY <1>1, <1>2
<1>5. b = {} => n = BlocksPerPage
  <2>1. b = {} => Blocks \ b = Blocks
    OBVIOUS
  <2> QED
    BY <2>1, BlocksFinite
<1>6. FreeBytes(Blocks) = 0
  <2>1. Blocks \ Blocks = {}
    OBVIOUS
  <2> QED
    BY <2>1, <1>2, FS_EmptySet DEF FreeBytes
<1>7. n = BlocksPerPage => b = {}
  BY <1>1
<1>8. FreeBytes(b) = BlockSize * n
  BY DEF FreeBytes
<1> HIDE DEF n
<1>9. FreeBytes(b) = PageSize <=> b = {}
  BY <1>2, <1>4, <1>5, <1>7, <1>8
<1> QED
  BY <1>1, <1>2, <1>3, <1>6, <1>8, <1>9 DEF n

(* A page is in the top class exactly when none of its blocks is in use, and
   in class 0 when all are. *)
LEMMA ClassOfBlocks ==
  ASSUME NEW b \in SUBSET Blocks
  PROVE  /\ ClassFor(FreeBytes(b)) \in 0 .. Classes
         /\ ClassFor(FreeBytes(b)) = Classes <=> b = {}
         /\ ClassFor(FreeBytes(b)) # 0 => FreeBytes(b) # 0
         /\ ClassFor(FreeBytes(Blocks)) = 0
         /\ ClassFor(PageSize) = Classes
         /\ ClassFor(0) = 0
<1>1. FreeBytes(b) \in 0 .. PageSize /\ (FreeBytes(b) = PageSize <=> b = {})
      /\ FreeBytes(Blocks) = 0
  BY FreeBytesFacts
<1>2. PageSize \in 0 .. PageSize /\ 0 \in 0 .. PageSize
  BY SizesAssumption
<1>3. ClassFor(0) = 0
  BY SizeFacts DEF ClassFor
<1> QED
  BY <1>1, <1>2, <1>3, ClassForFacts

(* What reserveBlocks takes is free, and its return value is what the free
   space of the page goes down by. *)
LEMMA ReserveFacts ==
  ASSUME NEW b \in SUBSET Blocks, NEW n \in Nat \ {0}
  PROVE  LET R == Reserve(Blocks \ b, n) IN
         /\ R \in SUBSET Blocks
         /\ R \cap b = {}
         /\ FreeBytes(b \cup R) = FreeBytes(b) - ReservedBytes(R, n)
<1> DEFINE R == Reserve(Blocks \ b, n)
<1>1. R \subseteq Blocks \ b
  BY DEF Reserve
<1>2. Blocks \ (b \cup R) = (Blocks \ b) \ R /\ (Blocks \ b) \cap R = R
  BY <1>1
<1>3. IsFiniteSet(Blocks \ b) /\ IsFiniteSet(R)
  BY <1>1, FreeBytesFacts, FS_Subset
<1>4. Cardinality(Blocks \ (b \cup R)) = Cardinality(Blocks \ b) - Cardinality(R)
  BY <1>2, <1>3, FS_Difference
<1>5. Cardinality(Blocks \ b) \in Nat /\ Cardinality(R) \in Nat /\ BlockSize \in Nat
  BY <1>3, FS_CardinalityType, SizesAssumption
<1>6. ReservedBytes(R, n) = BlockSize * Cardinality(R)
  BY DEF ReservedBytes
<1>7. BlockSize * (Cardinality(Blocks \ b) - Cardinality(R))
        = BlockSize * Cardinality(Blocks \ b) - BlockSize * Cardinality(R)
  BY <1>5
<1> HIDE DEF R
<1>8. FreeBytes(b \cup R) = FreeBytes(b) - ReservedBytes(R, n)
  BY <1>4, <1>6, <1>7 DEF FreeBytes
<1> QED
  BY <1>1, <1>8 DEF R

-----------------------------------------------------------------------------
(* The empty tail of the file.                                               *)

(* Cutting off the empty tail leaves exactly the pages that are not in it. *)
LEMMA TailFacts ==
  ASSUME NEW b \in [PageIds -> SUBSET Blocks], NEW n \in 0 .. MaxPages
  PROVE  LET tail == EmptyTail(b, n) IN
         /\ Cardinality(tail) \in 0 .. n
         /\ \A p \in 0 .. n - 1 : p \in tail <=> p >= n - Cardinality(tail)
         /\ \A p \in tail : b[p] = {}
<1> DEFINE tail == EmptyTail(b, n)
<1>1. n \in Nat /\ n <= MaxPages /\ MaxPages \in Nat
  BY LayoutAssumption
<1>2. tail \subseteq 0 .. n - 1
  BY DEF EmptyTail
<1>3. IsFiniteSet(0 .. n - 1) /\ Cardinality(0 .. n - 1) = n
  BY <1>1, FS_Interval
<1>4. IsFiniteSet(tail) /\ Cardinality(tail) \in 0 .. n
  BY <1>1, <1>2, <1>3, FS_Subset, FS_CardinalityType
<1>5. ASSUME NEW p \in 0 .. n - 1, p \notin tail
      PROVE  p < n - Cardinality(tail)
  <2>1. tail \subseteq p + 1 .. n - 1
    <3>1. SUFFICES ASSUME NEW q \in tail, q <= p PROVE FALSE
      BY <1>1, <1>2
    <3>2. p \in tail
      BY <3>1, <1>1 DEF EmptyTail
    <3> QED
      BY <3>2, <1>5
  <2>2. IsFiniteSet(p + 1 .. n - 1) /\ Cardinality(p + 1 .. n - 1) = n - 1 - p
    BY <1>1, FS_Interval
  <2>3. Cardinality(tail) <= n - 1 - p
    BY <2>1, <2>2, FS_Subset
  <2> QED
    BY <1>1, <1>4, <2>3
<1>6. ASSUME NEW p \in tail
      PROVE  p >= n - Cardinality(tail)
  <2>1. p .. n - 1 \subseteq tail
    BY <1>1, <1>2 DEF EmptyTail
  <2>2. IsFiniteSet(p .. n - 1) /\ Cardinality(p .. n - 1) = n - p
    BY <1>1, <1>2, FS_Interval
  <2>3. n - p <= Cardinality(tail)
    BY <1>4, <2>1, <2>2, FS_Subset
  <2> QED
    BY <1>1, <1>2, <1>4, <2>3
<1>7. \A p \in tail : b[p] = {}
  BY <1>1 DEF EmptyTail
<1> HIDE DEF tail
<1>8. \A p \in 0 .. n - 1 : p \in tail <=> p >= n - Cardinality(tail)
  BY <1>1, <1>4, <1>5, <1>6
<1> QED
  BY <1>4, <1>7, <1>8 DEF tail

-----------------------------------------------------------------------------
(* The inductive invariant, for records of at most one page.                 *)

SinglePage == \A l \in Lengths : l <= PageSize

RecordCalls ==
  [mode : {"record"}, rec : Records, len : Lengths, left : Int, chunks : Nat,
   spare : Int, pages : Nat, usage : [PageIds -> SUBSET Blocks]]

(* The types, with what TypeOK does not say of the call in progress. *)
Types == TypeOK /\ call \in {Idle, Hung, Broken} \cup RecordCalls

(* A page the file may grow by is empty, or was lost by a session that was
   killed, and is full. *)
Lost == \A p \in PageIds : p >= file => bits[p] \in {{}, Blocks}

(* The witnesses of h are pages of their class when the file has n pages and
   the blocks in t are taken. *)
Valid(h, t, n) ==
  \A c \in ClassIds :
    h.witness[c] # NoId =>
      h.witness[c] \in 0 .. n - 1 /\ ClassFor(FreeBytes(t[h.witness[c]])) = c

TakenMap == [p \in PageIds |-> Taken(p)]

WitnessTrue == Valid(hist, TakenMap, file)

(* The one chunk of the call is still to be found, or is made of blocks that
   are free and inside the file. *)
CallOK ==
  InRecord =>
    \/ /\ call.chunks = 1 /\ call.left = call.len
       /\ call.spare = PageSize - call.len
       /\ call.usage = NoUsage
       /\ call.pages <= file
    \/ /\ call.chunks = 0
       /\ \A p \in PageIds :
            /\ call.usage[p] \cap bits[p] = {}
            /\ call.usage[p] # {} => p < file

(* The last info page lies in the part of the file it describes, and the chain
   describes the file. *)
ChainFits ==
  /\ chain # <<>>
  /\ Cover(chain) - PerPage <= chain[Len(chain)]
  /\ call \in {Hung, Broken} \/ file <= Cover(chain)

(* What every step of a session keeps, whatever file it has started from. *)
FileInv ==
  /\ Types
  /\ OwnersDisjoint
  /\ OwnedAreUsed
  /\ Lost
  /\ WitnessTrue
  /\ CallOK
  /\ ChainFits

(* In a session that has started with createStructure, a page the file grows by
   has no bit set, and the chain describes more than the file. *)
Fresh == \A p \in PageIds : p >= file => bits[p] = {}
Tight == call # Hung => file < Cover(chain)

IInv == FileInv /\ Fresh /\ Tight

-----------------------------------------------------------------------------
(* Histograms.                                                               *)

HistTyped(h) ==
  /\ h.counts \in [ClassIds -> Int]
  /\ h.witness \in [ClassIds -> PageIds \cup {NoId}]

LEMMA SetFacts ==
  /\ PageIds \subseteq Nat /\ System \subseteq PageIds
  /\ ClassIds \subseteq Nat /\ Classes \in ClassIds /\ 0 \notin ClassIds
  /\ NoId \notin PageIds /\ NoPage \notin PageIds /\ NoWitness \notin PageIds
  /\ InfoPage \in System /\ MinPages \in Nat \ {0} /\ MaxPages \in Nat
  /\ MinPages - 1 \in System
  /\ PerPage \in Nat \ {0}
BY LayoutAssumption, SizesAssumption
DEF PageIds, System, ClassIds, NoId, NoPage, NoWitness

(* updateHistogram, at the witness of one class. *)
LEMMA MovedFacts ==
  ASSUME NEW h, HistTyped(h), NEW id \in PageIds,
         NEW old \in 0 .. PageSize, NEW new \in 0 .. PageSize
  PROVE  LET g == Moved(h, id, old, new) IN
         /\ HistTyped(g)
         /\ \A c \in ClassIds :
              g.witness[c] =
                IF c = ClassFor(new) THEN id
                ELSE IF c = ClassFor(old) /\ h.witness[c] = id THEN NoId
                ELSE h.witness[c]
<1>1. \A c \in ClassIds : h.counts[c] \in Int /\ h.witness[c] \in PageIds \cup {NoId}
  BY DEF HistTyped
<1> QED
  BY <1>1 DEF HistTyped, Moved, Learn, Forget

LEMMA LearnFacts ==
  ASSUME NEW h, HistTyped(h), NEW id \in PageIds, NEW new \in 0 .. PageSize
  PROVE  LET g == Learn(h, id, new) IN
         /\ HistTyped(g)
         /\ \A c \in ClassIds :
              g.witness[c] = IF c = ClassFor(new) THEN id ELSE h.witness[c]
<1>1. \A c \in ClassIds : h.counts[c] \in Int /\ h.witness[c] \in PageIds \cup {NoId}
  BY DEF HistTyped
<1> QED
  BY <1>1 DEF HistTyped, Learn

(* The blocks in use of pages of the file matter, no others. *)
LEMMA ValidSame ==
  ASSUME NEW h, HistTyped(h), NEW n \in Nat, NEW m \in Nat, n <= m,
         NEW t, NEW u, \A p \in 0 .. n - 1 : u[p] = t[p],
         Valid(h, t, n)
  PROVE  Valid(h, u, m)
BY DEF Valid

(* A page whose blocks in use go from t[id] to u[id] moves from its class to
   the new one. *)
LEMMA MovedValid ==
  ASSUME NEW h, HistTyped(h), NEW n \in 0 .. MaxPages, NEW id \in 0 .. n - 1,
         NEW t \in [PageIds -> SUBSET Blocks], NEW u \in [PageIds -> SUBSET Blocks],
         \A p \in 0 .. n - 1 : p # id => u[p] = t[p],
         Valid(h, t, n)
  PROVE  LET g == Moved(h, id, FreeBytes(t[id]), FreeBytes(u[id])) IN
         HistTyped(g) /\ Valid(g, u, n)
<1> DEFINE g == Moved(h, id, FreeBytes(t[id]), FreeBytes(u[id]))
<1>1. id \in PageIds /\ n \in Nat
  BY SetFacts DEF PageIds
<1>2. FreeBytes(t[id]) \in 0 .. PageSize /\ FreeBytes(u[id]) \in 0 .. PageSize
  BY <1>1, FreeBytesFacts
<1>3. /\ HistTyped(g)
      /\ \A c \in ClassIds :
           g.witness[c] =
             IF c = ClassFor(FreeBytes(u[id])) THEN id
             ELSE IF c = ClassFor(FreeBytes(t[id])) /\ h.witness[c] = id THEN NoId
             ELSE h.witness[c]
  BY <1>1, <1>2, MovedFacts
<1> HIDE DEF g
<1>4. ASSUME NEW c \in ClassIds, g.witness[c] # NoId
      PROVE  /\ g.witness[c] \in 0 .. n - 1
             /\ ClassFor(FreeBytes(u[g.witness[c]])) = c
  <2>1. CASE c = ClassFor(FreeBytes(u[id]))
    BY <1>3, <2>1
  <2>2. CASE c # ClassFor(FreeBytes(u[id]))
    <3>1. g.witness[c] = h.witness[c] /\ h.witness[c] # NoId
      BY <1>3, <1>4, <2>2
    <3>2. h.witness[c] \in 0 .. n - 1 /\ ClassFor(FreeBytes(t[h.witness[c]])) = c
      BY <3>1 DEF Valid
    <3>3. h.witness[c] # id
      BY <1>3, <1>4, <2>2, <3>2
    <3> QED
      BY <3>1, <3>2, <3>3
  <2> QED
    BY <2>1, <2>2
<1> QED
  BY <1>3, <1>4 DEF g, Valid

(* A page the file has grown by enters the histogram. *)
LEMMA LearnValid ==
  ASSUME NEW h, HistTyped(h), NEW n \in Nat, NEW m \in 0 .. MaxPages, n < m,
         NEW t, NEW u \in [PageIds -> SUBSET Blocks],
         \A p \in 0 .. n - 1 : u[p] = t[p],
         Valid(h, t, n)
  PROVE  LET g == Learn(h, n, FreeBytes(u[n])) IN
         HistTyped(g) /\ Valid(g, u, m)
<1> DEFINE g == Learn(h, n, FreeBytes(u[n]))
<1>1. n \in PageIds
  BY SetFacts DEF PageIds
<1>2. FreeBytes(u[n]) \in 0 .. PageSize
  BY <1>1, FreeBytesFacts
<1>3. /\ HistTyped(g)
      /\ \A c \in ClassIds :
           g.witness[c] = IF c = ClassFor(FreeBytes(u[n])) THEN n ELSE h.witness[c]
  BY <1>1, <1>2, LearnFacts
<1> HIDE DEF g
<1>4. ASSUME NEW c \in ClassIds, g.witness[c] # NoId
      PROVE  /\ g.witness[c] \in 0 .. m - 1
             /\ ClassFor(FreeBytes(u[g.witness[c]])) = c
  BY <1>3, <1>4 DEF Valid
<1> QED
  BY <1>3, <1>4 DEF g, Valid

(* Cutting the empty tail off the file leaves no witness beyond its end. *)
LEMMA CutValid ==
  ASSUME NEW h, HistTyped(h), NEW n \in 0 .. MaxPages,
         NEW t \in [PageIds -> SUBSET Blocks],
         Valid(h, t, n)
  PROVE  LET tail == EmptyTail(t, n)
             g == WithoutTail(h, tail)
         IN HistTyped(g) /\ Valid(g, t, n - Cardinality(tail))
<1> DEFINE tail == EmptyTail(t, n)
           g == WithoutTail(h, tail)
<1>1. /\ Cardinality(tail) \in 0 .. n
      /\ \A p \in 0 .. n - 1 : p \in tail <=> p >= n - Cardinality(tail)
      /\ \A p \in tail : t[p] = {}
  BY TailFacts
<1>2. n \in Nat /\ 0 .. n - 1 \subseteq PageIds
  BY SetFacts DEF PageIds
<1> HIDE DEF tail
<1>3. \A c \in ClassIds : h.counts[c] \in Int /\ h.witness[c] \in PageIds \cup {NoId}
  BY DEF HistTyped
<1>4. HistTyped(g)
  BY <1>1, <1>3, SetFacts DEF HistTyped, WithoutTail
<1>5. ASSUME NEW c \in ClassIds
      PROVE  g.witness[c] = IF c = Classes /\ h.witness[c] \in tail THEN NoId
                            ELSE h.witness[c]
  BY SetFacts DEF WithoutTail, HistTyped
<1> HIDE DEF g
<1>6. ASSUME NEW c \in ClassIds, g.witness[c] # NoId
      PROVE  /\ g.witness[c] \in 0 .. n - Cardinality(tail) - 1
             /\ ClassFor(FreeBytes(t[g.witness[c]])) = c
  <2>1. g.witness[c] = h.witness[c] /\ h.witness[c] # NoId
    BY <1>5, <1>6
  <2>2. h.witness[c] \in 0 .. n - 1 /\ ClassFor(FreeBytes(t[h.witness[c]])) = c
    BY <2>1 DEF Valid
  <2>3. h.witness[c] \notin tail
    <3>1. SUFFICES ASSUME h.witness[c] \in tail PROVE FALSE
      OBVIOUS
    <3>2. t[h.witness[c]] = {}
      BY <1>1, <3>1
    <3>3. c = Classes
      BY <1>2, <2>2, <3>2, ClassOfBlocks
    <3> QED
      BY <1>5, <1>6, <3>1, <3>3
  <2> QED
    BY <1>1, <1>2, <2>1, <2>2, <2>3
<1> QED
  BY <1>4, <1>6 DEF g, tail, Valid

(* Several pages move, one after the other, to their new classes. *)
LEMMA MovedAllValid ==
  ASSUME NEW h, HistTyped(h), NEW n \in 0 .. MaxPages, NEW ps \in SUBSET (0 .. n - 1),
         NEW t \in [PageIds -> SUBSET Blocks], NEW u \in [PageIds -> SUBSET Blocks],
         \A p \in 0 .. n - 1 : p \notin ps => u[p] = t[p],
         Valid(h, t, n),
         NEW g \in MovedAll(h, ps, t, u)
  PROVE  HistTyped(g) /\ Valid(g, u, n)
<1> DEFINE left(c)  == {p \in ps : ClassFor(FreeBytes(t[p])) = c}
           enter(c) == {p \in ps : ClassFor(FreeBytes(u[p])) = c}
           kept(c)  == IF h.witness[c] \in left(c) THEN NoId ELSE h.witness[c]
<1>1. /\ g.counts = [c \in ClassIds |-> h.counts[c] - Cardinality(left(c))
                                         + Cardinality(enter(c))]
      /\ g.witness \in [ClassIds -> PageIds \cup {NoId}]
      /\ \A c \in ClassIds : IF enter(c) = {} THEN g.witness[c] = kept(c)
                             ELSE g.witness[c] \in enter(c)
  <2>1. PICK w \in {f \in [ClassIds -> PageIds \cup {NoId}] :
                      \A c \in ClassIds : IF enter(c) = {} THEN f[c] = kept(c)
                                          ELSE f[c] \in enter(c)} :
          g = [counts |-> [c \in ClassIds |-> h.counts[c] - Cardinality(left(c))
                                             + Cardinality(enter(c))],
               witness |-> w]
    BY Zenon DEF MovedAll
  <2>2. g.witness = w
    BY <2>1
  <2>3. /\ w \in [ClassIds -> PageIds \cup {NoId}]
        /\ \A c \in ClassIds : IF enter(c) = {} THEN w[c] = kept(c)
                               ELSE w[c] \in enter(c)
    BY Zenon
  <2>4. g.counts = [c \in ClassIds |-> h.counts[c] - Cardinality(left(c))
                                      + Cardinality(enter(c))]
    BY <2>1
  <2> QED
    BY <2>2, <2>3, <2>4
<1>2. ASSUME NEW c \in ClassIds
      PROVE  h.counts[c] - Cardinality(left(c)) + Cardinality(enter(c)) \in Int
  <2>1. IsFiniteSet(0 .. n - 1)
    BY SetFacts, FS_Interval
  <2>2. left(c) \in SUBSET (0 .. n - 1) /\ enter(c) \in SUBSET (0 .. n - 1)
    OBVIOUS
  <2>3. Cardinality(left(c)) \in Nat /\ Cardinality(enter(c)) \in Nat
    BY <2>1, <2>2, FS_Subset, FS_CardinalityType
  <2> QED
    BY <2>3 DEF HistTyped
<1>3. HistTyped(g)
  BY <1>1, <1>2 DEF HistTyped
<1>4. ASSUME NEW c \in ClassIds, g.witness[c] # NoId
      PROVE  /\ g.witness[c] \in 0 .. n - 1
             /\ ClassFor(FreeBytes(u[g.witness[c]])) = c
  <2>1. CASE enter(c) # {}
    BY <1>1, <2>1
  <2>2. CASE enter(c) = {}
    <3>1. g.witness[c] = h.witness[c] /\ h.witness[c] \notin left(c)
      BY <1>1, <1>4, <2>2
    <3>2. h.witness[c] \in 0 .. n - 1 /\ ClassFor(FreeBytes(t[h.witness[c]])) = c
      BY <1>4, <3>1 DEF Valid
    <3> QED
      BY <3>1, <3>2
  <2> QED
    BY <2>1, <2>2
<1> QED
  BY <1>3, <1>4 DEF Valid

-----------------------------------------------------------------------------
(* Pages, the chain and the witnesses in a state that satisfies the invariant.*)

LEMMA InfoOfFacts ==
  ASSUME NEW p \in Nat, NEW k \in Nat, p < PerPage * k
  PROVE  InfoOf(p) \in 0 .. k - 1
<1>1. InfoOf(p) \in Nat /\ PerPage * InfoOf(p) <= p /\ PerPage \in Nat
  BY SetFacts, DivFacts DEF InfoOf
<1>2. SUFFICES ASSUME k <= InfoOf(p) PROVE FALSE
  BY <1>1
<1>3. PerPage * k <= PerPage * InfoOf(p)
  BY <1>1, <1>2, TimesMonotone
<1> QED
  BY <1>1, <1>3

(* A page without a bit set, or beyond the file, belongs to nobody. *)
LEMMA EmptyUnowned ==
  ASSUME Types, OwnersDisjoint, OwnedAreUsed, NEW p \in PageIds,
         bits[p] = {} \/ p >= file
  PROVE  /\ p \notin System \cup ChainPages
         /\ holders[p] = 0
         /\ \A r \in Records : usage[r][p] = {}
<1>1. holders[p] \in Nat /\ p \in Nat /\ file \in Nat
  BY SetFacts DEF Types, TypeOK
<1>2. p < file => bits[p] = {}
  BY <1>1
<1>3. p \notin System \cup ChainPages /\ ~(holders[p] > 0)
  BY <1>2, BlocksFinite DEF OwnedAreUsed
<1>4. \A r \in Records : usage[r][p] = {}
  BY <1>2 DEF OwnedAreUsed
<1> QED
  BY <1>1, <1>3, <1>4

(* Outside acquireRecord the bitmaps show all the blocks in use. *)
LEMMA IdleTaken ==
  ASSUME bits \in [PageIds -> SUBSET Blocks], ~InRecord
  PROVE  TakenMap = bits
BY DEF TakenMap, Taken

LEMMA ModeFacts ==
  /\ call = Idle => ~InRecord
  /\ call = Hung => ~InRecord
  /\ call = Broken => ~InRecord
  /\ Idle # Hung /\ Broken # Hung /\ Broken # Idle
<1>1. Idle.mode = "idle" /\ Hung.mode = "hung" /\ Broken.mode = "broken"
  BY DEF Idle, Hung, Broken
<1> QED
  BY <1>1 DEF InRecord

(* What freeSpaceInfoUpdate does for a file that has grown by a page at most. *)
LEMMA SettledCases ==
  ASSUME Types, ChainFits, call \notin {Hung, Broken},
         NEW n \in {file, file + 1}, n <= MaxPages
  PROVE  \/ /\ Settled(n) = [ok |-> TRUE, file |-> n, chain |-> chain]
            /\ n < Cover(chain)
         \/ /\ Settled(n) = [ok |-> TRUE, file |-> n + 1, chain |-> Append(chain, n)]
            /\ n \in PageIds /\ n \in {Cover(chain), Cover(chain) + 1}
         \/ Settled(n) = [ok |-> FALSE, file |-> n, chain |-> chain]
<1>1. file \in Nat /\ chain \in Seq(PageIds) /\ file <= Cover(chain)
  BY SetFacts DEF Types, TypeOK, ChainFits
<1>2. Len(chain) \in Nat /\ Cover(chain) \in Nat
  <2>1. Len(chain) \in Nat
    BY <1>1
  <2> QED
    BY <2>1, SetFacts DEF Cover
<1>3. n \in Nat /\ n <= Cover(chain) + 1
  BY <1>1, <1>2
<1> QED
  BY <1>1, <1>2, <1>3, SetFacts DEF Settled, PageIds

LEMMA ChainGrown ==
  ASSUME Types, NEW n \in PageIds
  PROVE  LET ch == Append(chain, n) IN
         /\ ch \in Seq(PageIds) /\ ch # <<>>
         /\ Len(ch) = Len(chain) + 1 /\ Len(chain) \in Nat
         /\ Cover(ch) = Cover(chain) + PerPage /\ Cover(chain) \in Nat
         /\ ch[Len(ch)] = n
         /\ {ch[i] : i \in DOMAIN ch} = ChainPages \cup {n}
<1> DEFINE ch == Append(chain, n)
<1>1. chain \in Seq(PageIds)
  BY DEF Types, TypeOK
<1>2. /\ ch \in Seq(PageIds)
      /\ Len(ch) = Len(chain) + 1 /\ Len(chain) \in Nat
      /\ DOMAIN ch = 1 .. Len(chain) + 1 /\ DOMAIN chain = 1 .. Len(chain)
      /\ \A i \in 1 .. Len(chain) : ch[i] = chain[i]
      /\ ch[Len(chain) + 1] = n
  BY <1>1
<1> HIDE DEF ch
<1>3. PerPage * (Len(chain) + 1) = PerPage * Len(chain) + PerPage
      /\ PerPage * Len(chain) \in Nat
  BY <1>2, SetFacts
<1>4. {ch[i] : i \in DOMAIN ch} = ChainPages \cup {n}
  BY <1>2 DEF ChainPages
<1>5. ch # <<>>
  BY <1>2
<1> QED
  BY <1>2, <1>3, <1>4, <1>5 DEF Cover, ch

(* A search that finds a witness finds one of a class that will do. *)
LEMMA GetWitnessFacts ==
  ASSUME Types, NEW need \in 0 .. PageSize, GetWitness(need) \in PageIds
  PROVE  \E c \in ClassIds : /\ c \in FirstClass(need) .. Classes
                            /\ hist.witness[c] = GetWitness(need)
                            /\ hist.witness[c] # NoId
<1> DEFINE busy == {c \in FirstClass(need) .. Classes : hist.counts[c] > 0}
           seen == {c \in busy : hist.witness[c] # NoId}
<1>1. FirstClass(need) \in ClassIds
  BY ClassForFacts, SizesAssumption DEF FirstClass, ClassIds
<1>2. FirstClass(need) .. Classes \subseteq ClassIds
  BY <1>1, SizesAssumption DEF ClassIds
<1>3. GetWitness(need) =
        IF seen # {} THEN hist.witness[CHOOSE c \in seen : \A d \in seen : c <= d]
        ELSE IF busy = {} THEN NoPage ELSE NoWitness
  BY DEF GetWitness
<1>4. seen # {}
  BY <1>3, SetFacts
<1>5. seen \subseteq Nat
  BY <1>2, SetFacts
<1>6. \E c \in seen : \A d \in seen : c <= d
  <2> DEFINE f == [c \in seen |-> c]
  <2>1. f \in [seen -> Nat]
    BY <1>5
  <2>2. \E c \in seen : \A d \in seen : f[c] <= f[d]
    <3> HIDE DEF seen, f
    <3> QED
      BY <1>4, <2>1, LeastExists
  <2> QED
    BY <2>2
<1>7. PICK c \in seen : GetWitness(need) = hist.witness[c]
  BY <1>3, <1>4, <1>6
<1> QED
  BY <1>2, <1>7

(* A search for a whole page finds an empty page of the file. *)
LEMMA WholePageWitness ==
  ASSUME FileInv, call = Idle, GetWitness(PageSize) \in PageIds
  PROVE  LET id == GetWitness(PageSize) IN
         id \in 0 .. file - 1 /\ bits[id] = {}
<1> DEFINE id == GetWitness(PageSize)
<1>1. PICK c \in ClassIds : /\ c \in FirstClass(PageSize) .. Classes
                           /\ hist.witness[c] = id /\ hist.witness[c] # NoId
  BY GetWitnessFacts, SizesAssumption DEF FileInv
<1>2. ClassFor(PageSize) = Classes
  BY ClassForFacts, SizesAssumption
<1>3. c = Classes
  BY <1>1, <1>2, SizesAssumption DEF FirstClass
<1>4. bits \in [PageIds -> SUBSET Blocks] /\ TakenMap = bits
  BY IdleTaken, ModeFacts DEF FileInv, Types, TypeOK
<1>5. id \in 0 .. file - 1 /\ ClassFor(FreeBytes(bits[id])) = Classes
  BY <1>1, <1>3, <1>4 DEF FileInv, WitnessTrue, Valid
<1> QED
  BY <1>4, <1>5, ClassOfBlocks

-----------------------------------------------------------------------------
(* One lemma for each action.                                                *)

LEMMA InitInv == Init => FileInv
<1> SUFFICES ASSUME Init PROVE FileInv
  OBVIOUS
<1> USE DEF Init
<1>1. Types
  <2>1. chain \in Seq(PageIds) /\ Len(chain) = 1
    BY SetFacts
  <2>2. bits \in [PageIds -> SUBSET Blocks] /\ NoUsage \in [PageIds -> SUBSET Blocks]
    BY DEF NoUsage
  <2>3. file \in MinPages .. MaxPages
    BY LayoutAssumption
  <2>4. hist.counts \in [ClassIds -> Int] /\ hist.witness \in [ClassIds -> PageIds \cup {NoId}]
    OBVIOUS
  <2>5. call.mode = "idle"
    BY DEF Idle
  <2> QED
    BY <2>1, <2>2, <2>3, <2>4, <2>5, SetFacts DEF Types, TypeOK
<1>2. ChainPages = {InfoPage} /\ Len(chain) = 1
  BY DEF ChainPages
<1>3. OwnersDisjoint
  BY DEF OwnersDisjoint, NoUsage
<1>4. OwnedAreUsed
  BY <1>2, SetFacts DEF OwnedAreUsed, NoUsage, System
<1>5. Lost
  BY DEF Lost
<1>6. WitnessTrue
  BY DEF WitnessTrue, Valid
<1>7. CallOK
  BY ModeFacts DEF CallOK
<1>8. ChainFits
  <2>1. Cover(chain) = PerPage
    BY <1>2, SetFacts DEF Cover
  <2> QED
    BY <1>2, <2>1, SetFacts, LayoutAssumption DEF ChainFits
<1> QED
  BY <1>1, <1>3, <1>4, <1>5, <1>6, <1>7, <1>8 DEF FileInv

(* The chain after freeSpaceInfoUpdate: it has gained no page, or page n, and
   still fits the file. *)
LEMMA ChainGrows ==
  ASSUME Types, ChainFits, call \notin {Hung, Broken},
         NEW n \in {file, file + 1}, n <= MaxPages,
         Settled(n).ok, chain' = Settled(n).chain, file' = Settled(n).file
  PROVE  /\ ChainFits' /\ file' <= MaxPages /\ n <= file'
         /\ chain' \in Seq(PageIds) /\ Len(chain) <= Len(chain')
         /\ Len(chain) \in Nat /\ Len(chain') \in Nat /\ file' < Cover(chain')
         /\ \/ ChainPages' = ChainPages
            \/ ChainPages' = ChainPages \cup {n} /\ n < file' /\ n \in PageIds
<1> DEFINE s == Settled(n)
<1>1. n \in Nat /\ file \in Nat /\ TypeOK
  BY SetFacts DEF Types, TypeOK
<1>2. \/ s = [ok |-> TRUE, file |-> n, chain |-> chain] /\ n < Cover(chain)
      \/ /\ s = [ok |-> TRUE, file |-> n + 1, chain |-> Append(chain, n)]
         /\ n \in PageIds /\ n \in {Cover(chain), Cover(chain) + 1}
  BY SettledCases
<1>3. CASE s = [ok |-> TRUE, file |-> n, chain |-> chain] /\ n < Cover(chain)
  <2>1. chain' = chain /\ file' = n
    BY <1>3
  <2>2. Len(chain) \in Nat /\ chain \in Seq(PageIds)
    BY <1>1 DEF TypeOK
  <2>3. Cover(chain') = Cover(chain) /\ ChainPages' = ChainPages
    BY <2>1 DEF Cover, ChainPages
  <2>4. Cover(chain) \in Nat
    BY <2>2, SetFacts DEF Cover
  <2>5. file' < Cover(chain') /\ file' <= Cover(chain')
    BY <1>1, <1>3, <2>1, <2>3, <2>4
  <2>6. ChainFits'
    BY <2>1, <2>3, <2>5 DEF ChainFits
  <2> QED
    BY <1>1, <2>1, <2>2, <2>3, <2>5, <2>6
<1>4. CASE /\ s = [ok |-> TRUE, file |-> n + 1, chain |-> Append(chain, n)]
           /\ n \in PageIds /\ n \in {Cover(chain), Cover(chain) + 1}
  <2>1. chain' = Append(chain, n) /\ file' = n + 1
    BY <1>4
  <2>2. /\ chain' \in Seq(PageIds) /\ chain' # <<>>
        /\ Len(chain') = Len(chain) + 1 /\ Len(chain) \in Nat
        /\ Cover(chain') = Cover(chain) + PerPage
        /\ chain'[Len(chain')] = n
        /\ ChainPages' = ChainPages \cup {n}
    <3> DEFINE ch == Append(chain, n)
    <3>1. /\ ch \in Seq(PageIds) /\ ch # <<>>
          /\ Len(ch) = Len(chain) + 1 /\ Len(chain) \in Nat
          /\ Cover(ch) = Cover(chain) + PerPage
          /\ ch[Len(ch)] = n
          /\ {ch[i] : i \in DOMAIN ch} = ChainPages \cup {n}
      BY <1>4, ChainGrown
    <3>2. chain' = ch
      BY <2>1
    <3> HIDE DEF ch
    <3>3. ChainPages' = {ch[i] : i \in DOMAIN ch}
      BY <3>2 DEF ChainPages
    <3> QED
      BY <3>1, <3>2, <3>3
  <2>3. Cover(chain') - PerPage <= n /\ n + 1 < Cover(chain')
    <3>1. Cover(chain) \in Nat
      BY <2>2, SetFacts DEF Cover
    <3> QED
      BY <1>1, <1>4, <2>2, <3>1, LayoutAssumption
  <2>4. n < MaxPages
    BY <1>4, SetFacts DEF PageIds
  <2>5. ChainFits'
    <3>1. Cover(chain') \in Nat
      BY <2>2, SetFacts DEF Cover
    <3>2. file' <= Cover(chain')
      BY <1>1, <2>1, <2>3, <3>1
    <3> QED
      BY <2>2, <2>3, <3>2 DEF ChainFits
  <2>6. file' <= MaxPages /\ n <= file' /\ n < file' /\ n \in PageIds
    BY <1>1, <1>4, <2>1, <2>4, SetFacts
  <2>7. Len(chain) <= Len(chain') /\ Len(chain') \in Nat
    BY <2>2
  <2>8. file' < Cover(chain')
    BY <2>1, <2>3
  <2> QED
    BY <2>2, <2>5, <2>6, <2>7, <2>8
<1> QED
  BY <1>2, <1>3, <1>4

(* A call that never returns, or has gone wrong, leaves the pages of the chain
   as they were. *)
LEMMA StopInv ==
  ASSUME FileInv, NEW n \in file .. MaxPages,
         file' = n, call' \in {Hung, Broken}, HistTyped(hist'), Valid(hist', bits, n),
         UNCHANGED <<chain, bits, dirty, disk, lastAcquired, holders, usage, len>>
  PROVE  FileInv'
<1>1. /\ TypeOK /\ OwnersDisjoint /\ OwnedAreUsed /\ Lost /\ ChainFits
      /\ bits \in [PageIds -> SUBSET Blocks]
      /\ file \in Nat /\ n \in MinPages .. MaxPages /\ n \in Nat /\ file <= n
  BY SetFacts DEF FileInv, Types, TypeOK
<1>2. ChainPages' = ChainPages
  BY DEF ChainPages
<1>3. Types'
  <2>1. Hung.mode = "hung" /\ Broken.mode = "broken"
    BY DEF Hung, Broken
  <2> QED
    BY <1>1, <2>1 DEF Types, TypeOK, HistTyped
<1>4. OwnersDisjoint'
  BY <1>1, <1>2 DEF OwnersDisjoint
<1>5. OwnedAreUsed'
  <2>1. \A p \in PageIds : p < file => p < file'
    BY <1>1, SetFacts
  <2> QED
    BY <1>1, <1>2, <2>1 DEF OwnedAreUsed
<1>6. Lost'
  BY <1>1, SetFacts DEF Lost
<1>7. WitnessTrue'
  <2>1. TakenMap' = bits
    BY <1>1, ModeFacts DEF TakenMap, Taken, InRecord, Hung, Broken
  <2> QED
    BY <2>1 DEF WitnessTrue
<1>8. CallOK'
  BY DEF CallOK, InRecord, Hung, Broken
<1>9. ChainFits'
  BY <1>1 DEF ChainFits, Cover
<1> QED
  BY <1>3, <1>4, <1>5, <1>6, <1>7, <1>8, <1>9 DEF FileInv

(* The end of acquirePage, for an empty page id of the n pages of the file
   and a histogram h in which it is full. *)
LEMMA GivePageInv ==
  ASSUME FileInv, call = Idle,
         NEW n \in {file, file + 1}, n <= MaxPages,
         NEW id \in 0 .. n - 1, bits[id] = {} \/ id >= file,
         NEW h, HistTyped(h), Valid(h, [bits EXCEPT ![id] = Blocks], n),
         GivePage(id, n, h)
  PROVE  FileInv'
<1> DEFINE s == Settled(n)
           full == [bits EXCEPT ![id] = Blocks]
<1>0. /\ TypeOK /\ call \in {Idle, Hung, Broken} \cup RecordCalls
      /\ Types /\ OwnersDisjoint /\ OwnedAreUsed /\ Lost /\ ChainFits
  BY DEF FileInv, Types
<1>1. /\ n \in Nat /\ n \in MinPages .. MaxPages /\ file \in Nat
      /\ file \in MinPages .. MaxPages /\ file <= n
      /\ id \in PageIds /\ id \in Nat
  BY <1>0, SetFacts DEF TypeOK, PageIds
<1>2. /\ id \notin System \cup ChainPages /\ holders[id] = 0
      /\ \A r \in Records : usage[r][id] = {}
  BY <1>0, <1>1, EmptyUnowned
<1>3. bits \in [PageIds -> SUBSET Blocks] /\ full \in [PageIds -> SUBSET Blocks]
  BY <1>0 DEF TypeOK
<1>4. hist' = h /\ file' = s.file
  BY DEF GivePage
<1>5. CASE ~s.ok
  <2>1. s = [ok |-> FALSE, file |-> n, chain |-> chain]
    BY <1>0, <1>5, ModeFacts, SettledCases
  <2>2. /\ file' = n /\ call' = Hung
        /\ UNCHANGED <<chain, bits, dirty, disk, lastAcquired, holders, usage, len>>
    BY <1>4, <1>5, <2>1 DEF GivePage, Stop
  <2>3. Valid(h, bits, n)
    <3>1. ASSUME NEW c \in ClassIds, h.witness[c] # NoId
          PROVE  h.witness[c] \in 0 .. n - 1 /\ ClassFor(FreeBytes(bits[h.witness[c]])) = c
      <4>1. h.witness[c] \in 0 .. n - 1 /\ ClassFor(FreeBytes(full[h.witness[c]])) = c
        BY <3>1 DEF Valid
      <4>2. h.witness[c] # id
        BY <1>1, <1>3, <4>1, ClassOfBlocks, SetFacts
      <4>3. h.witness[c] \in PageIds
        BY <1>1, <4>1, SetFacts DEF PageIds
      <4> QED
        BY <1>3, <4>1, <4>2, <4>3
    <3> QED
      BY <3>1 DEF Valid
  <2> QED
    BY <1>1, <1>4, <2>2, <2>3, StopInv
<1>6. CASE s.ok
  <2>1. /\ chain' = s.chain
        /\ bits' = [WithInfo(bits, s.chain) EXCEPT ![id] = Blocks]
        /\ dirty' = dirty \cup NewInfo(s.chain) \cup {InfoOf(id)}
        /\ lastAcquired' = (id + 1) % file
        /\ holders' = [holders EXCEPT ![id] = @ + 1]
        /\ UNCHANGED <<disk, call, usage, len>>
    BY <1>6 DEF GivePage
  <2>2. \/ s = [ok |-> TRUE, file |-> n, chain |-> chain] /\ n < Cover(chain)
        \/ /\ s = [ok |-> TRUE, file |-> n + 1, chain |-> Append(chain, n)]
           /\ n \in PageIds
    BY <1>0, <1>6, ModeFacts, SettledCases
  <2>3. /\ ChainFits' /\ file' <= MaxPages /\ n <= file'
        /\ chain' \in Seq(PageIds) /\ Len(chain) <= Len(chain')
        /\ Len(chain) \in Nat /\ Len(chain') \in Nat /\ file' < Cover(chain')
        /\ \/ ChainPages' = ChainPages
           \/ ChainPages' = ChainPages \cup {n} /\ n < file' /\ n \in PageIds
    BY <1>0, <1>4, <1>6, <2>1, ModeFacts, ChainGrows
  <2>4. \A p \in PageIds :
          bits'[p] = IF p = id \/ p \in ChainPages' THEN Blocks ELSE bits[p]
    <3>1. ChainPages' = {s.chain[k] : k \in DOMAIN s.chain}
      BY <2>1 DEF ChainPages
    <3>2. \A p \in PageIds : p \in ChainPages' <=> \E k \in DOMAIN s.chain : s.chain[k] = p
      BY <3>1
    <3> HIDE DEF s
    <3> QED
      BY <1>1, <2>1, <3>2 DEF WithInfo
  <2>5. bits' \in [PageIds -> SUBSET Blocks]
    BY <1>3, <2>1 DEF WithInfo
  <2>6. n \in PageIds =>
          /\ n \notin System \cup ChainPages /\ holders[n] = 0
          /\ \A r \in Records : usage[r][n] = {}
    BY <1>0, <1>1, EmptyUnowned
  <2>7. \A p \in PageIds : holders'[p] = IF p = id THEN 1 ELSE holders[p]
    BY <1>0, <1>1, <1>2, <2>1 DEF TypeOK
  <2>8. Types'
    <3>1. dirty' \subseteq 0 .. Len(chain') - 1
      <4>1. dirty \subseteq 0 .. Len(chain') - 1
        BY <1>0, <2>3 DEF TypeOK
      <4>2. NewInfo(s.chain) \subseteq 0 .. Len(chain') - 1
        BY <2>1, <2>3 DEF NewInfo
      <4>3. id < PerPage * Len(chain')
        <5>1. file' \in Nat
          BY <1>1, <1>4, <2>2
        <5>2. PerPage * Len(chain') = Cover(chain') /\ PerPage * Len(chain') \in Nat
          BY <2>3, SetFacts DEF Cover
        <5> HIDE DEF s
        <5> QED
          BY <1>1, <2>3, <5>1, <5>2
      <4>4. InfoOf(id) \in 0 .. Len(chain') - 1
        BY <1>1, <2>3, <4>3, InfoOfFacts
      <4> QED
        BY <2>1, <4>1, <4>2, <4>4
    <3>2. lastAcquired' \in 0 .. MaxPages
      <4>1. lastAcquired' \in 0 .. file - 1
        BY <1>1, <2>1, DivFacts, SetFacts
      <4> QED
        BY <1>1, <4>1, SetFacts
    <3>3. file' \in MinPages .. MaxPages
      <4>1. file' \in Nat
        BY <1>1, <1>4, <2>2
      <4> QED
        BY <1>1, <2>3, <4>1, SetFacts
    <3>4. holders' \in [PageIds -> Nat]
      BY <1>0, <1>1, <2>1 DEF TypeOK
    <3> HIDE DEF s
    <3> QED
      BY <1>0, <1>4, <2>1, <2>3, <2>5, <3>1, <3>2, <3>3, <3>4 DEF Types, TypeOK, HistTyped
  <2>9. OwnersDisjoint'
    BY <1>0, <1>2, <2>1, <2>3, <2>6, <2>7, <1>1 DEF OwnersDisjoint
  <2>10. OwnedAreUsed'
    <3>1. ASSUME NEW p \in PageIds, p \in System \cup ChainPages' \/ holders'[p] > 0
          PROVE  p < file' /\ bits'[p] = Blocks
      <4>1. file' \in Nat /\ p \in Nat /\ holders[p] \in Nat
        <5>1. holders[p] \in Nat
          BY <1>0 DEF TypeOK
        <5>2. p \in Nat
          BY SetFacts
        <5> QED
          BY <1>1, <1>4, <2>2, <5>1, <5>2
      <4>2. CASE p = id
        <5>1. p < file'
          BY <1>1, <2>3, <4>1, <4>2
        <5> QED
          BY <2>4, <4>2, <5>1
      <4>3. CASE p = n
        <5>1. p \in ChainPages' /\ n < file'
          BY <1>1, <2>3, <2>6, <2>7, <3>1, <4>3
        <5> QED
          BY <2>4, <4>3, <5>1
      <4>4. CASE p # id /\ p # n
        <5>1. p \in System \cup ChainPages \/ holders[p] > 0
          BY <2>3, <2>7, <3>1, <4>4
        <5>2. p < file /\ bits[p] = Blocks
          BY <1>0, <5>1 DEF OwnedAreUsed
        <5> QED
          BY <1>1, <2>3, <2>4, <4>1, <5>2
      <4> QED
        BY <4>2, <4>3, <4>4
    <3>2. ASSUME NEW r \in Records, NEW p \in PageIds, usage'[r][p] # {}
          PROVE  p < file' /\ usage'[r][p] \subseteq bits'[p]
      <4>1. p < file /\ usage[r][p] \subseteq bits[p]
        BY <1>0, <2>1, <3>2 DEF OwnedAreUsed
      <4>2. file' \in Nat /\ p \in Nat /\ usage[r][p] \in SUBSET Blocks
        <5>1. usage[r][p] \in SUBSET Blocks
          BY <1>0 DEF TypeOK
        <5>2. p \in Nat
          BY SetFacts
        <5> QED
          BY <1>1, <1>4, <2>2, <5>1, <5>2
      <4> QED
        BY <1>1, <2>1, <2>3, <2>4, <4>1, <4>2
    <3> QED
      BY <3>1, <3>2 DEF OwnedAreUsed
  <2>11. Lost'
    <3>1. \A p \in PageIds : p >= file' => p >= file
      BY <1>1, <1>4, <2>2, <2>3, SetFacts
    <3> QED
      BY <1>0, <2>4, <3>1 DEF Lost
  <2>12. WitnessTrue'
    <3>1. TakenMap' = bits'
      BY <2>1, <2>5, ModeFacts DEF TakenMap, Taken, InRecord, Idle
    <3>2. ASSUME NEW p \in 0 .. n - 1
          PROVE  bits'[p] = full[p]
      <4>1. p \in PageIds /\ p # n
        BY <1>1, SetFacts DEF PageIds
      <4>2. p \in ChainPages => bits[p] = Blocks
        BY <1>0, <4>1 DEF OwnedAreUsed
      <4> QED
        BY <1>3, <2>3, <2>4, <4>1, <4>2
    <3>3. file' \in Nat
      BY <1>1, <1>4, <2>2
    <3>4. Valid(h, bits', file')
      <4> HIDE DEF full
      <4> QED
        BY <1>1, <2>3, <3>2, <3>3, ValidSame DEF full
    <3> QED
      BY <1>4, <3>1, <3>4 DEF WitnessTrue
  <2>13. CallOK'
    BY <2>1 DEF CallOK, InRecord, Idle
  <2> QED
    BY <2>3, <2>8, <2>9, <2>10, <2>11, <2>12, <2>13 DEF FileInv
<1> QED
  BY <1>5, <1>6

(* A record of at most one page is found in one chunk. *)
LEMMA BeginFacts ==
  ASSUME SinglePage, NEW r \in Records, NEW l \in Lengths, NEW n \in Nat
  PROVE  /\ Begin(r, l, n) =
              [mode |-> "record", rec |-> r, len |-> l, left |-> l, chunks |-> 1,
               spare |-> PageSize - l, pages |-> n, usage |-> NoUsage]
         /\ Begin(r, l, n) \in RecordCalls
<1>1. (l + PageSize - 1) \div PageSize = 1 /\ l \in Nat /\ PageSize \in Nat
  <2> DEFINE q == (l + PageSize - 1) \div PageSize
  <2>1. l \in Nat \ {0} /\ l <= PageSize /\ PageSize \in Nat \ {0}
    BY SizesAssumption, LengthsAssumption DEF SinglePage
  <2>2. l + PageSize - 1 \in Nat
    BY <2>1
  <2>3. q \in Nat /\ PageSize * q <= l + PageSize - 1
        /\ l + PageSize - 1 < PageSize * q + PageSize
    BY <2>1, <2>2, DivFacts
  <2>4. q # 0
    BY <2>1, <2>3
  <2>5. ~(2 <= q)
    <3>1. SUFFICES ASSUME 2 <= q PROVE FALSE
      OBVIOUS
    <3>2. PageSize * 2 <= PageSize * q
      BY <2>1, <2>3, <3>1, TimesMonotone
    <3> QED
      BY <2>1, <2>3, <3>2
  <2> QED
    BY <2>1, <2>3, <2>4, <2>5
<1>2. Begin(r, l, n) =
        [mode |-> "record", rec |-> r, len |-> l, left |-> l, chunks |-> 1,
         spare |-> PageSize - l, pages |-> n, usage |-> NoUsage]
  BY <1>1 DEF Begin
<1>3. NoUsage \in [PageIds -> SUBSET Blocks]
  BY DEF NoUsage
<1> QED
  BY <1>1, <1>2, <1>3 DEF RecordCalls

(* A step that changes the call alone, while it has reserved nothing. *)
LEMMA QuietCall ==
  ASSUME FileInv, SinglePage, call \notin {Hung, Broken}, ~InRecord \/ call.usage = NoUsage,
         \/ call' \in {Idle, Hung, Broken}
         \/ \E r \in Records, l \in Lengths : call' = Begin(r, l, file),
         UNCHANGED <<file, chain, bits, dirty, disk, hist, lastAcquired, holders,
                     usage, len>>
  PROVE  FileInv'
<1>1. call' \in {Idle, Hung, Broken} \cup RecordCalls /\ CallOK'
      /\ (InRecord' => call'.usage = NoUsage)
  <2>1. CASE call' \in {Idle, Hung, Broken}
    BY <2>1 DEF CallOK, InRecord, Idle, Hung, Broken
  <2>2. CASE \E r \in Records, l \in Lengths : call' = Begin(r, l, file)
    <3>1. PICK r \in Records, l \in Lengths : call' = Begin(r, l, file)
      BY <2>2
    <3>2. file \in Nat
      BY SetFacts DEF FileInv, Types, TypeOK
    <3>3. /\ call' \in RecordCalls
          /\ call' = [mode |-> "record", rec |-> r, len |-> l, left |-> l, chunks |-> 1,
                      spare |-> PageSize - l, pages |-> file, usage |-> NoUsage]
      BY <3>1, <3>2, BeginFacts
    <3> QED
      BY <3>2, <3>3 DEF CallOK
  <2> QED
    BY <2>1, <2>2
<1>2. Types'
  <2>1. call'.mode \in {"idle", "hung", "broken", "record"}
    BY <1>1 DEF Idle, Hung, Broken, RecordCalls
  <2> QED
    BY <1>1, <2>1 DEF FileInv, Types, TypeOK
<1>3. OwnersDisjoint' /\ OwnedAreUsed' /\ Lost'
  BY DEF FileInv, OwnersDisjoint, OwnedAreUsed, Lost, ChainPages
<1>4. WitnessTrue'
  <2>1. bits \in [PageIds -> SUBSET Blocks]
    BY DEF FileInv, Types, TypeOK
  <2>2. TakenMap = bits
    BY <2>1 DEF TakenMap, Taken, NoUsage
  <2>3. TakenMap' = bits
    BY <1>1, <2>1 DEF TakenMap, Taken, NoUsage, InRecord
  <2> QED
    BY <2>2, <2>3 DEF FileInv, WitnessTrue
<1>5. ChainFits'
  BY DEF FileInv, ChainFits, Cover
<1> QED
  BY <1>1, <1>2, <1>3, <1>4, <1>5 DEF FileInv

LEMMA NextFromIn ==
  ASSUME NEW S \in SUBSET Nat, S # {}, NEW n \in Nat \ {0}, lastAcquired \in Nat
  PROVE  NextFrom(S, n) \in S
<1> DEFINE f == [p \in S |-> (p - lastAcquired) % n]
<1>1. f \in [S -> Nat]
  <2>1. \A p \in S : (p - lastAcquired) % n \in Nat
    OBVIOUS
  <2> QED
    BY <2>1
<1>2. \E p \in S : \A q \in S : f[p] <= f[q]
  <2> HIDE DEF f
  <2> QED
    BY <1>1, LeastExists
<1>3. \E p \in S : \A q \in S : (p - lastAcquired) % n <= (q - lastAcquired) % n
  BY <1>2
<1> QED
  BY <1>3 DEF NextFrom

LEMMA AcquirePageInv == FileInv /\ SinglePage /\ AcquirePage => FileInv'
<1> SUFFICES ASSUME FileInv, SinglePage, AcquirePage PROVE FileInv'
  OBVIOUS
<1>1. /\ file \in Nat /\ file <= MaxPages /\ MaxPages \in Nat /\ file # 0
      /\ bits \in [PageIds -> SUBSET Blocks] /\ HistTyped(hist)
      /\ lastAcquired \in Nat /\ file \in 0 .. MaxPages
  BY SetFacts DEF FileInv, Types, TypeOK, HistTyped
(* An empty page of the file leaves the top class for class 0. *)
<1>2. ASSUME NEW id \in 0 .. file - 1, bits[id] = {}, call = Idle
      PROVE  LET h == Moved(hist, id, PageSize, 0) IN
             HistTyped(h) /\ Valid(h, [bits EXCEPT ![id] = Blocks], file)
  <2> DEFINE u == [bits EXCEPT ![id] = Blocks]
  <2>1. id \in PageIds
    BY <1>1 DEF PageIds
  <2>2. FreeBytes(bits[id]) = PageSize /\ FreeBytes(u[id]) = 0
    BY <1>1, <1>2, <2>1, FreeBytesFacts
  <2>3. Valid(hist, bits, file)
    BY <1>1, <1>2, IdleTaken, ModeFacts DEF FileInv, WitnessTrue
  <2>4. u \in [PageIds -> SUBSET Blocks] /\ \A p \in 0 .. file - 1 : p # id => u[p] = bits[p]
    BY <1>1 DEF PageIds
  <2> HIDE DEF u
  <2>5. HistTyped(Moved(hist, id, PageSize, 0)) /\ Valid(Moved(hist, id, PageSize, 0), u, file)
    BY <1>1, <2>2, <2>3, <2>4, MovedValid
  <2> QED
    BY <2>5 DEF u
<1>3. CASE PageByWitness
  <2> DEFINE id == GetWitness(PageSize)
  <2>1. call = Idle /\ id \in PageIds /\ GivePage(id, file, Moved(hist, id, PageSize, 0))
    BY <1>3 DEF PageByWitness
  <2>2. id \in 0 .. file - 1 /\ bits[id] = {}
    BY <2>1, WholePageWitness
  <2> HIDE DEF id
  <2> QED
    BY <1>1, <1>2, <2>1, <2>2, GivePageInv
<1>4. CASE PageByScan
  <2>1. call = Idle
    BY <1>4 DEF PageByScan
  <2>2. CASE EmptyPages(file) = {}
    <3>1. /\ call' = Broken
          /\ UNCHANGED <<file, chain, bits, dirty, disk, hist, lastAcquired, holders,
                         usage, len>>
      BY <1>4, <2>2 DEF PageByScan, Stop
    <3> QED
      BY <2>1, <3>1, ModeFacts, QuietCall
  <2>3. CASE EmptyPages(file) # {}
    <3> DEFINE id == NextFrom(EmptyPages(file), file)
    <3>1. GivePage(id, file, Moved(hist, id, PageSize, 0))
      BY <1>4, <2>3 DEF PageByScan
    <3>2. EmptyPages(file) \in SUBSET Nat
      BY <1>1 DEF EmptyPages
    <3>3. id \in EmptyPages(file)
      BY <1>1, <2>3, <3>2, NextFromIn
    <3>4. id \in 0 .. file - 1 /\ bits[id] = {}
      BY <3>3 DEF EmptyPages
    <3> HIDE DEF id
    <3> QED
      BY <1>1, <1>2, <2>1, <3>1, <3>4, GivePageInv
  <2> QED
    BY <2>2, <2>3
<1>5. CASE PageByGrowth
  <2>1. call = Idle /\ file < MaxPages /\ GivePage(file, file + 1, hist)
    BY <1>5 DEF PageByGrowth
  <2>2. file \in PageIds /\ file >= file
    BY <1>1, <2>1 DEF PageIds
  <2>3. Valid(hist, bits, file)
    BY <1>1, <2>1, IdleTaken, ModeFacts DEF FileInv, WitnessTrue
  <2>4. Valid(hist, [bits EXCEPT ![file] = Blocks], file + 1)
    <3> DEFINE u == [bits EXCEPT ![file] = Blocks]
    <3>1. \A p \in 0 .. file - 1 : u[p] = bits[p]
      BY <1>1, <2>1 DEF PageIds
    <3> HIDE DEF u
    <3>2. Valid(hist, u, file + 1)
      BY <1>1, <2>3, <3>1, ValidSame
    <3> QED
      BY <3>2 DEF u
  <2>5. file + 1 \in {file, file + 1} /\ file + 1 <= MaxPages /\ file \in 0 .. (file + 1) - 1
    BY <1>1, <2>1
  <2>6. call = Idle /\ GivePage(file, file + 1, hist) /\ file >= file /\ HistTyped(hist)
    BY <1>1, <2>1, <2>2
  <2> QED
    BY <2>4, <2>5, <2>6, GivePageInv
<1> QED
  BY <1>3, <1>4, <1>5 DEF AcquirePage

LEMMA OneHolder ==
  ASSUME OwnersDisjoint, NEW p \in PageIds
  PROVE  holders[p] = 0 \/ (holders[p] = 1 /\ p \notin System \cup ChainPages)
BY DEF OwnersDisjoint

(* A release: blocks of pages that lose their owner are cleared, the histogram
   follows, and the empty tail of the file is cut off. *)
LEMMA CutInv ==
  ASSUME FileInv, SinglePage, call = Idle,
         NEW b \in [PageIds -> SUBSET Blocks], \A p \in PageIds : b[p] \subseteq bits[p],
         NEW h, HistTyped(h), Valid(h, b, file),
         bits' = b,
         hist' = WithoutTail(h, EmptyTail(b, file)),
         file' = file - Cardinality(EmptyTail(b, file)),
         dirty' \subseteq 0 .. Len(chain) - 1, DOMAIN disk' = PageIds,
         holders' \in [PageIds -> Nat],
         usage' \in [Records -> [PageIds -> SUBSET Blocks]],
         len' \in [Records -> Nat],
         \A p \in System \cup ChainPages : b[p] = bits[p],
         \A p \in PageIds : p >= file => b[p] = bits[p],
         \A p \in PageIds : holders'[p] # 0 => holders'[p] = holders[p] /\ b[p] = bits[p],
         \A r \in Records, p \in PageIds :
           usage'[r][p] # {} => usage'[r][p] = usage[r][p] /\ usage[r][p] \subseteq b[p],
         call' = Idle \/ \E r \in Records, l \in Lengths : call' = Begin(r, l, file'),
         UNCHANGED <<chain, lastAcquired>>
  PROVE  FileInv'
<1> DEFINE tail == EmptyTail(b, file)
<1>0. /\ TypeOK /\ OwnersDisjoint /\ OwnedAreUsed /\ Lost /\ ChainFits
  BY DEF FileInv, Types
<1>1. file \in 0 .. MaxPages /\ file \in Nat /\ MaxPages \in Nat /\ MinPages \in Nat \ {0}
  BY <1>0, SetFacts DEF TypeOK
<1>2. /\ Cardinality(tail) \in 0 .. file
      /\ \A p \in 0 .. file - 1 : p \in tail <=> p >= file - Cardinality(tail)
      /\ \A p \in tail : b[p] = {}
  BY <1>1, TailFacts
<1>3. file' \in Nat /\ file' <= file /\ file' = file - Cardinality(tail)
      /\ hist' = WithoutTail(h, tail) /\ ChainPages' = ChainPages
  BY <1>1, <1>2 DEF ChainPages
<1>4. HistTyped(hist') /\ Valid(hist', b, file')
  <2>1. HistTyped(WithoutTail(h, tail)) /\ Valid(WithoutTail(h, tail), b, file - Cardinality(tail))
    BY <1>1, CutValid
  <2> HIDE DEF tail
  <2> QED
    BY <2>1, <1>3
<1> HIDE DEF tail
(* What is not empty stays in the file. *)
<1>5. ASSUME NEW p \in PageIds, p < file, b[p] # {}
      PROVE  p < file'
  <2>1. p \in 0 .. file - 1 /\ p \in Nat
    BY <1>1, <1>5, SetFacts
  <2>2. p \notin tail
    BY <1>2, <1>5
  <2> QED
    BY <1>1, <1>2, <1>3, <2>1, <2>2
<1>6. OwnersDisjoint'
  <2>1. ASSUME NEW p \in PageIds
        PROVE  holders'[p] = 0 \/ (holders'[p] = 1 /\ p \notin System \cup ChainPages')
    <3>1. holders[p] = 0 \/ (holders[p] = 1 /\ p \notin System \cup ChainPages)
      BY <1>0, OneHolder
    <3>2. holders'[p] = 0 \/ holders'[p] = holders[p]
      OBVIOUS
    <3> QED
      BY <1>3, <3>1, <3>2
  <2>2. ASSUME NEW r \in Records, NEW p \in PageIds, usage'[r][p] # {}
        PROVE  holders'[p] = 0 /\ p \notin System \cup ChainPages'
    <3>1. usage[r][p] # {}
      BY <2>2
    <3>2. holders[p] = 0 /\ p \notin System \cup ChainPages
      BY <1>0, <3>1 DEF OwnersDisjoint
    <3> QED
      BY <1>3, <3>2
  <2>3. ASSUME NEW r \in Records, NEW q \in Records, NEW p \in PageIds, r # q
        PROVE  usage'[r][p] \cap usage'[q][p] = {}
    <3>1. usage[r][p] \cap usage[q][p] = {}
      BY <1>0, <2>3 DEF OwnersDisjoint
    <3>2. CASE usage'[r][p] = {} \/ usage'[q][p] = {}
      BY <3>2
    <3>3. CASE usage'[r][p] # {} /\ usage'[q][p] # {}
      BY <3>1, <3>3
    <3> QED
      BY <3>2, <3>3
  <2> QED
    BY <2>1, <2>2, <2>3 DEF OwnersDisjoint
<1>7. OwnedAreUsed'
  <2>1. ASSUME NEW p \in PageIds, p \in System \cup ChainPages' \/ holders'[p] > 0
        PROVE  p < file' /\ bits'[p] = Blocks
    <3>1. (p \in System \cup ChainPages \/ holders[p] > 0) /\ b[p] = bits[p]
      BY <1>3, <2>1
    <3>2. p < file /\ bits[p] = Blocks
      BY <1>0, <3>1 DEF OwnedAreUsed
    <3> QED
      BY <1>5, <3>1, <3>2, BlocksFinite
  <2>2. ASSUME NEW r \in Records, NEW p \in PageIds, usage'[r][p] # {}
        PROVE  p < file' /\ usage'[r][p] \subseteq bits'[p]
    <3>1. usage'[r][p] = usage[r][p] /\ usage[r][p] \subseteq b[p] /\ usage[r][p] # {}
      BY <2>2
    <3>2. p < file
      BY <1>0, <3>1 DEF OwnedAreUsed
    <3> QED
      BY <1>5, <3>1, <3>2
  <2> QED
    BY <2>1, <2>2 DEF OwnedAreUsed
<1>8. Lost'
  <2>1. ASSUME NEW p \in PageIds, p >= file' PROVE b[p] \in {{}, Blocks}
    <3>1. p \in Nat
      BY SetFacts
    <3>2. CASE p < file
      <4>1. p \in tail
        BY <1>1, <1>2, <1>3, <2>1, <3>1, <3>2
      <4> QED
        BY <1>2, <4>1
    <3>3. CASE p >= file
      BY <1>0, <3>3 DEF Lost
    <3> QED
      BY <1>1, <3>1, <3>2, <3>3
  <2> QED
    BY <2>1 DEF Lost
<1>9. MinPages <= file'
  <2>1. MinPages - 1 \in System /\ MinPages - 1 \in PageIds
    BY SetFacts
  <2>2. MinPages - 1 < file'
    BY <1>7, <2>1 DEF OwnedAreUsed
  <2> QED
    BY <1>1, <1>3, <2>2
<1>10. /\ call' \in {Idle, Hung, Broken} \cup RecordCalls
       /\ CallOK'
       /\ call'.mode \in {"idle", "hung", "broken", "record"}
       /\ InRecord' => call'.usage = NoUsage
       /\ call' # Hung
  <2>1. CASE call' = Idle
    BY <2>1 DEF CallOK, InRecord, Idle, Hung
  <2>2. CASE \E r \in Records, l \in Lengths : call' = Begin(r, l, file')
    <3>1. PICK r \in Records, l \in Lengths : call' = Begin(r, l, file')
      BY <2>2
    <3>2. /\ call' \in RecordCalls
          /\ call' = [mode |-> "record", rec |-> r, len |-> l, left |-> l, chunks |-> 1,
                      spare |-> PageSize - l, pages |-> file', usage |-> NoUsage]
      BY <1>3, <3>1, BeginFacts
    <3> QED
      BY <1>3, <3>2 DEF CallOK, Hung
  <2> QED
    BY <2>1, <2>2
<1>11. Types'
  <2>1. file' \in MinPages .. MaxPages
    BY <1>1, <1>3, <1>9
  <2> QED
    BY <1>0, <1>4, <1>10, <2>1 DEF Types, TypeOK, HistTyped
<1>12. WitnessTrue'
  <2>1. TakenMap' = b
    BY <1>10 DEF TakenMap, Taken, NoUsage, InRecord
  <2> QED
    BY <1>4, <2>1 DEF WitnessTrue
<1>13. ChainFits'
  <2>1. call \notin {Hung, Broken}
    BY ModeFacts
  <2>2. Cover(chain) \in Nat
    <3>1. Len(chain) \in Nat
      BY <1>0 DEF TypeOK
    <3> QED
      BY <3>1, SetFacts DEF Cover
  <2>3. file <= Cover(chain)
    BY <1>0, <2>1 DEF ChainFits
  <2>4. file' <= Cover(chain)
    BY <1>1, <1>3, <2>2, <2>3
  <2> QED
    BY <1>0, <2>4 DEF ChainFits, Cover
<1> QED
  BY <1>6, <1>7, <1>8, <1>10, <1>11, <1>12, <1>13 DEF FileInv

LEMMA ChainInPages ==
  ASSUME TypeOK PROVE ChainPages \subseteq PageIds
<1>1. \A i \in DOMAIN chain : chain[i] \in PageIds
  BY DEF TypeOK
<1> QED
  BY <1>1 DEF ChainPages

(* A page of the file is described by an info page of the chain. *)
LEMMA InfoOfPage ==
  ASSUME FileInv, call \notin {Hung, Broken}, NEW p \in PageIds, p < file
  PROVE  InfoOf(p) \in 0 .. Len(chain) - 1
<1>1. p \in Nat /\ Len(chain) \in Nat /\ file <= Cover(chain) /\ file \in Nat
  <2>1. TypeOK /\ file <= Cover(chain)
    BY DEF FileInv, Types, ChainFits
  <2>2. chain \in Seq(PageIds) /\ file \in MinPages .. MaxPages
    BY <2>1 DEF TypeOK
  <2> QED
    BY <2>1, <2>2, SetFacts
<1>2. PerPage * Len(chain) \in Nat
  BY <1>1, SetFacts
<1>3. p < PerPage * Len(chain)
  BY <1>1, <1>2 DEF Cover
<1> QED
  BY <1>1, <1>3, InfoOfFacts

LEMMA ReleasePageInv ==
  ASSUME FileInv, SinglePage, NEW id \in PageIds, ReleasePage(id)
  PROVE  FileInv'
<1> DEFINE b == [bits EXCEPT ![id] = {}]
           h == Moved(hist, id, 0, PageSize)
<1>1. /\ call = Idle /\ holders[id] > 0
      /\ holders' = [holders EXCEPT ![id] = @ - 1]
      /\ bits' = b
      /\ dirty' = dirty \cup {InfoOf(id)}
      /\ hist' = WithoutTail(h, EmptyTail(b, file))
      /\ file' = file - Cardinality(EmptyTail(b, file))
      /\ UNCHANGED <<chain, disk, lastAcquired, call, usage, len>>
  BY DEF ReleasePage
<1>2. /\ TypeOK /\ OwnersDisjoint /\ OwnedAreUsed /\ HistTyped(hist)
      /\ bits \in [PageIds -> SUBSET Blocks] /\ file \in 0 .. MaxPages /\ file \in Nat
  <2>1. TypeOK /\ OwnersDisjoint /\ OwnedAreUsed
    BY DEF FileInv, Types
  <2>2. HistTyped(hist) /\ bits \in [PageIds -> SUBSET Blocks] /\ file \in MinPages .. MaxPages
    BY <2>1 DEF TypeOK, HistTyped
  <2> QED
    BY <2>1, <2>2, SetFacts
<1>3. holders[id] = 1 /\ id \notin System \cup ChainPages /\ id < file /\ bits[id] = Blocks
      /\ \A r \in Records : usage[r][id] = {}
  BY <1>1, <1>2 DEF OwnersDisjoint, OwnedAreUsed
<1>4. id \in 0 .. file - 1
  BY <1>2, <1>3, SetFacts
<1>5. b \in [PageIds -> SUBSET Blocks] /\ b[id] = {}
      /\ \A p \in PageIds : b[p] \subseteq bits[p] /\ (p # id => b[p] = bits[p])
  BY <1>2
<1>6. HistTyped(h) /\ Valid(h, b, file)
  <2>1. Valid(hist, bits, file)
    BY <1>1, <1>2, IdleTaken, ModeFacts DEF FileInv, WitnessTrue
  <2>2. FreeBytes(bits[id]) = 0 /\ FreeBytes(b[id]) = PageSize
    BY <1>2, <1>3, <1>5, FreeBytesFacts
  <2>3. \A p \in 0 .. file - 1 : p # id => b[p] = bits[p]
    BY <1>2, <1>5 DEF PageIds
  <2> HIDE DEF b
  <2>4. /\ HistTyped(Moved(hist, id, FreeBytes(bits[id]), FreeBytes(b[id])))
        /\ Valid(Moved(hist, id, FreeBytes(bits[id]), FreeBytes(b[id])), b, file)
    BY <1>2, <1>4, <1>5, <2>1, <2>3, MovedValid
  <2> QED
    BY <2>2, <2>4
<1>7. dirty' \subseteq 0 .. Len(chain) - 1
  <2>1. InfoOf(id) \in 0 .. Len(chain) - 1
    BY <1>1, <1>3, ModeFacts, InfoOfPage
  <2> QED
    BY <1>1, <1>2, <2>1 DEF TypeOK
<1>8. holders' \in [PageIds -> Nat]
      /\ \A p \in PageIds : holders'[p] = IF p = id THEN 0 ELSE holders[p]
  BY <1>1, <1>2, <1>3 DEF TypeOK
<1>9. \A p \in PageIds : holders'[p] # 0 => holders'[p] = holders[p] /\ b[p] = bits[p]
  BY <1>5, <1>8
<1>10. \A r \in Records, p \in PageIds :
         usage'[r][p] # {} => usage'[r][p] = usage[r][p] /\ usage[r][p] \subseteq b[p]
  BY <1>1, <1>2, <1>3, <1>5 DEF OwnedAreUsed
<1>11. \A p \in System \cup ChainPages : b[p] = bits[p]
  <2>1. System \cup ChainPages \subseteq PageIds
    BY <1>2, ChainInPages, SetFacts
  <2> QED
    BY <1>3, <1>5, <2>1
<1>12. \A p \in PageIds : p >= file => b[p] = bits[p]
  BY <1>2, <1>3, <1>5, SetFacts
<1>13. /\ DOMAIN disk' = PageIds /\ usage' \in [Records -> [PageIds -> SUBSET Blocks]]
       /\ len' \in [Records -> Nat] /\ call' = Idle /\ UNCHANGED <<chain, lastAcquired>>
  BY <1>1, <1>2 DEF TypeOK
<1> HIDE DEF b, h
<1> QED
  BY <1>1, <1>5, <1>6, <1>7, <1>8, <1>9, <1>10, <1>11, <1>12, <1>13, CutInv

LEMMA DropRecordInv ==
  ASSUME FileInv, SinglePage, NEW r \in Records, DropRecord(r),
         len' = [len EXCEPT ![r] = 0],
         call' = Idle \/ \E q \in Records, l \in Lengths : call' = Begin(q, l, file'),
         UNCHANGED <<chain, lastAcquired, holders>>
  PROVE  FileInv'
<1> DEFINE b == [p \in PageIds |-> bits[p] \ usage[r][p]]
           ps == {p \in PageIds : usage[r][p] # {}}
<1>1. /\ call = Idle
      /\ bits' = b
      /\ \E h \in MovedAll(hist, ps, bits, b) : hist' = WithoutTail(h, EmptyTail(b, file))
      /\ file' = file - Cardinality(EmptyTail(b, file))
      /\ disk' = Written(b, dirty \cup {InfoOf(p) : p \in ps})
      /\ dirty' = {}
      /\ usage' = [usage EXCEPT ![r] = NoUsage]
  BY DEF DropRecord
<1>2. /\ TypeOK /\ OwnersDisjoint /\ OwnedAreUsed /\ HistTyped(hist)
      /\ bits \in [PageIds -> SUBSET Blocks] /\ file \in 0 .. MaxPages /\ file \in Nat
      /\ usage \in [Records -> [PageIds -> SUBSET Blocks]]
  BY SetFacts DEF FileInv, Types, TypeOK, HistTyped
<1>3. /\ b \in [PageIds -> SUBSET Blocks]
      /\ \A p \in PageIds : b[p] = bits[p] \ usage[r][p]
  BY <1>2
<1>4. \A p \in PageIds : p \notin ps => usage[r][p] = {} /\ b[p] = bits[p]
  BY <1>3
<1>5. ps \in SUBSET (0 .. file - 1)
  <2>1. ASSUME NEW p \in ps PROVE p \in 0 .. file - 1
    <3>1. p \in PageIds /\ p \in Nat
      BY SetFacts
    <3>2. p < file
      BY <1>2, <3>1 DEF OwnedAreUsed
    <3> QED
      BY <1>2, <3>1, <3>2
  <2> QED
    BY <2>1
<1>6. PICK h \in MovedAll(hist, ps, bits, b) : hist' = WithoutTail(h, EmptyTail(b, file))
  BY <1>1
<1>7. \A p \in PageIds : p \in ps => holders[p] = 0 /\ p \notin System \cup ChainPages
  BY <1>2 DEF OwnersDisjoint
<1>8. \A q \in Records, p \in PageIds :
        usage'[q][p] # {} => usage'[q][p] = usage[q][p] /\ usage[q][p] \subseteq b[p]
  <2>1. ASSUME NEW q \in Records, NEW p \in PageIds, usage'[q][p] # {}
        PROVE  usage'[q][p] = usage[q][p] /\ usage[q][p] \subseteq b[p]
    <3>1. q # r
      <4>1. q = r => usage'[q] = NoUsage
        BY <1>1, <1>2
      <4> QED
        BY <2>1, <4>1 DEF NoUsage
    <3>2. usage'[q] = usage[q]
      BY <1>1, <1>2, <3>1
    <3>3. usage[q][p] \cap usage[r][p] = {}
      BY <1>2, <3>1 DEF OwnersDisjoint
    <3>4. usage[q][p] \subseteq bits[p]
      BY <1>2, <2>1, <3>2 DEF OwnedAreUsed
    <3> QED
      BY <1>3, <3>2, <3>3, <3>4
  <2> QED
    BY <2>1
<1> HIDE DEF ps
<1>9. HistTyped(h) /\ Valid(h, b, file)
  <2>1. Valid(hist, bits, file)
    BY <1>1, <1>2, IdleTaken, ModeFacts DEF FileInv, WitnessTrue
  <2> HIDE DEF b
  <2>2. \A p \in 0 .. file - 1 : p \notin ps => b[p] = bits[p]
    <3>1. 0 .. file - 1 \subseteq PageIds
      BY <1>2, SetFacts DEF PageIds
    <3> QED
      BY <1>4, <3>1
  <2> QED
    BY <1>2, <1>3, <1>5, <2>1, <2>2, MovedAllValid
<1>10. usage' \in [Records -> [PageIds -> SUBSET Blocks]]
  <2>1. NoUsage \in [PageIds -> SUBSET Blocks]
    BY DEF NoUsage
  <2> QED
    BY <1>1, <1>2, <2>1
<1>11. DOMAIN disk' = PageIds
  BY <1>1 DEF Written
<1>12. \A p \in System \cup ChainPages : b[p] = bits[p]
  <2>1. System \cup ChainPages \subseteq PageIds
    BY <1>2, ChainInPages, SetFacts
  <2> QED
    BY <1>4, <1>7, <2>1
<1>13. /\ holders' \in [PageIds -> Nat]
       /\ \A p \in PageIds : holders'[p] # 0 => holders'[p] = holders[p] /\ b[p] = bits[p]
  BY <1>2, <1>4, <1>7 DEF TypeOK
<1>14. len' \in [Records -> Nat]
  BY <1>2 DEF TypeOK
<1>15. dirty' \subseteq 0 .. Len(chain) - 1
  BY <1>1
<1>16. \A p \in PageIds : b[p] \subseteq bits[p]
  BY <1>3
<1>17. \A p \in PageIds : p >= file => b[p] = bits[p]
  BY <1>2, <1>4, <1>5, SetFacts
<1> HIDE DEF b
<1> QED
  BY <1>1, <1>3, <1>6, <1>8, <1>9, <1>10, <1>11, <1>12, <1>13, <1>14, <1>15, <1>16, <1>17,
     CutInv

(* A turn of the loop of acquireRecord in a file that does not grow. *)
LEMMA TurnInv ==
  ASSUME FileInv, InRecord, call' \in RecordCalls, call'.chunks = 0,
         \A p \in PageIds : /\ call'.usage[p] \cap bits[p] = {}
                            /\ call'.usage[p] # {} => p < file,
         HistTyped(hist'),
         Valid(hist', [p \in PageIds |-> bits[p] \cup call'.usage[p]], file),
         lastAcquired' \in 0 .. MaxPages,
         UNCHANGED <<file, chain, bits, dirty, disk, holders, usage, len>>
  PROVE  FileInv'
<1>1. call'.mode = "record" /\ InRecord'
  BY DEF RecordCalls, InRecord
<1>2. Types'
  BY <1>1 DEF FileInv, Types, TypeOK, HistTyped
<1>3. OwnersDisjoint' /\ OwnedAreUsed' /\ Lost'
  BY DEF FileInv, OwnersDisjoint, OwnedAreUsed, Lost, ChainPages
<1>4. WitnessTrue'
  <2>1. TakenMap' = [p \in PageIds |-> bits[p] \cup call'.usage[p]]
    BY <1>1 DEF TakenMap, Taken
  <2> QED
    BY <2>1 DEF WitnessTrue
<1>5. CallOK'
  BY <1>1 DEF CallOK
<1>6. ChainFits'
  BY ModeFacts DEF FileInv, ChainFits, Cover
<1> QED
  BY <1>2, <1>3, <1>4, <1>5, <1>6 DEF FileInv

(* The one chunk of the call is found at page id. *)
LEMMA NextChunkFacts ==
  ASSUME FileInv, SinglePage, InRecord, call.chunks > 0, NEW id \in PageIds,
         NEW free, free = FreeBytes(bits[id]), free # 0
  PROVE  LET c == NextChunk(id, free) IN
         /\ call.usage = NoUsage /\ call.pages <= file /\ call.chunks = 1
         /\ Need \in 1 .. PageSize
         /\ c \in RecordCalls /\ c.chunks = 0
         /\ \A p \in PageIds : p # id => c.usage[p] = {}
         /\ c.usage[id] \cap bits[id] = {}
         /\ FreeAfter(id, free) = FreeBytes(bits[id] \cup c.usage[id])
<1> DEFINE reserved == Least(call.left, free)
           R == Reserve(Blocks \ bits[id], reserved)
           V == [call.usage EXCEPT ![id] = @ \cup R]
           c == NextChunk(id, free)
<1>1. /\ call.chunks = 1 /\ call.left = call.len /\ call.spare = PageSize - call.len
      /\ call.usage = NoUsage /\ call.pages <= file
  <2>1. call.chunks # 0
    OBVIOUS
  <2> QED
    BY <2>1 DEF FileInv, CallOK
<1>2. call \in RecordCalls /\ bits \in [PageIds -> SUBSET Blocks]
  BY ModeFacts DEF FileInv, Types, TypeOK
<1>3. call.len \in 1 .. PageSize /\ PageSize \in Nat
  <2>1. call.len \in Lengths
    BY <1>2 DEF RecordCalls
  <2>2. call.len \in Nat \ {0} /\ call.len <= PageSize
    BY <2>1, LengthsAssumption DEF SinglePage
  <2> QED
    BY <2>2, SizesAssumption
<1>4. Need \in 1 .. PageSize
  BY <1>1, <1>3 DEF Need
<1>5. bits[id] \in SUBSET Blocks /\ free \in 1 .. PageSize
  <2>1. bits[id] \in SUBSET Blocks
    BY <1>2
  <2>2. FreeBytes(bits[id]) \in 0 .. PageSize
    BY <2>1, FreeBytesFacts
  <2> QED
    BY <2>1, <2>2, <1>3
<1>6. reserved \in Nat \ {0}
  BY <1>1, <1>3, <1>5 DEF Least
<1>7. R \in SUBSET Blocks /\ R \cap bits[id] = {}
      /\ FreeBytes(bits[id] \cup R) = free - ReservedBytes(R, reserved)
  <2> HIDE DEF reserved
  <2> QED
    BY <1>5, <1>6, ReserveFacts
<1>8. NoUsage \in [PageIds -> SUBSET Blocks] /\ \A p \in PageIds : NoUsage[p] = {}
  BY DEF NoUsage
<1>9. c = [call EXCEPT !.chunks = @ - 1, !.left = @ - reserved,
                       !.spare = @ - (PageSize - reserved),
                       !.usage = V]
  BY DEF NextChunk
<1>10. FreeAfter(id, free) = free - ReservedBytes(R, reserved)
  BY DEF FreeAfter
<1> HIDE DEF R, reserved, c, V
<1>11. c.usage = [NoUsage EXCEPT ![id] = @ \cup R] /\ c.chunks = 0
  <2>1. DOMAIN call = {"mode", "rec", "len", "left", "chunks", "spare", "pages", "usage"}
    BY <1>2 DEF RecordCalls
  <2>2. c.chunks = call.chunks - 1
    BY <1>9, <2>1
  <2>3. c.usage = V
    BY <1>9, <2>1
  <2> QED
    BY <1>1, <2>2, <2>3 DEF V
<1>12. c.usage[id] = R /\ \A p \in PageIds : p # id => c.usage[p] = {}
  BY <1>8, <1>11
<1>13. c.usage \in [PageIds -> SUBSET Blocks]
  BY <1>7, <1>8, <1>11
<1>14. c \in RecordCalls
  <2>1. call.left \in Int /\ call.spare \in Int /\ PageSize \in Int /\ reserved \in Int
    BY <1>2, <1>3, <1>6 DEF RecordCalls
  <2>2. c = [mode |-> call.mode, rec |-> call.rec, len |-> call.len,
             left |-> call.left - reserved, chunks |-> 0,
             spare |-> call.spare - (PageSize - reserved), pages |-> call.pages,
             usage |-> c.usage]
    BY <1>1, <1>2, <1>9, <1>11 DEF RecordCalls
  <2> QED
    BY <1>2, <1>13, <2>1, <2>2 DEF RecordCalls
<1> QED
  BY <1>1, <1>4, <1>7, <1>10, <1>12, <1>11, <1>14 DEF c

(* The chunk is taken from a page of the file with free space. *)
LEMMA ChunkInv ==
  ASSUME FileInv, SinglePage, InRecord, call.chunks > 0,
         NEW id \in PageIds, id < file, NEW free, free = FreeBytes(bits[id]), free # 0,
         call' = NextChunk(id, free),
         hist' = Moved(hist, id, free, FreeAfter(id, free)),
         lastAcquired' \in 0 .. MaxPages,
         UNCHANGED <<file, chain, bits, dirty, disk, holders, usage, len>>
  PROVE  FileInv'
<1> DEFINE c == NextChunk(id, free)
           u == [p \in PageIds |-> bits[p] \cup c.usage[p]]
<1>1. /\ call.usage = NoUsage
      /\ c \in RecordCalls /\ c.chunks = 0
      /\ \A p \in PageIds : p # id => c.usage[p] = {}
      /\ c.usage[id] \cap bits[id] = {}
      /\ FreeAfter(id, free) = FreeBytes(bits[id] \cup c.usage[id])
  BY NextChunkFacts
<1>2. /\ bits \in [PageIds -> SUBSET Blocks] /\ HistTyped(hist) /\ file \in 0 .. MaxPages
      /\ file \in Nat
  BY SetFacts DEF FileInv, Types, TypeOK, HistTyped
<1>3. call' = c
  OBVIOUS
<1> HIDE DEF c
<1>4. c.usage \in [PageIds -> SUBSET Blocks]
  BY <1>1 DEF RecordCalls
<1>5. u \in [PageIds -> SUBSET Blocks] /\ u[id] = bits[id] \cup c.usage[id]
      /\ \A p \in 0 .. file - 1 : p # id => u[p] = bits[p]
  <2>1. 0 .. file - 1 \subseteq PageIds
    BY <1>2, SetFacts DEF PageIds
  <2>2. \A p \in PageIds : u[p] = bits[p] \cup c.usage[p] /\ u[p] \in SUBSET Blocks
    BY <1>2, <1>4
  <2>3. \A p \in PageIds : p # id => u[p] = bits[p]
    BY <1>1, <2>2
  <2>4. u \in [PageIds -> SUBSET Blocks]
    BY <2>2
  <2> HIDE DEF u
  <2> QED
    BY <2>1, <2>2, <2>3, <2>4
<1>6. TakenMap = bits
  BY <1>1, <1>2 DEF TakenMap, Taken, NoUsage
<1>7. Valid(hist, bits, file) /\ id \in 0 .. file - 1
  BY <1>2, <1>6, SetFacts DEF FileInv, WitnessTrue
<1> HIDE DEF u
<1>8. HistTyped(hist') /\ Valid(hist', u, file)
  <2>1. LET g == Moved(hist, id, FreeBytes(bits[id]), FreeBytes(u[id])) IN
        HistTyped(g) /\ Valid(g, u, file)
    BY <1>2, <1>5, <1>7, MovedValid
  <2>2. hist' = Moved(hist, id, FreeBytes(bits[id]), FreeBytes(u[id]))
    BY <1>1, <1>5
  <2> QED
    BY <2>1, <2>2
<1>9. \A p \in PageIds : /\ c.usage[p] \cap bits[p] = {}
                         /\ c.usage[p] # {} => p < file
  BY <1>1
<1>10. Valid(hist', [p \in PageIds |-> bits[p] \cup call'.usage[p]], file)
  BY <1>3, <1>8 DEF u
<1> QED
  BY <1>1, <1>3, <1>8, <1>9, <1>10, TurnInv

LEMMA ChunkByWitnessInv == FileInv /\ SinglePage /\ ChunkByWitness => FileInv'
<1> SUFFICES ASSUME FileInv, SinglePage, ChunkByWitness PROVE FileInv'
  OBVIOUS
<1> DEFINE id == GetWitness(Need)
           free == FreeBytes(bits[id])
<1>1. /\ InRecord /\ call.chunks > 0
      /\ id \in PageIds
      /\ call' = NextChunk(id, free)
      /\ hist' = Moved(hist, id, free, FreeAfter(id, free))
      /\ UNCHANGED <<file, chain, bits, dirty, disk, lastAcquired, holders, usage, len>>
  BY DEF ChunkByWitness
<1>2. /\ call.chunks # 0 /\ bits \in [PageIds -> SUBSET Blocks] /\ Types
      /\ lastAcquired \in 0 .. MaxPages
  BY <1>1 DEF FileInv, Types, TypeOK
<1>3. call.usage = NoUsage /\ call.spare = PageSize - call.len
  BY <1>1, <1>2 DEF FileInv, CallOK
<1>4. Need \in 0 .. PageSize
  <2>1. call.len \in Lengths
    BY <1>1, <1>2, ModeFacts DEF Types, RecordCalls
  <2>2. call.len \in Nat /\ call.len <= PageSize /\ PageSize \in Nat
    BY <2>1, LengthsAssumption, SizesAssumption DEF SinglePage
  <2> QED
    BY <1>3, <2>2 DEF Need
<1>5. PICK c \in ClassIds : hist.witness[c] = id /\ hist.witness[c] # NoId
  BY <1>1, <1>2, <1>4, GetWitnessFacts
<1>6. TakenMap = bits
  BY <1>2, <1>3 DEF TakenMap, Taken, NoUsage
<1>7. id \in 0 .. file - 1 /\ ClassFor(FreeBytes(bits[id])) = c
  BY <1>5, <1>6 DEF FileInv, WitnessTrue, Valid
<1>8. id < file
  <2>1. file \in Nat
    BY <1>2, SetFacts DEF Types, TypeOK
  <2> QED
    BY <1>7, <2>1
<1>9. free # 0
  <2>1. bits[id] \in SUBSET Blocks /\ c # 0
    BY <1>1, <1>2, SetFacts
  <2> QED
    BY <1>7, <2>1, ClassOfBlocks
<1>10. lastAcquired' \in 0 .. MaxPages
  BY <1>1, <1>2
<1> HIDE DEF id
<1> QED
  BY <1>1, <1>8, <1>9, <1>10, ChunkInv

LEMMA ChunkByScanInv == FileInv /\ SinglePage /\ ChunkByScan => FileInv'
<1> SUFFICES ASSUME FileInv, SinglePage, ChunkByScan PROVE FileInv'
  OBVIOUS
<1> DEFINE found == {p \in 0 .. call.pages - 1 : FreeBytes(bits[p]) >= Need}
           id == NextFrom(found, call.pages)
           free == FreeBytes(bits[id])
<1>1. /\ InRecord /\ call.chunks > 0
      /\ IF found = {}
         THEN /\ call' = [call EXCEPT !.chunks = @ - 1]
              /\ UNCHANGED <<hist, lastAcquired>>
         ELSE /\ call' = NextChunk(id, free)
              /\ hist' = Moved(hist, id, free, FreeAfter(id, free))
              /\ lastAcquired' = (id + 1) % call.pages
      /\ UNCHANGED <<file, chain, bits, dirty, disk, holders, usage, len>>
  BY DEF ChunkByScan
<1>2. /\ call.chunks # 0 /\ bits \in [PageIds -> SUBSET Blocks] /\ HistTyped(hist)
      /\ lastAcquired \in 0 .. MaxPages /\ lastAcquired \in Nat
      /\ call \in RecordCalls /\ file \in Nat /\ file <= MaxPages /\ MaxPages \in Nat
  BY <1>1, ModeFacts, SetFacts DEF FileInv, Types, TypeOK, HistTyped
<1>3. /\ call.usage = NoUsage /\ call.spare = PageSize - call.len
      /\ call.pages <= file /\ call.chunks = 1
  BY <1>1, <1>2 DEF FileInv, CallOK
<1>4. Need \in Nat \ {0}
  <2>1. call.len \in Lengths
    BY <1>2 DEF RecordCalls
  <2>2. call.len \in Nat \ {0} /\ PageSize \in Nat
    BY <2>1, LengthsAssumption, SizesAssumption
  <2> QED
    BY <1>3, <2>2 DEF Need
<1>5. TakenMap = bits
  BY <1>2, <1>3 DEF TakenMap, Taken, NoUsage
<1>6. call.pages \in Nat
  BY <1>2 DEF RecordCalls
<1>7. CASE found = {}
  <2>1. call' = [call EXCEPT !.chunks = @ - 1] /\ UNCHANGED <<hist, lastAcquired>>
    BY <1>1, <1>7
  <2>2. DOMAIN call = {"mode", "rec", "len", "left", "chunks", "spare", "pages", "usage"}
    BY <1>2 DEF RecordCalls
  <2>3. call'.chunks = 0 /\ call'.usage = NoUsage
    BY <1>3, <2>1, <2>2
  <2>4. call' \in RecordCalls
    BY <1>2, <1>3, <2>1 DEF RecordCalls
  <2>5. \A p \in PageIds : /\ call'.usage[p] \cap bits[p] = {}
                           /\ call'.usage[p] # {} => p < file
    BY <2>3 DEF NoUsage
  <2>6. [p \in PageIds |-> bits[p] \cup call'.usage[p]] = bits
    BY <1>2, <2>3 DEF NoUsage
  <2>7. HistTyped(hist') /\ lastAcquired' \in 0 .. MaxPages
    BY <1>2, <2>1
  <2>8. Valid(hist', [p \in PageIds |-> bits[p] \cup call'.usage[p]], file)
    BY <1>5, <2>1, <2>6 DEF FileInv, WitnessTrue
  <2> QED
    BY <1>1, <2>3, <2>4, <2>5, <2>7, <2>8, TurnInv
<1>8. CASE found # {}
  <2>1. /\ call' = NextChunk(id, free)
        /\ hist' = Moved(hist, id, free, FreeAfter(id, free))
        /\ lastAcquired' = (id + 1) % call.pages
    BY <1>1, <1>8
  <2>2. found \in SUBSET Nat /\ found \subseteq 0 .. call.pages - 1
    BY <1>6
  <2>3. call.pages # 0
    BY <1>6, <1>8, <2>2
  <2>4. id \in found
    <3> HIDE DEF found
    <3> QED
      BY <1>2, <1>6, <1>8, <2>2, <2>3, NextFromIn
  <2>5. id \in 0 .. call.pages - 1 /\ FreeBytes(bits[id]) >= Need
    BY <2>4
  <2> HIDE DEF id, found
  <2>6. id \in PageIds /\ id < file /\ id \in Nat
    BY <1>2, <1>3, <1>6, <2>5 DEF PageIds
  <2>7. free # 0
    <3>1. FreeBytes(bits[id]) \in 0 .. PageSize
      BY <1>2, <2>6, FreeBytesFacts
    <3> QED
      BY <1>4, <2>5, <3>1
  <2>8. lastAcquired' \in 0 .. MaxPages
    <3>1. lastAcquired' \in 0 .. call.pages - 1
      BY <1>6, <2>1, <2>3, <2>6, DivFacts
    <3> QED
      BY <1>2, <1>3, <1>6, <3>1
  <2> QED
    BY <1>1, <2>1, <2>6, <2>7, <2>8, ChunkInv
<1> QED
  BY <1>7, <1>8

(* setRecordUsed: what the call has reserved becomes the record's. *)
LEMMA FinishRecordInv == FileInv /\ FinishRecord => FileInv'
<1> SUFFICES ASSUME FileInv, FinishRecord PROVE FileInv'
  OBVIOUS
<1> DEFINE b == [p \in PageIds |-> bits[p] \cup call.usage[p]]
<1>1. /\ InRecord /\ call.chunks = 0 /\ bits' = b
      /\ dirty' = dirty \cup {InfoOf(p) : p \in {q \in PageIds : call.usage[q] # {}}}
      /\ usage' = [usage EXCEPT ![call.rec] = call.usage]
      /\ len' = [len EXCEPT ![call.rec] = call.len]
      /\ call' = Idle
      /\ UNCHANGED <<file, chain, disk, hist, lastAcquired, holders>>
  BY DEF FinishRecord
<1>2. /\ TypeOK /\ OwnersDisjoint /\ OwnedAreUsed /\ Lost /\ ChainFits
      /\ call \notin {Hung, Broken}
      /\ bits \in [PageIds -> SUBSET Blocks] /\ call \in RecordCalls
      /\ file \in Nat
  BY <1>1, ModeFacts, SetFacts DEF FileInv, Types, TypeOK
<1>3. call.usage \in [PageIds -> SUBSET Blocks] /\ call.rec \in Records /\ call.len \in Nat
  BY <1>2, LengthsAssumption DEF RecordCalls
<1>4. \A p \in PageIds : /\ call.usage[p] \cap bits[p] = {}
                         /\ call.usage[p] # {} => p < file
  BY <1>1 DEF FileInv, CallOK
<1>5. b \in [PageIds -> SUBSET Blocks] /\ \A p \in PageIds : b[p] = bits[p] \cup call.usage[p]
  BY <1>2, <1>3
<1>6. \A r \in Records : usage'[r] = IF r = call.rec THEN call.usage ELSE usage[r]
  BY <1>1, <1>2 DEF TypeOK
<1>7. ChainPages' = ChainPages
  BY <1>1 DEF ChainPages
<1> HIDE DEF b
(* What the call has reserved is not used by anybody yet. *)
<1>8. ASSUME NEW p \in PageIds, call.usage[p] # {}
      PROVE  holders[p] = 0 /\ p \notin System \cup ChainPages
  <2>1. bits[p] # Blocks
    BY <1>3, <1>4, <1>8
  <2>2. holders[p] \in Nat
    BY <1>2 DEF TypeOK
  <2> QED
    BY <1>2, <2>1, <2>2 DEF OwnedAreUsed
<1>9. Types'
  <2>1. dirty' \subseteq 0 .. Len(chain') - 1
    <3>1. \A p \in PageIds : call.usage[p] # {} => InfoOf(p) \in 0 .. Len(chain) - 1
      BY <1>2, <1>4, InfoOfPage
    <3> QED
      BY <1>1, <1>2, <3>1 DEF TypeOK
  <2>2. Idle.mode = "idle"
    BY DEF Idle
  <2>3. usage' \in [Records -> [PageIds -> SUBSET Blocks]] /\ len' \in [Records -> Nat]
    BY <1>1, <1>2, <1>3 DEF TypeOK
  <2> QED
    BY <1>1, <1>2, <1>5, <2>1, <2>2, <2>3 DEF Types, TypeOK
<1>10. OwnersDisjoint'
  <2>1. ASSUME NEW p \in PageIds
        PROVE  holders'[p] = 0 \/ (holders'[p] = 1 /\ p \notin System \cup ChainPages')
    BY <1>1, <1>2, <1>7, OneHolder
  <2>2. ASSUME NEW r \in Records, NEW p \in PageIds, usage'[r][p] # {}
        PROVE  holders'[p] = 0 /\ p \notin System \cup ChainPages'
    <3>1. CASE r = call.rec
      BY <1>1, <1>6, <1>7, <1>8, <2>2, <3>1
    <3>2. CASE r # call.rec
      BY <1>1, <1>2, <1>6, <1>7, <2>2, <3>2 DEF OwnersDisjoint
    <3> QED
      BY <3>1, <3>2
  <2>3. ASSUME NEW r \in Records, NEW q \in Records, NEW p \in PageIds, r # q
        PROVE  usage'[r][p] \cap usage'[q][p] = {}
    <3>1. usage[r][p] \cap usage[q][p] = {}
      BY <1>2, <2>3 DEF OwnersDisjoint
    <3>2. \A t \in Records : usage[t][p] \cap call.usage[p] = {}
      <4>1. \A t \in Records : usage[t][p] \subseteq bits[p]
        BY <1>2 DEF OwnedAreUsed
      <4> QED
        BY <1>4, <4>1
    <3> QED
      BY <1>6, <2>3, <3>1, <3>2
  <2> QED
    BY <2>1, <2>2, <2>3 DEF OwnersDisjoint
<1>11. OwnedAreUsed'
  <2>1. ASSUME NEW p \in PageIds, p \in System \cup ChainPages' \/ holders'[p] > 0
        PROVE  p < file' /\ bits'[p] = Blocks
    <3>1. p < file /\ bits[p] = Blocks
      BY <1>1, <1>2, <1>7, <2>1 DEF OwnedAreUsed
    <3> QED
      BY <1>1, <1>3, <1>5, <3>1
  <2>2. ASSUME NEW r \in Records, NEW p \in PageIds, usage'[r][p] # {}
        PROVE  p < file' /\ usage'[r][p] \subseteq bits'[p]
    <3>1. CASE r = call.rec
      BY <1>1, <1>4, <1>5, <1>6, <2>2, <3>1
    <3>2. CASE r # call.rec
      <4>1. p < file /\ usage[r][p] \subseteq bits[p]
        BY <1>2, <1>6, <2>2, <3>2 DEF OwnedAreUsed
      <4> QED
        BY <1>1, <1>5, <1>6, <3>2, <4>1
    <3> QED
      BY <3>1, <3>2
  <2> QED
    BY <2>1, <2>2 DEF OwnedAreUsed
<1>12. Lost'
  <2>1. ASSUME NEW p \in PageIds, p >= file PROVE b[p] \in {{}, Blocks}
    <3>1. bits[p] \in {{}, Blocks} /\ ~(p < file)
      BY <1>2, <2>1, SetFacts DEF Lost
    <3> QED
      BY <1>4, <1>5, <3>1
  <2> QED
    BY <1>1, <2>1 DEF Lost
<1>13. WitnessTrue'
  <2>1. TakenMap = b
    BY <1>1 DEF TakenMap, Taken, b
  <2>2. TakenMap' = b
    BY <1>1, <1>5 DEF TakenMap, Taken, InRecord, Idle
  <2> QED
    BY <1>1, <2>1, <2>2 DEF FileInv, WitnessTrue
<1>14. CallOK'
  BY <1>1 DEF CallOK, InRecord, Idle
<1>15. ChainFits'
  BY <1>1, <1>2 DEF ChainFits, Cover
<1> QED
  BY <1>9, <1>10, <1>11, <1>12, <1>13, <1>14, <1>15 DEF FileInv

LEMMA ChunkByGrowthInv == FileInv /\ SinglePage /\ ChunkByGrowth => FileInv'
<1> SUFFICES ASSUME FileInv, SinglePage, ChunkByGrowth PROVE FileInv'
  OBVIOUS
<1> DEFINE n == file + 1
           s == Settled(n)
           b == WithInfo(bits, s.chain)
           c == NextChunk(file, PageSize)
<1>1. /\ InRecord /\ call.chunks > 0
      /\ IF file = MaxPages
         THEN /\ call' = Idle
              /\ UNCHANGED <<file, chain, bits, dirty, disk, hist, lastAcquired,
                             holders, usage, len>>
         ELSE /\ file' = s.file
              /\ IF s.ok /\ FreeBytes(b[file]) >= Least(call.left, PageSize)
                 THEN /\ chain' = s.chain
                      /\ bits' = b
                      /\ dirty' = dirty \cup NewInfo(s.chain)
                      /\ call' = c
                      /\ hist' = Learn(hist, file, FreeAfter(file, PageSize))
                      /\ UNCHANGED <<disk, lastAcquired, holders, usage, len>>
                 ELSE Stop(IF s.ok THEN Broken ELSE Hung) /\ UNCHANGED hist
  BY DEF ChunkByGrowth
<1>2. /\ Types /\ TypeOK /\ OwnersDisjoint /\ OwnedAreUsed /\ Lost /\ ChainFits
      /\ bits \in [PageIds -> SUBSET Blocks] /\ HistTyped(hist)
      /\ call \in RecordCalls /\ call \notin {Hung, Broken} /\ call.chunks # 0
      /\ file \in Nat /\ file <= MaxPages /\ MinPages <= file /\ MaxPages \in Nat
  <2>1. /\ Types /\ TypeOK /\ OwnersDisjoint /\ OwnedAreUsed /\ Lost /\ ChainFits
        /\ bits \in [PageIds -> SUBSET Blocks] /\ HistTyped(hist)
    BY DEF FileInv, Types, TypeOK, HistTyped
  <2>2. call \in RecordCalls /\ call \notin {Hung, Broken} /\ call.chunks # 0
    BY <1>1, <2>1, ModeFacts DEF Types
  <2>3. file \in MinPages .. MaxPages
    BY <2>1 DEF TypeOK
  <2> QED
    BY <2>1, <2>2, <2>3, SetFacts
<1>3. call.usage = NoUsage /\ call.left = call.len
  BY <1>1, <1>2 DEF FileInv, CallOK
<1>4. TakenMap = bits
  BY <1>2, <1>3 DEF TakenMap, Taken, NoUsage
<1>5. Valid(hist, bits, file)
  BY <1>4 DEF FileInv, WitnessTrue
<1>6. CASE file = MaxPages
  <2>1. call' = Idle /\ UNCHANGED <<file, chain, bits, dirty, disk, hist, lastAcquired,
                                    holders, usage, len>>
    BY <1>1, <1>6
  <2> QED
    BY <1>2, <1>3, <2>1, QuietCall
<1>7. CASE file # MaxPages
  <2>1. n \in {file, file + 1} /\ n <= MaxPages /\ n \in Nat /\ file \in PageIds /\ file < n
    BY <1>2, <1>7 DEF PageIds
  <2>2. bits[file] \in {{}, Blocks} /\ bits[file] \in SUBSET Blocks
    BY <1>2, <2>1 DEF Lost
  <2>3. file' = s.file
    BY <1>1, <1>7
  <2> HIDE DEF n
  <2>4. CASE ~(s.ok /\ FreeBytes(b[file]) >= Least(call.left, PageSize))
    <3>1. s.file \in file .. MaxPages
      <4>1. \/ s = [ok |-> TRUE, file |-> n, chain |-> chain]
            \/ s = [ok |-> TRUE, file |-> n + 1, chain |-> Append(chain, n)] /\ n \in PageIds
            \/ s = [ok |-> FALSE, file |-> n, chain |-> chain]
        BY <1>2, <2>1, SettledCases
      <4>2. s.file = n \/ (s.file = n + 1 /\ n \in PageIds)
        BY <4>1
      <4> HIDE DEF s
      <4> QED
        BY <1>2, <2>1, <4>2, LayoutAssumption DEF PageIds
    <3>2. /\ file' = s.file /\ call' \in {Hung, Broken} /\ hist' = hist
          /\ UNCHANGED <<chain, bits, dirty, disk, lastAcquired, holders, usage, len>>
      BY <1>1, <1>7, <2>3, <2>4 DEF Stop
    <3> HIDE DEF s
    <3>3. Valid(hist', bits, s.file)
      <4>1. s.file \in Nat /\ file <= s.file
        BY <1>2, <3>1
      <4> QED
        BY <1>2, <1>5, <3>2, <4>1, ValidSame
    <3> QED
      BY <1>2, <3>1, <3>2, <3>3, StopInv
  <2>5. CASE s.ok /\ FreeBytes(b[file]) >= Least(call.left, PageSize)
    (* The new page is not the page the chain may have gained. *)
    <3>1. /\ file \notin System \cup ChainPages /\ holders[file] = 0
          /\ \A r \in Records : usage[r][file] = {}
      BY <1>2, <2>1, EmptyUnowned
    <3>2. \/ s.chain = chain
          \/ s.chain = Append(chain, n)
      BY <1>2, <2>1, <2>5, SettledCases
    <3>3. \A p \in PageIds : b[p] = IF \E k \in DOMAIN s.chain : s.chain[k] = p
                                    THEN Blocks ELSE bits[p]
      BY DEF WithInfo
    <3>4. b[file] = bits[file]
      <4>1. ~ \E k \in DOMAIN s.chain : s.chain[k] = file
        <5>1. CASE s.chain = chain
          BY <3>1, <5>1 DEF ChainPages
        <5>2. CASE s.chain = Append(chain, n)
          <6>1. \A k \in DOMAIN chain : chain[k] # file
            BY <3>1 DEF ChainPages
          <6>2. chain \in Seq(PageIds) /\ n # file
            BY <1>2, <2>1 DEF TypeOK
          <6>3. \A k \in DOMAIN Append(chain, n) :
                  Append(chain, n)[k] = IF k = Len(chain) + 1 THEN n ELSE chain[k]
            BY <6>2
          <6>4. \A k \in DOMAIN Append(chain, n) :
                  k = Len(chain) + 1 \/ k \in DOMAIN chain
            BY <6>2
          <6> QED
            BY <5>2, <6>1, <6>2, <6>3, <6>4
        <5> QED
          BY <3>2, <5>1, <5>2
      <4> QED
        BY <2>1, <3>3, <4>1
    <3>5. bits[file] = {} /\ FreeBytes(bits[file]) = PageSize /\ PageSize # 0
      <4>1. call.len \in Lengths
        BY <1>2 DEF RecordCalls
      <4>2. call.left \in Nat \ {0} /\ PageSize \in Nat \ {0}
        BY <1>3, <4>1, LengthsAssumption, SizesAssumption
      <4>3. Least(call.left, PageSize) > 0
        BY <4>2 DEF Least
      <4>4. FreeBytes(bits[file]) # 0
        BY <2>5, <3>4, <4>2, <4>3 DEF Least
      <4>5. bits[file] # Blocks
        BY <4>4, FreeBytesFacts, <2>2
      <4> QED
        BY <2>2, <4>2, <4>5, FreeBytesFacts
    <3>6. /\ chain' = s.chain /\ bits' = b /\ dirty' = dirty \cup NewInfo(s.chain)
          /\ call' = c /\ hist' = Learn(hist, file, FreeAfter(file, PageSize))
          /\ UNCHANGED <<disk, lastAcquired, holders, usage, len>>
      BY <1>1, <1>7, <2>5
    <3>7. /\ c \in RecordCalls /\ c.chunks = 0
          /\ \A p \in PageIds : p # file => c.usage[p] = {}
          /\ FreeAfter(file, PageSize) = FreeBytes(bits[file] \cup c.usage[file])
      BY <1>1, <2>1, <3>5, NextChunkFacts
    <3>8. c.usage \in [PageIds -> SUBSET Blocks] /\ c.mode = "record"
      <4> HIDE DEF c
      <4> QED
        BY <3>7 DEF RecordCalls
    <3>9. /\ ChainFits' /\ file' <= MaxPages /\ n <= file'
          /\ chain' \in Seq(PageIds) /\ Len(chain) <= Len(chain')
          /\ Len(chain) \in Nat /\ Len(chain') \in Nat
          /\ \/ ChainPages' = ChainPages
             \/ ChainPages' = ChainPages \cup {n} /\ n < file' /\ n \in PageIds
      BY <1>2, <2>1, <2>3, <2>5, <3>6, ChainGrows
    <3>10. file' \in Nat /\ file < file'
      <4>1. s.file = n \/ s.file = n + 1
        BY <1>2, <2>1, <2>5, SettledCases
      <4> QED
        BY <1>2, <2>1, <2>3, <4>1
    <3>11. n \in PageIds => /\ n \notin System \cup ChainPages /\ holders[n] = 0
                            /\ \A r \in Records : usage[r][n] = {}
      BY <1>2, <2>1, EmptyUnowned
    <3>12. \A p \in PageIds : bits'[p] = IF p \in ChainPages' THEN Blocks ELSE bits[p]
      <4>1. \A p : p \in ChainPages' <=> \E k \in DOMAIN s.chain : s.chain[k] = p
        BY <3>6 DEF ChainPages
      <4> QED
        BY <3>3, <3>6, <4>1
    <3>13. bits' \in [PageIds -> SUBSET Blocks]
      <4>1. DOMAIN b = PageIds /\ b = [p \in PageIds |-> b[p]]
        BY DEF WithInfo
      <4>2. \A p \in PageIds : b[p] \in SUBSET Blocks
        BY <1>2, <3>3
      <4> HIDE DEF b
      <4> QED
        BY <3>6, <4>1, <4>2
    <3> HIDE DEF s, b, c
    <3>14. Types'
      <4>1. dirty' \subseteq 0 .. Len(chain') - 1
        <5>1. dirty \subseteq 0 .. Len(chain') - 1
          BY <1>2, <3>9 DEF TypeOK
        <5>2. NewInfo(s.chain) \subseteq 0 .. Len(chain') - 1
          BY <3>6, <3>9 DEF NewInfo
        <5> QED
          BY <3>6, <5>1, <5>2
      <4>2. file' \in MinPages .. MaxPages
        BY <1>2, <3>9, <3>10, SetFacts
      <4>3. HistTyped(hist')
        <5>1. FreeAfter(file, PageSize) \in 0 .. PageSize
          <6>1. bits[file] \cup c.usage[file] \in SUBSET Blocks
            BY <1>2, <2>1, <3>8
          <6> QED
            BY <3>7, <6>1, FreeBytesFacts
        <5> QED
          BY <1>2, <2>1, <3>6, <5>1, LearnFacts
      <4>4. /\ DOMAIN disk' = PageIds /\ lastAcquired' \in 0 .. MaxPages
            /\ holders' \in [PageIds -> Nat] /\ len' \in [Records -> Nat]
            /\ usage' \in [Records -> [PageIds -> SUBSET Blocks]]
        BY <1>2, <3>6 DEF TypeOK
      <4>5. call' \in RecordCalls /\ call'.mode = "record"
        BY <3>6, <3>7, <3>8
      <4> QED
        BY <3>9, <3>13, <4>1, <4>2, <4>3, <4>4, <4>5 DEF Types, TypeOK, HistTyped
    <3>15. OwnersDisjoint'
      <4>1. ASSUME NEW p \in PageIds
            PROVE  holders'[p] = 0 \/ (holders'[p] = 1 /\ p \notin System \cup ChainPages')
        BY <1>2, <3>6, <3>9, <3>11, OneHolder
      <4>2. ASSUME NEW r \in Records, NEW p \in PageIds, usage'[r][p] # {}
            PROVE  holders'[p] = 0 /\ p \notin System \cup ChainPages'
        BY <1>2, <3>6, <3>9, <3>11, <4>2 DEF OwnersDisjoint
      <4>3. \A r, q \in Records, p \in PageIds :
              r # q => usage'[r][p] \cap usage'[q][p] = {}
        BY <1>2, <3>6 DEF OwnersDisjoint
      <4> QED
        BY <4>1, <4>2, <4>3 DEF OwnersDisjoint
    <3>16. OwnedAreUsed'
      <4>1. ASSUME NEW p \in PageIds, p \in System \cup ChainPages' \/ holders'[p] > 0
            PROVE  p < file' /\ bits'[p] = Blocks
        <5>1. CASE p \in ChainPages' /\ p = n /\ n < file'
          BY <3>12, <5>1
        <5>2. CASE p \in System \cup ChainPages \/ holders[p] > 0
          <6>1. p < file /\ bits[p] = Blocks
            BY <1>2, <5>2 DEF OwnedAreUsed
          <6> QED
            BY <1>2, <3>10, <3>12, <6>1, SetFacts
        <5> QED
          BY <3>6, <3>9, <4>1, <5>1, <5>2
      <4>2. ASSUME NEW r \in Records, NEW p \in PageIds, usage'[r][p] # {}
            PROVE  p < file' /\ usage'[r][p] \subseteq bits'[p]
        <5>1. p < file /\ usage[r][p] \subseteq bits[p]
          BY <1>2, <3>6, <4>2 DEF OwnedAreUsed
        <5>2. usage[r][p] \in SUBSET Blocks /\ p \in Nat
          BY <1>2, SetFacts DEF TypeOK
        <5> QED
          BY <1>2, <3>6, <3>10, <3>12, <5>1, <5>2
      <4> QED
        BY <4>1, <4>2 DEF OwnedAreUsed
    <3>17. Lost'
      BY <1>2, <3>10, <3>12, SetFacts DEF Lost
    <3>18. WitnessTrue'
      <4> DEFINE u == [p \in PageIds |-> bits'[p] \cup c.usage[p]]
      <4>1. \A p \in PageIds : u[p] = bits'[p] \cup c.usage[p] /\ u[p] \in SUBSET Blocks
        BY <3>8, <3>13
      <4>2. u \in [PageIds -> SUBSET Blocks]
        BY <4>1
      <4>3. TakenMap' = u
        BY <3>6, <3>8 DEF TakenMap, Taken, InRecord
      <4> HIDE DEF u
      <4>4. \A p \in 0 .. file - 1 : u[p] = bits[p]
        <5>1. ASSUME NEW p \in 0 .. file - 1 PROVE u[p] = bits[p]
          <6>1. p \in PageIds /\ p # file /\ p # n
            BY <1>2, <2>1 DEF PageIds
          <6>2. p \in ChainPages => bits[p] = Blocks
            BY <1>2, <6>1 DEF OwnedAreUsed
          <6> QED
            BY <3>7, <3>9, <3>12, <4>1, <6>1, <6>2
        <5> QED
          BY <5>1
      <4>5. u[file] = bits[file] \cup c.usage[file]
        BY <2>1, <3>4, <3>6, <4>1
      <4>6. file' \in 0 .. MaxPages
        BY <1>2, <3>9, <3>10
      <4>7. LET g == Learn(hist, file, FreeBytes(u[file])) IN
            HistTyped(g) /\ Valid(g, u, file')
        BY <1>2, <1>5, <3>10, <4>2, <4>4, <4>6, LearnValid
      <4>8. hist' = Learn(hist, file, FreeBytes(u[file]))
        BY <3>6, <3>7, <4>5
      <4> QED
        BY <4>3, <4>7, <4>8 DEF WitnessTrue
    <3>19. CallOK'
      <4>1. c.usage[file] \cap bits'[file] = {}
        <5>1. c.usage[file] \cap bits[file] = {}
          BY <3>5
        <5> QED
          BY <3>4, <3>6, <5>1
      <4>2. \A p \in PageIds : /\ c.usage[p] \cap bits'[p] = {}
                               /\ c.usage[p] # {} => p < file'
        BY <3>7, <3>10, <4>1
      <4> QED
        BY <3>6, <3>7, <4>2 DEF CallOK
    <3> QED
      BY <3>9, <3>14, <3>15, <3>16, <3>17, <3>18, <3>19 DEF FileInv
  <2> QED
    BY <2>4, <2>5
<1> QED
  BY <1>6, <1>7

(* A step that touches nothing but the copy on disk. *)
LEMMA WriteInv ==
  ASSUME FileInv, dirty' \subseteq dirty, DOMAIN disk' = DOMAIN disk,
         UNCHANGED <<file, chain, bits, hist, lastAcquired, call, holders, usage, len>>
  PROVE  FileInv'
<1>1. Types'
  BY DEF FileInv, Types, TypeOK
<1>2. OwnersDisjoint' /\ OwnedAreUsed' /\ Lost' /\ ChainFits'
  BY DEF FileInv, OwnersDisjoint, OwnedAreUsed, Lost, ChainFits, ChainPages, Cover
<1>3. CallOK'
  BY DEF FileInv, CallOK, InRecord
<1>4. TakenMap' = TakenMap
  BY DEF TakenMap, Taken, InRecord
<1>5. WitnessTrue'
  BY <1>4 DEF FileInv, WitnessTrue
<1> QED
  BY <1>1, <1>2, <1>3, <1>5 DEF FileInv

LEMMA NextInv == FileInv /\ SinglePage /\ [Next]_vars => FileInv'
<1> SUFFICES ASSUME FileInv, SinglePage, [Next]_vars PROVE FileInv'
  OBVIOUS
<1>1. CASE AcquirePage
  BY <1>1, AcquirePageInv
<1>2. CASE \E p \in PageIds : ReleasePage(p)
  BY <1>2, ReleasePageInv
<1>3. ASSUME NEW r \in Records, NEW l \in Lengths, StartRecord(r, l)
      PROVE  FileInv'
  BY <1>3, ModeFacts, QuietCall DEF StartRecord
<1>4. CASE ChunkByWitness \/ ChunkByScan \/ ChunkByGrowth
  BY <1>4, ChunkByWitnessInv, ChunkByScanInv, ChunkByGrowthInv
<1>5. CASE FinishRecord
  BY <1>5, FinishRecordInv
<1>6. ASSUME NEW r \in Records, ReleaseRecord(r)
      PROVE  FileInv'
  <2>1. call' = Idle
    BY <1>6 DEF ReleaseRecord, DropRecord
  <2> QED
    BY <1>6, <2>1, DropRecordInv DEF ReleaseRecord
<1>7. ASSUME NEW r \in Records, NEW l \in Lengths, ReacquireRecord(r, l)
      PROVE  FileInv'
  BY <1>7, DropRecordInv DEF ReacquireRecord
<1>8. CASE Commit
  <2>1. DOMAIN disk' = PageIds /\ DOMAIN disk = PageIds
    BY <1>8 DEF Commit, Written, FileInv, Types, TypeOK
  <2> QED
    BY <1>8, <2>1, WriteInv DEF Commit
<1>9. CASE UNCHANGED vars
  BY <1>9, WriteInv DEF vars
<1> QED
  BY <1>1, <1>2, <1>3, <1>4, <1>5, <1>6, <1>7, <1>8, <1>9 DEF Next

-----------------------------------------------------------------------------
(* What is special of a session that createStructure has started.            *)

LEMMA InitTight == Init => Fresh /\ Tight
<1> SUFFICES ASSUME Init PROVE Fresh /\ Tight
  OBVIOUS
<1>1. Fresh
  BY SetFacts DEF Init, Fresh, System, PageIds
<1>2. Len(chain) = 1 /\ file = MinPages
  BY DEF Init
<1>3. Cover(chain) = PerPage
  BY <1>2, SetFacts DEF Cover
<1> QED
  BY <1>1, <1>2, <1>3, LayoutAssumption DEF Tight

(* A step that changes neither the file nor the chain. *)
LEMMA QuietTight ==
  ASSUME Fresh, Tight, call = Hung => call' = Hung,
         \A p \in PageIds : p >= file => bits'[p] = bits[p],
         UNCHANGED <<file, chain>>
  PROVE  Fresh' /\ Tight'
BY DEF Fresh, Tight, Cover

(* A step that lets the file grow to n pages, and adds what info page they
   need. *)
LEMMA GrowTight ==
  ASSUME IInv, call \notin {Hung, Broken}, NEW n \in {file, file + 1}, n <= MaxPages,
         file' = Settled(n).file,
         \/ ~Settled(n).ok /\ call' = Hung /\ bits' = bits
         \/ /\ Settled(n).ok /\ chain' = Settled(n).chain
            /\ \A p \in PageIds :
                 p >= n => bits'[p] = IF p \in ChainPages' THEN Blocks ELSE bits[p]
  PROVE  Fresh' /\ Tight'
<1>1. /\ Types /\ TypeOK /\ OwnersDisjoint /\ OwnedAreUsed /\ ChainFits
      /\ Fresh /\ file \in Nat /\ n \in Nat /\ file <= n
  <2>1. /\ Types /\ TypeOK /\ OwnersDisjoint /\ OwnedAreUsed /\ ChainFits
        /\ Fresh /\ file \in MinPages .. MaxPages
    BY DEF IInv, FileInv, Types, TypeOK
  <2>2. file \in Nat
    BY <2>1, SetFacts
  <2> QED
    BY <2>1, <2>2
<1>2. CASE ~Settled(n).ok /\ call' = Hung /\ bits' = bits
  <2>1. Settled(n).file = n
    BY <1>1, <1>2, SettledCases
  <2> QED
    BY <1>1, <1>2, <2>1, SetFacts DEF Fresh, Tight
<1>3. CASE /\ Settled(n).ok /\ chain' = Settled(n).chain
           /\ \A p \in PageIds :
                p >= n => bits'[p] = IF p \in ChainPages' THEN Blocks ELSE bits[p]
  <2>1. /\ n <= file' /\ file' \in Nat /\ file' < Cover(chain')
        /\ \/ ChainPages' = ChainPages
           \/ ChainPages' = ChainPages \cup {n} /\ n < file' /\ n \in PageIds
    <3>1. Settled(n).file \in {n, n + 1}
      BY <1>1, SettledCases
    <3> QED
      BY <1>1, <1>3, <3>1, ChainGrows
  <2>2. ASSUME NEW p \in PageIds, p >= file' PROVE bits'[p] = {}
    <3>2. p \in Nat /\ p >= file /\ p >= n
      BY <1>1, <2>1, <2>2, SetFacts
    <3>3. p \notin ChainPages
      BY <1>1, <3>2, EmptyUnowned
    <3>4. bits[p] = {}
      BY <1>1, <3>2 DEF Fresh
    <3>5. p \notin ChainPages'
      BY <2>1, <2>2, <3>2, <3>3
    <3> QED
      BY <1>3, <3>2, <3>4, <3>5
  <2> QED
    BY <2>1, <2>2 DEF Fresh, Tight
<1> QED
  BY <1>2, <1>3

LEMMA GivePageTight ==
  ASSUME IInv, call = Idle, NEW n \in {file, file + 1}, n <= MaxPages,
         NEW id \in 0 .. n - 1, NEW h, GivePage(id, n, h)
  PROVE  Fresh' /\ Tight'
<1>1. call \notin {Hung, Broken} /\ file' = Settled(n).file
  BY ModeFacts DEF GivePage
<1>2. n \in Nat /\ bits \in [PageIds -> SUBSET Blocks]
  BY SetFacts DEF IInv, FileInv, Types, TypeOK
<1>3. CASE ~Settled(n).ok
  BY <1>1, <1>3, GrowTight DEF GivePage, Stop
<1>4. CASE Settled(n).ok
  <2> DEFINE s == Settled(n)
  <2>1. /\ chain' = s.chain
        /\ bits' = [WithInfo(bits, s.chain) EXCEPT ![id] = Blocks]
    BY <1>4 DEF GivePage
  <2>2. \A p : p \in ChainPages' <=> \E k \in DOMAIN s.chain : s.chain[k] = p
    BY <2>1 DEF ChainPages
  <2>3. ASSUME NEW p \in PageIds, p >= n
        PROVE  bits'[p] = IF p \in ChainPages' THEN Blocks ELSE bits[p]
    <3>1. p # id
      BY <1>2, <2>3, SetFacts
    <3>2. bits'[p] = WithInfo(bits, s.chain)[p]
      BY <2>1, <3>1 DEF WithInfo
    <3> QED
      BY <2>2, <3>2 DEF WithInfo
  <2> HIDE DEF s
  <2> QED
    BY <1>1, <1>4, <2>1, <2>3, GrowTight DEF s
<1> QED
  BY <1>3, <1>4

LEMMA AcquirePageTight ==
  ASSUME IInv, AcquirePage PROVE Fresh' /\ Tight'
<1>1. /\ call = Idle /\ Fresh /\ Tight /\ FileInv
      /\ file \in Nat \ {0} /\ file <= MaxPages /\ MaxPages \in Nat /\ lastAcquired \in Nat
  BY SetFacts DEF AcquirePage, PageByWitness, PageByScan, PageByGrowth, IInv, FileInv,
                  Types, TypeOK
<1>2. CASE PageByWitness
  <2> DEFINE id == GetWitness(PageSize)
  <2>1. id \in 0 .. file - 1
    BY <1>1, <1>2, WholePageWitness DEF PageByWitness
  <2>2. PICK h : GivePage(id, file, h)
    BY <1>2 DEF PageByWitness
  <2> HIDE DEF id
  <2> QED
    BY <1>1, <2>1, <2>2, GivePageTight
<1>3. CASE PageByScan
  <2>1. CASE EmptyPages(file) = {}
    BY <1>1, <1>3, <2>1, ModeFacts, QuietTight DEF PageByScan, Stop
  <2>2. CASE EmptyPages(file) # {}
    <3> DEFINE id == NextFrom(EmptyPages(file), file)
    <3>1. PICK h : GivePage(id, file, h)
      BY <1>3, <2>2 DEF PageByScan
    <3>2. EmptyPages(file) \in SUBSET Nat /\ EmptyPages(file) \subseteq 0 .. file - 1
      BY <1>1 DEF EmptyPages
    <3>3. id \in 0 .. file - 1
      BY <1>1, <2>2, <3>2, NextFromIn
    <3> HIDE DEF id
    <3> QED
      BY <1>1, <3>1, <3>3, GivePageTight
  <2> QED
    BY <2>1, <2>2
<1>4. CASE PageByGrowth
  <2>1. file < MaxPages /\ GivePage(file, file + 1, hist)
    BY <1>4 DEF PageByGrowth
  <2>2. file + 1 \in {file, file + 1} /\ file + 1 <= MaxPages /\ file \in 0 .. (file + 1) - 1
    BY <1>1, <2>1
  <2> QED
    BY <1>1, <2>1, <2>2, GivePageTight
<1> QED
  BY <1>2, <1>3, <1>4 DEF AcquirePage

(* The cut of the empty tail, after blocks of the file have been cleared. *)
LEMMA CutTight ==
  ASSUME IInv, call = Idle, call' # Hung, NEW b \in [PageIds -> SUBSET Blocks],
         \A p \in PageIds : p >= file => b[p] = bits[p],
         bits' = b, chain' = chain, file' = file - Cardinality(EmptyTail(b, file))
  PROVE  Fresh' /\ Tight'
<1> DEFINE tail == EmptyTail(b, file)
<1>1. /\ Fresh /\ Tight /\ TypeOK /\ call # Hung
      /\ file \in 0 .. MaxPages /\ file \in Nat /\ Len(chain) \in Nat
  BY ModeFacts, SetFacts DEF IInv, FileInv, Types, TypeOK
<1>2. /\ Cardinality(tail) \in 0 .. file
      /\ \A p \in 0 .. file - 1 : p \in tail <=> p >= file - Cardinality(tail)
      /\ \A p \in tail : b[p] = {}
  BY <1>1, TailFacts
<1>3. file' = file - Cardinality(tail)
  OBVIOUS
<1> HIDE DEF tail
<1>4. ASSUME NEW p \in PageIds, p >= file' PROVE b[p] = {}
  <2>1. p \in Nat
    BY SetFacts
  <2>2. CASE p < file
    BY <1>1, <1>2, <1>3, <1>4, <2>1, <2>2
  <2>3. CASE p >= file
    BY <1>1, <2>3 DEF Fresh
  <2> QED
    BY <1>1, <2>1, <2>2, <2>3
<1>5. file' < Cover(chain')
  <2>1. Cover(chain) \in Nat /\ file < Cover(chain) /\ Cover(chain') = Cover(chain)
    BY <1>1, SetFacts DEF Tight, Cover
  <2> QED
    BY <1>1, <1>2, <1>3, <2>1
<1> QED
  BY <1>4, <1>5 DEF Fresh, Tight

LEMMA DropRecordTight ==
  ASSUME IInv, NEW r \in Records, DropRecord(r), chain' = chain, call' # Hung
  PROVE  Fresh' /\ Tight'
<1> DEFINE b == [p \in PageIds |-> bits[p] \ usage[r][p]]
<1>1. /\ call = Idle /\ bits' = b /\ file' = file - Cardinality(EmptyTail(b, file))
      /\ b \in [PageIds -> SUBSET Blocks]
  BY DEF DropRecord, IInv, FileInv, Types, TypeOK
<1>2. \A p \in PageIds : p >= file => b[p] = bits[p]
  <2>1. \A p \in PageIds : p >= file => usage[r][p] = {}
    BY EmptyUnowned DEF IInv, FileInv
  <2> QED
    BY <2>1
<1> HIDE DEF b
<1> QED
  BY <1>1, <1>2, CutTight

LEMMA ReleasePageTight ==
  ASSUME IInv, NEW id \in PageIds, ReleasePage(id)
  PROVE  Fresh' /\ Tight'
<1> DEFINE b == [bits EXCEPT ![id] = {}]
<1>1. /\ call = Idle /\ call' = call /\ holders[id] > 0
      /\ bits' = b /\ file' = file - Cardinality(EmptyTail(b, file)) /\ chain' = chain
      /\ b \in [PageIds -> SUBSET Blocks] /\ bits \in [PageIds -> SUBSET Blocks]
  BY DEF ReleasePage, IInv, FileInv, Types, TypeOK
<1>2. id < file
  BY <1>1 DEF IInv, FileInv, OwnedAreUsed
<1>3. \A p \in PageIds : p >= file => b[p] = bits[p]
  <2>1. file \in Nat
    BY SetFacts DEF IInv, FileInv, Types, TypeOK
  <2> QED
    BY <1>1, <1>2, <2>1, SetFacts
<1>4. call' # Hung
  BY <1>1, ModeFacts
<1> HIDE DEF b
<1> QED
  BY <1>1, <1>3, <1>4, CutTight

(* In such a session a page added to the file has no bit set. *)
LEMMA NewPageEmpty ==
  ASSUME IInv, file # MaxPages PROVE bits[file] = {}
<1>1. file \in MinPages .. MaxPages
  BY DEF IInv, FileInv, Types, TypeOK
<1>2. file \in PageIds /\ file >= file
  BY <1>1, SetFacts DEF PageIds
<1> QED
  BY <1>2 DEF IInv, Fresh

(* If the page acquireRecord adds is empty, the call is not broken off. *)
LEMMA GrowthRoom ==
  ASSUME FileInv, ChunkByGrowth, file # MaxPages, bits[file] = {}, Settled(file + 1).ok
  PROVE  FreeBytes(WithInfo(bits, Settled(file + 1).chain)[file]) >= Least(call.left, PageSize)
<1> DEFINE n == file + 1
           s == Settled(n)
           b == WithInfo(bits, s.chain)
<1>1. /\ Types /\ TypeOK /\ OwnersDisjoint /\ OwnedAreUsed /\ ChainFits
      /\ call \notin {Hung, Broken} /\ call \in RecordCalls
      /\ file \in Nat /\ file <= MaxPages /\ MaxPages \in Nat
  <2>1. /\ Types /\ TypeOK /\ OwnersDisjoint /\ OwnedAreUsed /\ ChainFits
        /\ file \in MinPages .. MaxPages
    BY DEF FileInv, Types, TypeOK
  <2>2. InRecord
    BY DEF ChunkByGrowth
  <2>3. call \notin {Hung, Broken} /\ call \in RecordCalls
    BY <2>1, <2>2, ModeFacts DEF Types
  <2> QED
    BY <2>1, <2>3, SetFacts
<1>2. n \in {file, file + 1} /\ n <= MaxPages /\ n # file /\ file \in PageIds
  BY <1>1 DEF PageIds
<1> HIDE DEF n
<1>3. bits[file] = {} /\ file \notin ChainPages
  BY <1>1, <1>2, EmptyUnowned
<1>4. s.ok
  BY DEF n
<1>5. ~ \E k \in DOMAIN s.chain : s.chain[k] = file
  <2>1. s.chain = chain \/ s.chain = Append(chain, n)
    BY <1>1, <1>2, <1>4, SettledCases
  <2>2. \A k \in DOMAIN chain : chain[k] # file
    BY <1>3 DEF ChainPages
  <2>3. chain \in Seq(PageIds)
    BY <1>1 DEF TypeOK
  <2>4. \A k \in DOMAIN Append(chain, n) :
          \/ k \in DOMAIN chain /\ Append(chain, n)[k] = chain[k]
          \/ Append(chain, n)[k] = n
    BY <2>3
  <2> QED
    BY <1>2, <2>1, <2>2, <2>4
<1>6. FreeBytes(b[file]) = PageSize
  <2>1. b[file] = {} /\ {} \in SUBSET Blocks
    BY <1>2, <1>3, <1>5 DEF WithInfo
  <2> QED
    BY <2>1, FreeBytesFacts
<1>7. PageSize >= Least(call.left, PageSize)
  <2>1. call.left \in Int /\ PageSize \in Nat
    BY <1>1, SizesAssumption DEF RecordCalls
  <2> QED
    BY <2>1 DEF Least
<1> QED
  BY <1>6, <1>7 DEF n

LEMMA ChunkByGrowthTight ==
  ASSUME IInv, ChunkByGrowth PROVE Fresh' /\ Tight'
<1> DEFINE n == file + 1
           s == Settled(n)
           b == WithInfo(bits, s.chain)
<1>1. /\ Types /\ TypeOK /\ OwnersDisjoint /\ OwnedAreUsed /\ Fresh /\ Tight /\ ChainFits
      /\ call \notin {Hung, Broken} /\ InRecord /\ call.chunks # 0
      /\ call \in RecordCalls
      /\ file \in Nat /\ file <= MaxPages /\ MaxPages \in Nat
      /\ bits \in [PageIds -> SUBSET Blocks]
  <2>1. /\ Types /\ TypeOK /\ OwnersDisjoint /\ OwnedAreUsed /\ Fresh /\ Tight /\ ChainFits
        /\ file \in MinPages .. MaxPages /\ bits \in [PageIds -> SUBSET Blocks]
    BY DEF IInv, FileInv, Types, TypeOK
  <2>2. InRecord /\ call.chunks # 0
    BY DEF ChunkByGrowth
  <2>3. call \notin {Hung, Broken} /\ call \in RecordCalls
    BY <2>1, <2>2, ModeFacts DEF Types
  <2> QED
    BY <2>1, <2>2, <2>3, SetFacts
<1>2. CASE file = MaxPages
  BY <1>1, <1>2, ModeFacts, QuietTight DEF ChunkByGrowth
<1>3. CASE file # MaxPages
  <2>1. n \in {file, file + 1} /\ n <= MaxPages /\ n \in Nat /\ file < n /\ file \in PageIds
    BY <1>1, <1>3 DEF PageIds
  <2>2. \A p \in PageIds : b[p] = IF \E k \in DOMAIN s.chain : s.chain[k] = p
                                  THEN Blocks ELSE bits[p]
    BY DEF WithInfo
  <2>3. file' = s.file
    BY <1>3 DEF ChunkByGrowth
  <2> HIDE DEF n
  <2>4. CASE ~s.ok
    BY <1>1, <1>3, <2>1, <2>3, <2>4, GrowTight DEF ChunkByGrowth, Stop, n
  <2>5. CASE s.ok
    <3>1. FreeBytes(b[file]) >= Least(call.left, PageSize)
      BY <1>3, <2>5, NewPageEmpty, GrowthRoom DEF n, IInv
    <3>2. chain' = s.chain /\ bits' = b
      BY <1>3, <2>5, <3>1 DEF ChunkByGrowth, n
    <3>3. \A p : p \in ChainPages' <=> \E k \in DOMAIN s.chain : s.chain[k] = p
      BY <3>2 DEF ChainPages
    <3>4. \A p \in PageIds : p >= n => bits'[p] = IF p \in ChainPages' THEN Blocks ELSE bits[p]
      BY <2>2, <3>2, <3>3
    <3> HIDE DEF b, s
    <3> QED
      BY <1>1, <2>1, <2>3, <2>5, <3>2, <3>4, GrowTight DEF s
  <2> QED
    BY <2>4, <2>5
<1> QED
  BY <1>2, <1>3

LEMMA NextTight == IInv /\ [Next]_vars => Fresh' /\ Tight'
<1> SUFFICES ASSUME IInv, [Next]_vars PROVE Fresh' /\ Tight'
  OBVIOUS
<1>0. /\ Fresh /\ Tight /\ FileInv /\ file \in Nat /\ Idle # Hung
      /\ (InRecord => call # Hung)
  BY ModeFacts, SetFacts DEF IInv, FileInv, Types, TypeOK
<1>1. CASE AcquirePage
  BY <1>1, AcquirePageTight
<1>2. CASE \E p \in PageIds : ReleasePage(p)
  BY <1>2, ReleasePageTight
<1>3. ASSUME NEW r \in Records, NEW l \in Lengths, StartRecord(r, l)
      PROVE  Fresh' /\ Tight'
  BY <1>0, <1>3, QuietTight DEF StartRecord
<1>4. CASE ChunkByWitness
  BY <1>0, <1>4, QuietTight DEF ChunkByWitness
<1>5. CASE ChunkByScan
  BY <1>0, <1>5, QuietTight DEF ChunkByScan
<1>6. CASE ChunkByGrowth
  BY <1>6, ChunkByGrowthTight
<1>7. CASE FinishRecord
  <2>1. \A p \in PageIds : call.usage[p] # {} => p < file
    BY <1>0, <1>7 DEF FinishRecord, FileInv, CallOK
  <2>2. ASSUME NEW p \in PageIds, p >= file PROVE bits'[p] = bits[p]
    <3>1. call.usage[p] = {}
      BY <1>0, <2>1, <2>2, SetFacts
    <3>2. bits'[p] = bits[p] \cup call.usage[p]
      BY <1>7 DEF FinishRecord
    <3> QED
      BY <3>1, <3>2
  <2>3. UNCHANGED <<file, chain>> /\ call # Hung
    BY <1>0, <1>7 DEF FinishRecord
  <2> QED
    BY <1>0, <2>2, <2>3, QuietTight
<1>8. ASSUME NEW r \in Records, ReleaseRecord(r)
      PROVE  Fresh' /\ Tight'
  <2>1. DropRecord(r) /\ chain' = chain /\ call' # Hung
    BY <1>0, <1>8 DEF ReleaseRecord, DropRecord
  <2> QED
    BY <2>1, DropRecordTight
<1>9. ASSUME NEW r \in Records, NEW l \in Lengths, ReacquireRecord(r, l)
      PROVE  Fresh' /\ Tight'
  <2>1. DropRecord(r) /\ chain' = chain
    BY <1>9 DEF ReacquireRecord
  <2>2. call' # Hung
    BY <1>9 DEF ReacquireRecord, Begin, Hung
  <2> QED
    BY <2>1, <2>2, DropRecordTight
<1>10. CASE Commit
  BY <1>0, <1>10, QuietTight DEF Commit
<1>11. CASE UNCHANGED vars
  BY <1>0, <1>11, QuietTight DEF vars
<1> QED
  BY <1>1, <1>2, <1>3, <1>4, <1>5, <1>6, <1>7, <1>8, <1>9, <1>10, <1>11 DEF Next

-----------------------------------------------------------------------------
(* The theorems.  Their hypothesis is that no record is longer than a page:  *)
(* for longer ones OwnersDisjoint and the histogram still rest on the scan,  *)
(* which HybridChunks.cfg shows to read stale bitmaps.                       *)

(* IInv is an invariant of a session in which every record fits in a page,
   for page sizes, layouts and storages of any size. *)
THEOREM Invariance == ASSUME SinglePage PROVE Spec => []IInv
<1>1. Init => IInv
  BY InitInv, InitTight DEF IInv
<1>2. IInv /\ [Next]_vars => IInv'
  BY NextInv, NextTight DEF IInv
<1> QED
  BY <1>1, <1>2, PTL DEF Spec

(* Every variable of the policy keeps its type; among them, dirty names info
   pages that exist and no witness lies outside the page ids. *)
THEOREM TypeCorrect == ASSUME SinglePage PROVE Spec => []TypeOK
<1>1. IInv => TypeOK
  BY DEF IInv, FileInv, Types
<1> QED
  BY <1>1, Invariance, PTL

(* acquirePage and acquireRecord never give out a block that a system page, an
   info page, a page's holder or another record has. *)
THEOREM Disjointness == ASSUME SinglePage PROVE Spec => []OwnersDisjoint
<1>1. IInv => OwnersDisjoint
  BY DEF IInv, FileInv
<1> QED
  BY <1>1, Invariance, PTL

(* removeEmptyPages never cuts off, and no search offers, a block that somebody
   has: it lies in the file and its bit is set. *)
THEOREM Marked == ASSUME SinglePage PROVE Spec => []OwnedAreUsed
<1>1. IInv => OwnedAreUsed
  BY DEF IInv, FileInv
<1> QED
  BY <1>1, Invariance, PTL

(* freeSpaceInfoUpdate never has an info page to remove: the chain describes
   the whole file, and its last page lies in the part it describes. *)
THEOREM ChainMeetsFile == ASSUME SinglePage PROVE Spec => []InfoPagesFit
<1>1. IInv => InfoPagesFit
  <2> SUFFICES ASSUME IInv, call.mode # "hung"
               PROVE  Cover(chain) - PerPage < file /\ file < Cover(chain)
    BY DEF InfoPagesFit
  <2>1. /\ TypeOK /\ chain \in Seq(PageIds) /\ chain # <<>> /\ file \in Nat
        /\ Cover(chain) - PerPage <= chain[Len(chain)]
    BY SetFacts DEF IInv, FileInv, Types, TypeOK, ChainFits
  <2>2. call # Hung
    BY DEF Hung
  <2>3. Len(chain) \in DOMAIN chain /\ Len(chain) \in Nat
    BY <2>1
  <2>4. chain[Len(chain)] \in ChainPages /\ chain[Len(chain)] \in PageIds
    BY <2>1, <2>3 DEF ChainPages
  <2>5. chain[Len(chain)] < file /\ chain[Len(chain)] \in Nat
    <3>1. OwnedAreUsed
      BY DEF IInv, FileInv
    <3> QED
      BY <2>4, <3>1, SetFacts DEF OwnedAreUsed
  <2>6. Cover(chain) \in Nat /\ PerPage \in Nat
    BY <2>3, SetFacts DEF Cover
  <2> QED
    BY <2>1, <2>2, <2>5, <2>6 DEF IInv, FileInv, Tight, ChainFits
<1> QED
  BY <1>1, Invariance, PTL

-----------------------------------------------------------------------------
(* Hybrid implements BlockAllocator.                                         *)

(* A record that is not live, or that acquireRecord is looking for, has no
   blocks. *)
RecordsClear ==
  /\ \A r \in Records : len[r] = 0 => usage[r] = NoUsage
  /\ InRecord => usage[call.rec] = NoUsage

LEMMA InitClear == Init => RecordsClear
<1>1. Init => ~InRecord
  BY ModeFacts DEF Init
<1> QED
  BY <1>1 DEF Init, RecordsClear

(* A step that leaves the records alone, and that goes on with the call in
   progress if it does not end it. *)
LEMMA ClearKept ==
  ASSUME RecordsClear, UNCHANGED <<usage, len>>,
         InRecord' => InRecord /\ call'.rec = call.rec
  PROVE  RecordsClear'
  BY DEF RecordsClear

LEMMA ModeFactsNext ==
  /\ call' = Idle => ~InRecord'
  /\ call' = Hung => ~InRecord'
  /\ call' = Broken => ~InRecord'
<1>1. Idle.mode = "idle" /\ Hung.mode = "hung" /\ Broken.mode = "broken"
  BY DEF Idle, Hung, Broken
<1> QED
  BY <1>1 DEF InRecord

LEMMA AcquirePageQuiet ==
  ASSUME AcquirePage
  PROVE  UNCHANGED <<usage, len>> /\ ~InRecord'
<1>1. ~InRecord
  BY ModeFacts DEF AcquirePage, PageByWitness, PageByScan, PageByGrowth
<1>2. ASSUME NEW id, NEW n, NEW h, GivePage(id, n, h)
      PROVE  UNCHANGED <<usage, len>> /\ (call' = call \/ call' = Hung)
  BY <1>2 DEF GivePage, Stop
<1>3. UNCHANGED <<usage, len>> /\ call' \in {call, Hung, Broken}
  BY <1>2 DEF AcquirePage, PageByWitness, PageByScan, PageByGrowth, Stop
<1>4. call' = call => ~InRecord'
  BY <1>1 DEF InRecord
<1> QED
  BY <1>3, <1>4, ModeFactsNext

LEMMA ChunkQuiet ==
  ASSUME ChunkByWitness \/ ChunkByScan \/ ChunkByGrowth, FileInv
  PROVE  /\ UNCHANGED <<usage, len, holders>>
         /\ InRecord' => InRecord /\ call'.rec = call.rec
<1>1. InRecord /\ UNCHANGED <<usage, len, holders>>
  BY DEF ChunkByWitness, ChunkByScan, ChunkByGrowth, Stop
<1>2. call \in RecordCalls
  BY <1>1, ModeFacts DEF FileInv, Types
<1>3. \A id, free : NextChunk(id, free).rec = call.rec
  BY <1>2 DEF NextChunk, RecordCalls
<1>4. [call EXCEPT !.chunks = @ - 1].rec = call.rec
  BY <1>2 DEF RecordCalls
<1>5. InRecord' => call'.rec = call.rec
  <2>1. CASE ChunkByWitness
    BY <2>1, <1>3 DEF ChunkByWitness
  <2>2. CASE ChunkByScan
    BY <2>2, <1>3, <1>4 DEF ChunkByScan
  <2>3. CASE ChunkByGrowth
    <3>1. \/ call' \in {Idle, Hung, Broken}
          \/ call' = NextChunk(file, PageSize)
      BY <2>3 DEF ChunkByGrowth, Stop
    <3> QED
      BY <3>1, <1>3, ModeFactsNext
  <2> QED
    BY <2>1, <2>2, <2>3
<1> QED
  BY <1>1, <1>5

LEMMA DropClear ==
  ASSUME FileInv, RecordsClear, NEW r \in Records, DropRecord(r),
         len' = [len EXCEPT ![r] = 0],
         InRecord' => call'.rec = r
  PROVE  RecordsClear'
<1>1. /\ usage' = [usage EXCEPT ![r] = NoUsage]
      /\ usage \in [Records -> [PageIds -> SUBSET Blocks]]
      /\ len \in [Records -> Nat]
  BY DEF DropRecord, FileInv, Types, TypeOK
<1>2. usage'[r] = NoUsage
  BY <1>1
<1>3. \A s \in Records : s # r => usage'[s] = usage[s] /\ len'[s] = len[s]
  BY <1>1
<1> QED
  BY <1>2, <1>3 DEF RecordsClear

LEMMA FinishClear ==
  ASSUME FileInv, RecordsClear, FinishRecord
  PROVE  RecordsClear'
<1>1. call \in RecordCalls
  BY ModeFacts DEF FinishRecord, FileInv, Types
<1>2. /\ usage \in [Records -> [PageIds -> SUBSET Blocks]] /\ len \in [Records -> Nat]
      /\ usage' = [usage EXCEPT ![call.rec] = call.usage]
      /\ len' = [len EXCEPT ![call.rec] = call.len]
      /\ call.rec \in Records /\ call.len # 0
      /\ ~InRecord'
  BY <1>1, ModeFactsNext, LengthsAssumption
  DEF FinishRecord, FileInv, Types, TypeOK, RecordCalls
<1>3. \A s \in Records : s # call.rec => usage'[s] = usage[s] /\ len'[s] = len[s]
  BY <1>2
<1>4. len'[call.rec] = call.len
  BY <1>2
<1> QED
  BY <1>2, <1>3, <1>4 DEF RecordsClear

LEMMA BeginRec ==
  ASSUME NEW r, NEW l, NEW n
  PROVE  Begin(r, l, n).rec = r
  BY DEF Begin

LEMMA NextClear == FileInv /\ RecordsClear /\ [Next]_vars => RecordsClear'
<1> SUFFICES ASSUME FileInv, RecordsClear, [Next]_vars PROVE RecordsClear'
  OBVIOUS
<1>1. CASE AcquirePage
  BY <1>1, AcquirePageQuiet, ClearKept
<1>2. ASSUME NEW p \in PageIds, ReleasePage(p) PROVE RecordsClear'
  <2>1. UNCHANGED <<usage, len, call>>
    BY <1>2 DEF ReleasePage
  <2> QED
    BY <2>1, ClearKept DEF InRecord
<1>3. ASSUME NEW r \in Records, NEW l \in Lengths, StartRecord(r, l)
      PROVE  RecordsClear'
  <2>1. UNCHANGED <<usage, len>> /\ len[r] = 0 /\ call'.rec = r
    BY <1>3, BeginRec DEF StartRecord
  <2> QED
    BY <2>1 DEF RecordsClear
<1>4. CASE ChunkByWitness \/ ChunkByScan \/ ChunkByGrowth
  BY <1>4, ChunkQuiet, ClearKept
<1>5. CASE FinishRecord
  BY <1>5, FinishClear
<1>6. ASSUME NEW r \in Records, ReleaseRecord(r) PROVE RecordsClear'
  <2>1. ~InRecord'
    BY <1>6, ModeFactsNext DEF ReleaseRecord, DropRecord
  <2> QED
    BY <1>6, <2>1, DropClear DEF ReleaseRecord
<1>7. ASSUME NEW r \in Records, NEW l \in Lengths, ReacquireRecord(r, l)
      PROVE  RecordsClear'
  BY <1>7, BeginRec, DropClear DEF ReacquireRecord
<1>8. CASE Commit
  <2>1. UNCHANGED <<usage, len, call>>
    BY <1>8 DEF Commit
  <2> QED
    BY <2>1, ClearKept DEF InRecord
<1>9. CASE UNCHANGED vars
  <2>1. UNCHANGED <<usage, len, call>>
    BY <1>9 DEF vars
  <2> QED
    BY <2>1, ClearKept DEF InRecord
<1> QED
  BY <1>1, <1>2, <1>3, <1>4, <1>5, <1>6, <1>7, <1>8, <1>9 DEF Next

-----------------------------------------------------------------------------
(* The steps of the allocator.                                               *)

LEMMA InitImplements == Init => Allocator!Init
<1> SUFFICES ASSUME Init PROVE Allocator!Init
  OBVIOUS
<1>1. ChainPages = {InfoPage}
  BY DEF Init, ChainPages
<1>2. \A p \in PageIds : ~(holders[p] > 0)
  BY DEF Init
<1>3. Held = System \cup {InfoPage}
  BY <1>1, <1>2, SetFacts DEF Held
<1> QED
  BY <1>3 DEF Init, Allocator!Init, Allocator!Nothing, NoUsage

(* A chain only grows at its end. *)
LEMMA ChainKept ==
  ASSUME FileInv, chain' = chain \/ \E n \in PageIds : chain' = Append(chain, n)
  PROVE  ChainPages \subseteq ChainPages'
<1>1. CASE chain' = chain
  BY <1>1 DEF ChainPages
<1>2. ASSUME NEW n \in PageIds, chain' = Append(chain, n)
      PROVE  ChainPages \subseteq ChainPages'
  <2>1. {Append(chain, n)[i] : i \in DOMAIN Append(chain, n)} = ChainPages \cup {n}
    BY ChainGrown DEF FileInv
  <2>2. ChainPages' = ChainPages \cup {n}
    BY <1>2, <2>1 DEF ChainPages
  <2> QED
    BY <2>2
<1> QED
  BY <1>1, <1>2

(* A step that takes no block from a record and no page from a holder takes
   pages for holders and the chain: whoever has them in the next state has
   them alone, so that they were free. *)
LEMMA TakesPages ==
  ASSUME FileInv', usage' = usage, Held \subseteq Held'
  PROVE  Allocator!TakePages(Held' \ Held)
<1>1. ASSUME NEW p \in Held' \ Held PROVE Allocator!Free(p) = Blocks
  <2>1. p \in PageIds /\ (p \in System \cup ChainPages' \/ holders'[p] > 0)
    BY DEF Held
  <2>2. holders'[p] > 0 => holders'[p] # 0
    BY <2>1 DEF FileInv, Types, TypeOK
  <2>3. \A r \in Records : usage'[r][p] = {}
    BY <2>1, <2>2 DEF FileInv, OwnersDisjoint
  <2>4. \A r \in Records, b \in Blocks : b \notin usage[r][p]
    BY <2>3
  <2> QED
    BY <2>4 DEF Allocator!Free
<1>2. Held' = Held \cup (Held' \ Held)
  OBVIOUS
<1> QED
  BY <1>1, <1>2 DEF Allocator!TakePages

LEMMA AcquirePageImplements ==
  ASSUME FileInv, FileInv', AcquirePage
  PROVE  Allocator!TakePages(Held' \ Held)
<1>1. /\ holders \in [PageIds -> Nat] /\ file \in Nat /\ file <= MaxPages
      /\ call = Idle
  <2>1. holders \in [PageIds -> Nat] /\ file \in MinPages .. MaxPages
    BY DEF FileInv, Types, TypeOK
  <2>2. call = Idle
    BY DEF AcquirePage, PageByWitness, PageByScan, PageByGrowth
  <2>3. file \in Nat /\ file <= MaxPages
    BY <2>1, SetFacts
  <2> QED
    BY <2>1, <2>2, <2>3
<1>2. ASSUME NEW id, NEW n \in {file, file + 1}, n <= MaxPages, NEW h,
             GivePage(id, n, h)
      PROVE  ChainPages \subseteq ChainPages' /\ \A p \in PageIds : holders'[p] >= holders[p]
  <2>1. \/ chain' = chain /\ holders' = holders
        \/ /\ chain' = Settled(n).chain
           /\ holders' = [holders EXCEPT ![id] = @ + 1]
    BY <1>2 DEF GivePage, Stop
  <2>2. Settled(n).chain = chain \/ \E m \in PageIds : Settled(n).chain = Append(chain, m)
    <3>1. Types /\ ChainFits /\ call \notin {Hung, Broken}
      BY <1>1, ModeFacts DEF FileInv
    <3> QED
      BY <1>2, <3>1, SettledCases
  <2>3. ChainPages \subseteq ChainPages'
    BY <2>1, <2>2, ChainKept
  <2>4. \A p \in PageIds : holders'[p] >= holders[p]
    BY <2>1, <1>1
  <2> QED
    BY <2>3, <2>4
<1>3. ChainPages \subseteq ChainPages' /\ \A p \in PageIds : holders'[p] >= holders[p]
  <2>1. CASE PageByWitness
    BY <1>1, <1>2, <2>1 DEF PageByWitness
  <2>2. CASE PageByScan
    <3>1. CASE EmptyPages(file) = {}
      BY <2>2, <3>1, <1>1 DEF PageByScan, Stop, ChainPages
    <3>2. CASE EmptyPages(file) # {}
      BY <2>2, <3>2, <1>1, <1>2 DEF PageByScan
    <3> QED
      BY <3>1, <3>2
  <2>3. CASE PageByGrowth
    <3>1. file + 1 <= MaxPages
      BY <2>3, <1>1, SetFacts DEF PageByGrowth
    <3> QED
      BY <1>2, <2>3, <3>1 DEF PageByGrowth
  <2> QED
    BY <2>1, <2>2, <2>3 DEF AcquirePage
<1>4. holders' \in [PageIds -> Nat]
  BY DEF FileInv, Types, TypeOK
<1>5. \A p \in PageIds : holders[p] > 0 => holders'[p] > 0
  BY <1>1, <1>3, <1>4
<1>6. Held \subseteq Held'
  BY <1>3, <1>5 DEF Held
<1> QED
  BY <1>6, AcquirePageQuiet, TakesPages

LEMMA ChunkImplements ==
  ASSUME FileInv, FileInv', ChunkByWitness \/ ChunkByScan \/ ChunkByGrowth
  PROVE  Allocator!TakePages(Held' \ Held)
<1>1. UNCHANGED <<usage, holders>>
  BY ChunkQuiet
<1>2. ChainPages \subseteq ChainPages'
  <2>1. CASE chain' = chain
    BY <2>1, ChainKept
  <2>2. CASE ChunkByGrowth /\ chain' # chain
    <3>1. file # MaxPages /\ chain' = Settled(file + 1).chain
      BY <2>2 DEF ChunkByGrowth, Stop
    <3>2. file \in Nat /\ file + 1 <= MaxPages
      <4>1. file \in MinPages .. MaxPages
        BY DEF FileInv, Types, TypeOK
      <4> QED
        BY <3>1, <4>1, SetFacts
    <3>3. ASSUME NEW n \in {file, file + 1}, n <= MaxPages
          PROVE  \/ Settled(n).chain = chain
                 \/ \E m \in PageIds : Settled(n).chain = Append(chain, m)
      <4>1. Types /\ ChainFits /\ call \notin {Hung, Broken}
        BY <2>2, ModeFacts DEF FileInv, ChunkByGrowth
      <4> QED
        BY <3>3, <4>1, SettledCases
    <3>4. \E m \in PageIds : Settled(file + 1).chain = Append(chain, m)
      BY <2>2, <3>1, <3>2, <3>3
    <3> QED
      BY <3>1, <3>4, ChainKept
  <2> QED
    BY <2>1, <2>2 DEF ChunkByWitness, ChunkByScan
<1>3. Held \subseteq Held'
  BY <1>1, <1>2 DEF Held
<1> QED
  BY <1>1, <1>3, TakesPages

LEMMA ReleasePageImplements ==
  ASSUME FileInv, NEW id \in PageIds, ReleasePage(id)
  PROVE  Allocator!DropPage(id)
<1>1. /\ holders \in [PageIds -> Nat]
      /\ holders[id] = 1 /\ id \notin System \cup ChainPages
      /\ holders' = [holders EXCEPT ![id] = @ - 1]
      /\ UNCHANGED <<chain, usage>>
  BY DEF FileInv, Types, TypeOK, OwnersDisjoint, ReleasePage
<1>2. holders'[id] = 0 /\ \A p \in PageIds : p # id => holders'[p] = holders[p]
  BY <1>1
<1>3. ChainPages' = ChainPages
  BY <1>1 DEF ChainPages
<1>4. Held' = Held \ {id}
  BY <1>1, <1>2, <1>3 DEF Held
<1>5. id \in Held \ (System \cup {InfoPage})
  BY <1>1, SetFacts DEF Held
<1> QED
  BY <1>1, <1>4, <1>5 DEF Allocator!DropPage

LEMMA DropRecordImplements ==
  ASSUME NEW r \in Records, DropRecord(r), UNCHANGED <<chain, holders>>
  PROVE  Allocator!DropBlocks(r)
<1>1. Held' = Held
  BY DEF Held, ChainPages
<1> QED
  BY <1>1 DEF DropRecord, Allocator!DropBlocks, Allocator!Nothing, NoUsage

(* The blocks of the finished record are nobody's in the next state but its
   own, and it had none. *)
LEMMA FinishImplements ==
  ASSUME FileInv, FileInv', RecordsClear, FinishRecord
  PROVE  \E r \in Records : Allocator!TakeBlocks(r)
<1> DEFINE r == call.rec
<1>1. call \in RecordCalls
  BY ModeFacts DEF FinishRecord, FileInv, Types
<1>2. /\ r \in Records /\ usage[r] = NoUsage
      /\ usage \in [Records -> [PageIds -> SUBSET Blocks]]
      /\ usage' = [usage EXCEPT ![r] = call.usage]
      /\ call.usage \in [PageIds -> SUBSET Blocks]
      /\ UNCHANGED <<chain, holders>>
  BY <1>1 DEF FinishRecord, FileInv, Types, TypeOK, RecordCalls, RecordsClear
<1>3. /\ usage'[r] = call.usage
      /\ \A s \in Records : s # r => usage'[s] = usage[s]
      /\ usage' = [usage EXCEPT ![r] = usage'[r]]
  BY <1>2
<1>4. Held' = Held
  BY <1>2 DEF Held, ChainPages
<1> HIDE DEF r
<1>5. ASSUME NEW p \in PageIds PROVE usage'[r][p] \subseteq Allocator!Free(p)
  <2>1. CASE usage'[r][p] = {}
    BY <2>1
  <2>2. CASE usage'[r][p] # {}
    <3>1. holders'[p] = 0 /\ p \notin System \cup ChainPages'
      BY <1>2, <2>2 DEF FileInv, OwnersDisjoint
    <3>2. p \notin Held'
      BY <3>1 DEF Held
    <3>3. \A s \in Records : s # r => usage'[r][p] \cap usage[s][p] = {}
      BY <1>2, <1>3 DEF FileInv, OwnersDisjoint
    <3>4. usage[r][p] = {}
      BY <1>2 DEF NoUsage
    <3>5. usage'[r][p] \subseteq Blocks
      BY <1>2, <1>3
    <3> QED
      BY <1>4, <3>2, <3>3, <3>4, <3>5 DEF Allocator!Free
  <2> QED
    BY <2>1, <2>2
<1>6. usage[r] = Allocator!Nothing
  BY <1>2 DEF Allocator!Nothing, NoUsage
<1>7. usage'[r] \in [PageIds -> SUBSET Blocks]
  BY <1>2, <1>3
<1>8. Allocator!TakeBlocks(r)
  BY <1>3, <1>4, <1>5, <1>6, <1>7 DEF Allocator!TakeBlocks
<1> QED
  BY <1>2, <1>8

LEMMA NextImplements ==
  ASSUME FileInv, FileInv', RecordsClear, [Next]_vars
  PROVE  [Allocator!Next]_<<Held, usage>>
<1>1. CASE AcquirePage
  BY <1>1, AcquirePageImplements DEF Allocator!Next
<1>2. ASSUME NEW p \in PageIds, ReleasePage(p)
      PROVE  [Allocator!Next]_<<Held, usage>>
  BY <1>2, ReleasePageImplements DEF Allocator!Next
<1>3. CASE UNCHANGED <<chain, holders, usage>>
  BY <1>3 DEF Held, ChainPages
<1>4. CASE ChunkByWitness \/ ChunkByScan \/ ChunkByGrowth
  BY <1>4, ChunkImplements DEF Allocator!Next
<1>5. CASE FinishRecord
  BY <1>5, FinishImplements DEF Allocator!Next
<1>6. ASSUME NEW r \in Records, ReleaseRecord(r)
      PROVE  [Allocator!Next]_<<Held, usage>>
  BY <1>6, DropRecordImplements DEF ReleaseRecord, Allocator!Next
<1>7. ASSUME NEW r \in Records, NEW l \in Lengths, ReacquireRecord(r, l)
      PROVE  [Allocator!Next]_<<Held, usage>>
  BY <1>7, DropRecordImplements DEF ReacquireRecord, Allocator!Next
<1> QED
  BY <1>1, <1>2, <1>3, <1>4, <1>5, <1>6, <1>7 DEF Next, StartRecord, Commit, vars

(* Every call of the policy does what the abstract allocator may do: it hands
   out pages and blocks that nobody has, also when it grows the file and the
   chain on the way, and takes back exactly what its caller had. *)
THEOREM Refinement == ASSUME SinglePage PROVE Spec => AllocatorSpec
<1>1. Init => RecordsClear /\ Allocator!Init
  BY InitClear, InitImplements
<1>2. FileInv /\ RecordsClear /\ [Next]_vars => RecordsClear'
  BY NextClear
<1>3. FileInv /\ FileInv' /\ RecordsClear /\ [Next]_vars
        => [Allocator!Next]_<<Held, usage>>
  BY NextImplements
<1>4. IInv => FileInv
  BY DEF IInv
<1> QED
  BY <1>1, <1>2, <1>3, <1>4, Invariance, PTL DEF Spec, AllocatorSpec, Allocator!Spec

=============================================================================
