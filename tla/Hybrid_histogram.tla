-------------------------- MODULE Hybrid_histogram --------------------------
(***************************************************************************)
(* The counts of Hybrid's histogram agree with the bitmaps, and what       *)
(* follows from that: no search ends with page -1, the file grows only     *)
(* when it must and ends with a page in use, and a record gets the blocks  *)
(* its length needs.  For every value of the constants with which a record *)
(* fits in a page.                                                         *)
(***************************************************************************)
EXTENDS Hybrid_proofs

(* The pages of class c in a file of n pages with the blocks in t taken. *)
Members(t, n, c) == {p \in 0 .. n - 1 : ClassFor(FreeBytes(t[p])) = c}

CountsTrue(h, t, n) ==
  \A c \in ClassIds : h.counts[c] = Cardinality(Members(t, n, c))

(* In a session that has not ended badly, the counts are true. *)
Counted == call.mode \in {"idle", "record"} => CountsTrue(hist, TakenMap, file)

(* The last page of the file has a block that is used or reserved. *)
Ends == call.mode \in {"idle", "record"} => TakenMap[file - 1] # {}

(* What a step keeps, whatever file the session has started from. *)
Kept == Counted' /\ (Ends => Ends')

Tidy == Counted /\ Ends /\ call.mode # "broken"

-----------------------------------------------------------------------------
(* Counts.                                                                   *)

LEMMA MembersFinite ==
  ASSUME NEW t, NEW n \in Nat, NEW c
  PROVE  /\ IsFiniteSet(Members(t, n, c)) /\ Cardinality(Members(t, n, c)) \in Nat
<1>1. IsFiniteSet(0 .. n - 1)
  BY FS_Interval
<1>2. Members(t, n, c) \in SUBSET (0 .. n - 1)
  BY DEF Members
<1> HIDE DEF Members
<1>3. IsFiniteSet(Members(t, n, c))
  BY <1>1, <1>2, FS_Subset
<1> QED
  BY <1>3, FS_CardinalityType

(* A page goes from its class to the one its new blocks put it in. *)
LEMMA MovedCounts ==
  ASSUME NEW h, HistTyped(h), NEW n \in 0 .. MaxPages, NEW id \in 0 .. n - 1,
         NEW t, NEW u, \A p \in 0 .. n - 1 : p # id => u[p] = t[p],
         CountsTrue(h, t, n)
  PROVE  CountsTrue(Moved(h, id, FreeBytes(t[id]), FreeBytes(u[id])), u, n)
<1> DEFINE old == ClassFor(FreeBytes(t[id]))
           new == ClassFor(FreeBytes(u[id]))
           g   == Moved(h, id, FreeBytes(t[id]), FreeBytes(u[id]))
<1> SUFFICES ASSUME NEW c \in ClassIds
             PROVE  g.counts[c] = Cardinality(Members(u, n, c))
  BY DEF CountsTrue
<1> DEFINE S == Members(t, n, c)
<1>1. n \in Nat /\ IsFiniteSet(S) /\ Cardinality(S) \in Nat
  BY MembersFinite, SetFacts
<1>2. h.counts[c] = Cardinality(S)
  BY DEF CountsTrue
<1>3. g.counts[c] = IF c = new THEN IF c = old THEN h.counts[c] - 1 + 1 ELSE h.counts[c] + 1
                    ELSE IF c = old THEN h.counts[c] - 1 ELSE h.counts[c]
  BY DEF Moved, Learn, Forget
<1>4. id \in S <=> c = old
  BY DEF Members
<1>5. Members(u, n, c) = IF c = new THEN (S \ {id}) \cup {id} ELSE S \ {id}
  BY DEF Members
<1> HIDE DEF S, old, new, g
<1>6. /\ IsFiniteSet(S \ {id})
      /\ Cardinality(S \ {id}) = IF c = old THEN Cardinality(S) - 1 ELSE Cardinality(S)
  BY <1>1, <1>4, FS_RemoveElement
<1>7. Cardinality((S \ {id}) \cup {id}) = Cardinality(S \ {id}) + 1
  BY <1>6, FS_AddElement
<1> QED
  BY <1>1, <1>2, <1>3, <1>5, <1>6, <1>7

(* The file grows, and what comes after its first new page is full. *)
LEMMA LearnCounts ==
  ASSUME NEW h, HistTyped(h), NEW n \in Nat, NEW m \in Nat, n < m,
         NEW t, NEW u, \A p \in 0 .. n - 1 : u[p] = t[p],
         \A p \in n + 1 .. m - 1 : u[p] = Blocks,
         CountsTrue(h, t, n)
  PROVE  CountsTrue(Learn(h, n, FreeBytes(u[n])), u, m)
<1> DEFINE new == ClassFor(FreeBytes(u[n]))
           g   == Learn(h, n, FreeBytes(u[n]))
<1> SUFFICES ASSUME NEW c \in ClassIds
             PROVE  g.counts[c] = Cardinality(Members(u, m, c))
  BY DEF CountsTrue
<1> DEFINE S == Members(t, n, c)
<1>1. IsFiniteSet(S) /\ Cardinality(S) \in Nat
  BY MembersFinite
<1>2. h.counts[c] = Cardinality(S)
  BY DEF CountsTrue
<1>3. g.counts[c] = IF c = new THEN h.counts[c] + 1 ELSE h.counts[c]
  BY DEF Learn
<1>4. n \notin S
  BY DEF Members
<1>5. ClassFor(FreeBytes(Blocks)) = 0 /\ c # 0
  BY ClassOfBlocks, SetFacts
<1>6. Members(u, m, c) = IF c = new THEN S \cup {n} ELSE S
  <2>1. ASSUME NEW p \in 0 .. m - 1
        PROVE  p \in 0 .. n - 1 \/ p = n \/ p \in n + 1 .. m - 1
    OBVIOUS
  <2>2. \A p \in 0 .. m - 1 :
          p \in Members(u, m, c) <=> p \in S \/ (p = n /\ c = new)
    BY <1>5, <2>1 DEF Members
  <2>3. S \subseteq 0 .. m - 1 /\ n \in 0 .. m - 1 /\ Members(u, m, c) \subseteq 0 .. m - 1
    BY DEF Members
  <2> HIDE DEF S, new
  <2> QED
    BY <2>2, <2>3
<1> HIDE DEF S, new, g
<1>7. Cardinality(S \cup {n}) = Cardinality(S) + 1
  BY <1>1, <1>4, FS_AddElement
<1> QED
  BY <1>1, <1>2, <1>3, <1>6, <1>7

(* New pages that are full change no count. *)
LEMMA SameCounts ==
  ASSUME NEW h, NEW n \in Nat, NEW m \in Nat, n <= m,
         NEW t, NEW u, \A p \in 0 .. n - 1 : u[p] = t[p],
         \A p \in n .. m - 1 : u[p] = Blocks,
         CountsTrue(h, t, n)
  PROVE  CountsTrue(h, u, m)
<1> SUFFICES ASSUME NEW c \in ClassIds
             PROVE  Members(u, m, c) = Members(t, n, c)
  BY DEF CountsTrue
<1>1. ClassFor(FreeBytes(Blocks)) = 0 /\ c # 0
  BY ClassOfBlocks, SetFacts
<1>2. \A p \in 0 .. m - 1 : p \in 0 .. n - 1 \/ p \in n .. m - 1
  OBVIOUS
<1> QED
  BY <1>1, <1>2 DEF Members

(* The pages of the tail are those that leave, all from the top class. *)
LEMMA CutCounts ==
  ASSUME NEW h, HistTyped(h), NEW n \in 0 .. MaxPages,
         NEW t \in [PageIds -> SUBSET Blocks],
         CountsTrue(h, t, n)
  PROVE  LET tail == EmptyTail(t, n) IN
         CountsTrue(WithoutTail(h, tail), t, n - Cardinality(tail))
<1> DEFINE tail == EmptyTail(t, n)
           m == n - Cardinality(tail)
           g == WithoutTail(h, tail)
<1> SUFFICES ASSUME NEW c \in ClassIds
             PROVE  g.counts[c] = Cardinality(Members(t, m, c))
  BY DEF CountsTrue
<1> DEFINE S == Members(t, n, c)
<1>1. n \in Nat /\ IsFiniteSet(S) /\ Cardinality(S) \in Nat
  BY MembersFinite, SetFacts
<1>2. h.counts[c] = Cardinality(S) /\ h.counts[c] \in Int
  BY DEF CountsTrue, HistTyped
<1>3. /\ Cardinality(tail) \in 0 .. n
      /\ \A p \in 0 .. n - 1 : p \in tail <=> p >= m
      /\ \A p \in tail : t[p] = {}
  BY TailFacts
<1>4. tail \subseteq 0 .. n - 1 /\ 0 .. n - 1 \subseteq PageIds
  BY <1>1, SetFacts DEF EmptyTail, PageIds
<1>5. g.counts[c] = IF c = Classes THEN h.counts[c] - Cardinality(tail) ELSE h.counts[c]
  BY <1>2, SetFacts DEF WithoutTail, HistTyped
<1> HIDE DEF tail, g
<1>6. m \in Nat /\ m <= n
  BY <1>1, <1>3
<1>7. \A p \in tail : ClassFor(FreeBytes(t[p])) = Classes
  BY <1>3, <1>4, ClassOfBlocks
<1>8. Members(t, m, c) = S \ tail
  <2> HIDE DEF m
  <2>1. \A p \in 0 .. m - 1 : p \in 0 .. n - 1 /\ ~(p >= m)
    BY <1>1, <1>6
  <2>2. \A p \in 0 .. n - 1 : p \in 0 .. m - 1 \/ p >= m
    BY <1>1, <1>6
  <2>3. \A p \in 0 .. n - 1 : p \in tail <=> p >= m
    BY <1>3 DEF m
  <2> QED
    BY <2>1, <2>2, <2>3 DEF Members
<1>9. S \cap tail = IF c = Classes THEN tail ELSE {}
  BY <1>4, <1>7 DEF Members
<1> HIDE DEF S, m
<1>10. Cardinality(S \ tail) = Cardinality(S) - Cardinality(S \cap tail)
  BY <1>1, FS_Difference
<1> QED
  BY <1>1, <1>2, <1>3, <1>5, <1>8, <1>9, <1>10, FS_EmptySet

(* The pages of a released record go from class to class, one by one. *)
LEMMA MovedAllCounts ==
  ASSUME NEW h, HistTyped(h), NEW n \in 0 .. MaxPages, NEW ps \in SUBSET (0 .. n - 1),
         NEW t, NEW u, \A p \in 0 .. n - 1 : p \notin ps => u[p] = t[p],
         CountsTrue(h, t, n),
         NEW g \in MovedAll(h, ps, t, u)
  PROVE  CountsTrue(g, u, n)
<1> SUFFICES ASSUME NEW c \in ClassIds
             PROVE  g.counts[c] = Cardinality(Members(u, n, c))
  BY DEF CountsTrue
<1> DEFINE S == Members(t, n, c)
           left  == {p \in ps : ClassFor(FreeBytes(t[p])) = c}
           enter == {p \in ps : ClassFor(FreeBytes(u[p])) = c}
<1>1. n \in Nat /\ IsFiniteSet(S) /\ Cardinality(S) \in Nat
  BY MembersFinite, SetFacts
<1>2. h.counts[c] = Cardinality(S)
  BY DEF CountsTrue
<1>3. g.counts[c] = h.counts[c] - Cardinality(left) + Cardinality(enter)
  BY DEF MovedAll
<1>4. left \subseteq S
  BY DEF Members
<1>5. Members(u, n, c) = (S \ left) \cup enter /\ (S \ left) \cap enter = {}
  BY DEF Members
<1>6. IsFiniteSet(enter)
  <2>1. IsFiniteSet(0 .. n - 1)
    BY <1>1, FS_Interval
  <2>2. IsFiniteSet(ps)
    BY <2>1, FS_Subset
  <2>3. enter \in SUBSET ps
    OBVIOUS
  <2> HIDE DEF enter
  <2> QED
    BY <2>2, <2>3, FS_Subset
<1> HIDE DEF S, left, enter
<1>7. /\ IsFiniteSet(S \ left)
      /\ Cardinality(S \ left) = Cardinality(S) - Cardinality(left)
  <2>1. S \cap left = left
    BY <1>4
  <2> QED
    BY <1>1, <2>1, FS_Difference
<1>8. /\ Cardinality((S \ left) \cup enter) = Cardinality(S \ left) + Cardinality(enter) - Cardinality({})
  BY <1>5, <1>6, <1>7, FS_Union
<1>9. Cardinality(left) \in Nat /\ Cardinality(enter) \in Nat
  <2>1. IsFiniteSet(left)
    BY <1>1, <1>4, FS_Subset
  <2> QED
    BY <2>1, <1>6, FS_CardinalityType
<1> QED
  BY <1>1, <1>2, <1>3, <1>5, <1>7, <1>8, <1>9, FS_EmptySet

-----------------------------------------------------------------------------
(* The cut of the tail.                                                      *)

(* The last page left by removeEmptyPages is in use. *)
LEMMA LastPageUsed ==
  ASSUME NEW b \in [PageIds -> SUBSET Blocks], NEW n \in 0 .. MaxPages,
         n - Cardinality(EmptyTail(b, n)) # 0
  PROVE  b[n - Cardinality(EmptyTail(b, n)) - 1] # {}
<1> DEFINE tail == EmptyTail(b, n)
           m == n - Cardinality(tail)
           p == m - 1
<1>1. /\ Cardinality(tail) \in 0 .. n
      /\ \A q \in 0 .. n - 1 : q \in tail <=> q >= m
      /\ \A q \in tail : b[q] = {}
  BY TailFacts
<1>2. n \in Nat
  BY SetFacts
<1> HIDE DEF tail
<1>3. m \in Nat \ {0} /\ m <= n
  BY <1>1, <1>2 DEF tail
<1>4. p \in 0 .. n - 1 /\ p \in Nat /\ ~(p >= m)
  BY <1>2, <1>3
<1>5. SUFFICES ASSUME b[p] = {} PROVE FALSE
  BY DEF tail
<1>6. \A q \in p .. n - 1 : b[q] = {}
  <2>1. ASSUME NEW q \in p .. n - 1, q # p
        PROVE  q \in tail
    <3>1. q \in 0 .. n - 1 /\ q >= m
      BY <1>2, <1>3, <2>1
    <3> QED
      BY <1>1, <3>1
  <2> QED
    BY <1>1, <1>5, <2>1
<1>7. p \in tail
  <2> HIDE DEF p
  <2> QED
    BY <1>4, <1>6 DEF tail, EmptyTail
<1> QED
  BY <1>1, <1>4, <1>7

-----------------------------------------------------------------------------
(* The steps.                                                                *)

LEMMA Modes ==
  /\ Idle.mode = "idle" /\ Hung.mode = "hung" /\ Broken.mode = "broken"
  /\ \A x \in RecordCalls : x.mode = "record"
BY DEF Idle, Hung, Broken, RecordCalls

LEMMA LastIn ==
  ASSUME NEW a \in Nat, NEW b \in Nat, a <= b, a # b
  PROVE  b - 1 \in a .. b - 1
OBVIOUS

LEMMA InitTidy == Init => Tidy
<1> SUFFICES ASSUME Init PROVE Tidy
  OBVIOUS
<1>1. bits \in [PageIds -> SUBSET Blocks] /\ call = Idle /\ file = MinPages
  BY DEF Init
<1>2. TakenMap = bits
  BY <1>1, IdleTaken, ModeFacts
<1>3. \A p \in 0 .. file - 1 : bits[p] = Blocks
  <2>1. 0 .. file - 1 = System
    BY <1>1 DEF System
  <2> QED
    BY <2>1, SetFacts DEF Init
<1>4. MinPages - 1 \in 0 .. file - 1 /\ file \in Nat
  BY <1>1, SetFacts
<1>5. bits[file - 1] # {}
  BY <1>1, <1>3, <1>4, BlocksFinite
<1>6. CountsTrue(hist, bits, 0)
  <2>1. ASSUME NEW c \in ClassIds
        PROVE  hist.counts[c] = Cardinality(Members(bits, 0, c))
    <3>1. hist.counts[c] = 0
      BY DEF Init
    <3>2. Members(bits, 0, c) = {}
      BY DEF Members
    <3> QED
      BY <3>1, <3>2, FS_EmptySet
  <2> QED
    BY <2>1 DEF CountsTrue
<1>7. CountsTrue(hist, bits, file)
  BY <1>3, <1>4, <1>6, SameCounts
<1> QED
  BY <1>1, <1>2, <1>5, <1>7, Modes DEF Tidy, Counted, Ends

(* A step that leaves the blocks taken, the file and the histogram alone. *)
LEMMA QuietTidy ==
  ASSUME Counted, call.mode \in {"idle", "record"},
         TakenMap' = TakenMap, UNCHANGED <<file, hist>>
  PROVE  Kept
BY DEF Kept, Counted, Ends

(* A whole page goes to a caller: h is true once page id is full. *)
LEMMA GivePageTidy ==
  ASSUME FileInv, Counted, call = Idle, FileInv',
         NEW n \in {file, file + 1}, n <= MaxPages,
         NEW id \in 0 .. n - 1, n = file + 1 => id = file,
         NEW h, CountsTrue(h, [bits EXCEPT ![id] = Blocks], n),
         GivePage(id, n, h)
  PROVE  Kept
<1> DEFINE s == Settled(n)
           full == [bits EXCEPT ![id] = Blocks]
<1>1. /\ Types /\ OwnedAreUsed /\ ChainFits /\ bits \in [PageIds -> SUBSET Blocks]
      /\ n \in Nat /\ file \in Nat /\ file # 0 /\ MaxPages \in Nat /\ file <= MaxPages
  <2>1. Types /\ OwnedAreUsed /\ ChainFits
    BY DEF FileInv
  <2>2. bits \in [PageIds -> SUBSET Blocks] /\ file \in MinPages .. MaxPages
    BY <2>1 DEF Types, TypeOK
  <2>3. file \in Nat /\ file # 0 /\ MaxPages \in Nat /\ file <= MaxPages
    BY <2>2, SetFacts
  <2> QED
    BY <2>1, <2>2, <2>3
<1>2. CASE ~s.ok
  BY <1>2, Modes DEF GivePage, Stop, Kept, Counted, Ends
<1>3. CASE s.ok
  <2>1. /\ hist' = h /\ file' = s.file /\ chain' = s.chain /\ call' = call
        /\ bits' = [WithInfo(bits, s.chain) EXCEPT ![id] = Blocks]
    BY <1>3 DEF GivePage
  <2>2. \/ s.file = n /\ s.chain = chain
        \/ s.file = n + 1 /\ s.chain = Append(chain, n) /\ n \in PageIds
    BY <1>1, <1>3, ModeFacts, SettledCases
  <2>3. \A k \in DOMAIN s.chain : s.chain[k] # n => s.chain[k] \in ChainPages
    <3>1. CASE s.chain = chain
      BY <3>1 DEF ChainPages
    <3>2. CASE n \in PageIds /\ s.chain = Append(chain, n)
      BY <1>1, <3>2 DEF ChainPages, Types, TypeOK
    <3> QED
      BY <2>2, <3>1, <3>2
  <2> HIDE DEF s
  <2>4. ASSUME NEW p \in 0 .. n - 1
        PROVE  bits'[p] = full[p]
    <3>1. p \in PageIds /\ p # n
      BY <1>1 DEF PageIds
    <3>2. (\E k \in DOMAIN s.chain : s.chain[k] = p) => bits[p] = Blocks
      BY <1>1, <2>3, <3>1 DEF OwnedAreUsed
    <3> QED
      BY <1>1, <2>1, <3>1, <3>2 DEF WithInfo
  <2>5. \A p \in n .. file' - 1 : bits'[p] = Blocks
    <3>1. CASE s.file = n
      BY <1>1, <2>1, <3>1
    <3>2. CASE s.file = n + 1 /\ s.chain = Append(chain, n) /\ n \in PageIds
      <4>1. chain \in Seq(PageIds)
        BY <1>1 DEF Types, TypeOK
      <4>2. n \in ChainPages'
        BY <2>1, <3>2, <4>1 DEF ChainPages
      <4>3. bits'[n] = Blocks
        BY <3>2, <4>2 DEF FileInv, OwnedAreUsed
      <4>4. \A p \in n .. file' - 1 : p = n
        BY <1>1, <2>1, <3>2
      <4> QED
        BY <4>3, <4>4
    <3> QED
      BY <2>2, <3>1, <3>2
  <2>6. file' \in Nat /\ n <= file'
    BY <1>1, <2>1, <2>2
  <2>7. TakenMap' = bits'
    <3>1. bits' \in [PageIds -> SUBSET Blocks]
      BY DEF FileInv, Types, TypeOK
    <3> QED
      BY <2>1, <3>1, ModeFacts DEF TakenMap, Taken, InRecord, Idle
  <2>8. CountsTrue(h, bits', file')
    <3> HIDE DEF full
    <3> QED
      BY <2>4, <2>5, <2>6, SameCounts, <1>1 DEF full
  <2>9. Ends => bits'[file' - 1] # {}
    <3> SUFFICES ASSUME Ends PROVE bits'[file' - 1] # {}
      OBVIOUS
    <3>1. CASE file' = n
      <4>1. n - 1 \in 0 .. n - 1 /\ n - 1 \in PageIds
        BY <1>1 DEF PageIds
      <4>2. full[n - 1] # {}
        <5>1. CASE n = file + 1
          BY <1>1, <4>1, <5>1, BlocksFinite
        <5>2. CASE n = file
          <6>1. TakenMap = bits
            BY <1>1, IdleTaken, ModeFacts
          <6>2. bits[file - 1] # {}
            BY <6>1, Modes DEF Kept, Counted, Ends
          <6> QED
            BY <1>1, <4>1, <5>2, <6>2, BlocksFinite
        <5> QED
          BY <5>1, <5>2
      <4> QED
        BY <2>4, <3>1, <4>1, <4>2
    <3>2. CASE file' # n
      <4>1. n \in Nat
        BY <1>1
      <4>2. file' - 1 \in n .. file' - 1
        BY <2>6, <3>2, <4>1, LastIn
      <4> QED
        BY <2>5, <4>2, BlocksFinite
    <3> QED
      BY <3>1, <3>2
  <2> QED
    BY <2>1, <2>7, <2>8, <2>9, Modes DEF Kept, Counted, Ends
<1> QED
  BY <1>2, <1>3

(* What the search of the histogram means when its counts are true. *)
LEMMA SearchMeans ==
  ASSUME FileInv, CountsTrue(hist, TakenMap, file), NEW need \in 0 .. PageSize
  PROVE  /\ GetWitness(need) = NoPage =>
              \A p \in 0 .. file - 1 : ClassFor(FreeBytes(Taken(p))) < FirstClass(need)
         /\ GetWitness(need) = NoWitness =>
              \E p \in 0 .. file - 1 : ClassFor(FreeBytes(Taken(p))) >= FirstClass(need)
<1> DEFINE busy == {c \in FirstClass(need) .. Classes : hist.counts[c] > 0}
           seen == {c \in busy : hist.witness[c] # NoId}
<1>1. file \in Nat /\ 0 .. file - 1 \subseteq PageIds
  BY SetFacts DEF FileInv, Types, TypeOK, PageIds
<1>2. FirstClass(need) \in 1 .. Classes /\ Classes \in Nat
  BY ClassForFacts, SizesAssumption DEF FirstClass
<1>3. FirstClass(need) .. Classes \subseteq ClassIds
  BY <1>2 DEF ClassIds
<1>4. ASSUME seen # {}
      PROVE  GetWitness(need) \in PageIds
  <2> DEFINE c0 == CHOOSE c \in seen : \A d \in seen : c <= d
  <2>1. seen \subseteq Nat
    BY <1>2
  <2>2. \E c \in seen : \A d \in seen : c <= d
    <3> DEFINE f == [c \in seen |-> c]
    <3>1. f \in [seen -> Nat]
      BY <2>1
    <3>2. \E c \in seen : \A d \in seen : f[c] <= f[d]
      <4> HIDE DEF f, seen
      <4> QED
        BY <1>4, <3>1, LeastExists
    <3> QED
      BY <3>2
  <2>3. c0 \in seen
    <3> HIDE DEF seen
    <3> QED
      BY <2>2
  <2>4. hist.witness[c0] \in PageIds
    BY <1>3, <2>3 DEF FileInv, Types, TypeOK
  <2> QED
    BY <1>4, <2>4 DEF GetWitness
<1>5. /\ GetWitness(need) = NoPage => busy = {}
      /\ GetWitness(need) = NoWitness => busy # {}
  <2>1. NoPage # NoWitness
    BY DEF NoPage, NoWitness
  <2>2. seen = {} => GetWitness(need) = IF busy = {} THEN NoPage ELSE NoWitness
    BY DEF GetWitness
  <2> HIDE DEF busy, seen
  <2> QED
    BY <1>4, <2>1, <2>2, SetFacts
<1>7. ASSUME NEW p \in 0 .. file - 1
      PROVE  TakenMap[p] = Taken(p) /\ Taken(p) \in SUBSET Blocks
             /\ ClassFor(FreeBytes(Taken(p))) \in 0 .. Classes
  <2>1. p \in PageIds
    BY <1>1
  <2>2. bits[p] \in SUBSET Blocks
    BY <2>1 DEF FileInv, Types, TypeOK
  <2>3. InRecord => call.usage[p] \in SUBSET Blocks
    BY <2>1, ModeFacts DEF FileInv, Types, RecordCalls
  <2>4. Taken(p) \in SUBSET Blocks
    BY <2>2, <2>3 DEF Taken
  <2> QED
    BY <2>1, <2>4, ClassOfBlocks DEF TakenMap
<1>8. ASSUME NEW c \in ClassIds
      PROVE  hist.counts[c] > 0 <=>
               \E p \in 0 .. file - 1 : ClassFor(FreeBytes(Taken(p))) = c
  <2> DEFINE S == Members(TakenMap, file, c)
  <2>1. IsFiniteSet(S) /\ Cardinality(S) \in Nat /\ hist.counts[c] = Cardinality(S)
    BY <1>1, MembersFinite DEF CountsTrue
  <2>2. S # {} <=> \E p \in 0 .. file - 1 : ClassFor(FreeBytes(Taken(p))) = c
    BY <1>7 DEF Members
  <2> HIDE DEF S
  <2> QED
    BY <2>1, <2>2, FS_EmptySet
<1>9. ASSUME busy = {}, NEW p \in 0 .. file - 1
      PROVE  ClassFor(FreeBytes(Taken(p))) < FirstClass(need)
  <2> DEFINE c == ClassFor(FreeBytes(Taken(p)))
  <2>1. c \in 0 .. Classes
    BY <1>7
  <2>2. SUFFICES ASSUME c >= FirstClass(need) PROVE FALSE
    BY <1>2, <2>1
  <2>3. c \in FirstClass(need) .. Classes
    BY <1>2, <2>1, <2>2
  <2>4. hist.counts[c] > 0
    BY <1>3, <1>8, <2>3
  <2> QED
    BY <1>9, <2>3, <2>4
<1>10. ASSUME busy # {}
       PROVE  \E p \in 0 .. file - 1 : ClassFor(FreeBytes(Taken(p))) >= FirstClass(need)
  <2>1. PICK c \in FirstClass(need) .. Classes : hist.counts[c] > 0
    BY <1>10
  <2>2. PICK p \in 0 .. file - 1 : ClassFor(FreeBytes(Taken(p))) = c
    BY <1>3, <1>8, <2>1
  <2> QED
    BY <1>2, <2>1, <2>2
<1> HIDE DEF busy
<1> QED
  BY <1>5, <1>9, <1>10

(* What Tidy says between two calls. *)
LEMMA IdleTidy ==
  ASSUME FileInv, Counted, call = Idle
  PROVE  /\ TakenMap = bits /\ bits \in [PageIds -> SUBSET Blocks] /\ HistTyped(hist)
         /\ file \in 0 .. MaxPages /\ file \in Nat
         /\ CountsTrue(hist, bits, file) /\ (Ends => bits[file - 1] # {})
<1>1. /\ bits \in [PageIds -> SUBSET Blocks] /\ HistTyped(hist)
      /\ file \in 0 .. MaxPages /\ file \in Nat
  BY SetFacts DEF FileInv, Types, TypeOK, HistTyped
<1>2. TakenMap = bits
  BY <1>1, IdleTaken, ModeFacts
<1> QED
  BY <1>1, <1>2, Modes DEF Kept, Counted, Ends

(* The counts say that the top class has a page. *)
LEMMA ScanFinds ==
  ASSUME FileInv, Counted, PageByScan
  PROVE  EmptyPages(file) # {}
<1>1. call = Idle /\ GetWitness(PageSize) = NoWitness
  BY DEF PageByScan
<1>2. /\ TakenMap = bits /\ bits \in [PageIds -> SUBSET Blocks]
      /\ CountsTrue(hist, TakenMap, file)
  BY <1>1, IdleTidy
<1>3. PageSize \in 0 .. PageSize /\ 0 .. file - 1 \subseteq PageIds
  BY SizesAssumption, SetFacts DEF FileInv, Types, TypeOK, PageIds
<1>4. PICK p \in 0 .. file - 1 : ClassFor(FreeBytes(Taken(p))) >= FirstClass(PageSize)
  BY <1>1, <1>2, <1>3, SearchMeans
<1>5. p \in PageIds /\ Taken(p) = bits[p] /\ bits[p] \in SUBSET Blocks
  BY <1>1, <1>2, <1>3, ModeFacts DEF Taken
<1>6. FirstClass(PageSize) = Classes /\ Classes \in Nat
  BY <1>5, ClassOfBlocks, SizesAssumption DEF FirstClass
<1>7. ClassFor(FreeBytes(bits[p])) = Classes
  BY <1>4, <1>5, <1>6, ClassOfBlocks
<1>8. bits[p] = {}
  BY <1>5, <1>7, ClassOfBlocks
<1> QED
  BY <1>8 DEF EmptyPages

LEMMA AcquirePageTidy ==
  ASSUME FileInv, Counted, AcquirePage, FileInv'
  PROVE  Kept
<1>1. call = Idle
  BY DEF AcquirePage, PageByWitness, PageByScan, PageByGrowth
<1>2. /\ TakenMap = bits /\ bits \in [PageIds -> SUBSET Blocks] /\ HistTyped(hist)
      /\ file \in 0 .. MaxPages /\ file \in Nat
      /\ CountsTrue(hist, bits, file) /\ (Ends => bits[file - 1] # {})
  BY <1>1, IdleTidy
<1>3. /\ MaxPages \in Nat /\ file <= MaxPages /\ file # 0 /\ lastAcquired \in Nat
      /\ 0 .. file - 1 \subseteq PageIds
  <2>1. file \in MinPages .. MaxPages /\ lastAcquired \in 0 .. MaxPages
    BY DEF FileInv, Types, TypeOK
  <2> QED
    BY <2>1, SetFacts DEF PageIds
(* An empty page of the file leaves the top class for class 0. *)
<1>4. ASSUME NEW id \in 0 .. file - 1, bits[id] = {},
             GivePage(id, file, Moved(hist, id, PageSize, 0))
      PROVE  Kept
  <2> DEFINE u == [bits EXCEPT ![id] = Blocks]
             h == Moved(hist, id, PageSize, 0)
  <2>1. id \in PageIds
    BY <1>3
  <2>2. FreeBytes(bits[id]) = PageSize /\ FreeBytes(u[id]) = 0
    BY <1>2, <1>4, <2>1, FreeBytesFacts
  <2>3. \A p \in 0 .. file - 1 : p # id => u[p] = bits[p]
    BY <1>2, <1>3
  <2> HIDE DEF u
  <2>4. CountsTrue(Moved(hist, id, FreeBytes(bits[id]), FreeBytes(u[id])), u, file)
    BY <1>2, <2>3, MovedCounts
  <2>5. CountsTrue(h, u, file)
    BY <2>2, <2>4
  <2> HIDE DEF h
  <2>6. CountsTrue(h, [bits EXCEPT ![id] = Blocks], file)
    BY <2>5 DEF u
  <2>7. GivePage(id, file, h)
    BY <1>4 DEF h
  <2>8. file \in {file, file + 1} /\ file # file + 1
    BY <1>2
  <2> QED
    BY <1>1, <1>3, <1>4, <2>6, <2>7, <2>8, GivePageTidy
<1>5. CASE PageByWitness
  <2> DEFINE id == GetWitness(PageSize)
  <2>1. id \in PageIds /\ GivePage(id, file, Moved(hist, id, PageSize, 0))
    BY <1>5 DEF PageByWitness
  <2>2. id \in 0 .. file - 1 /\ bits[id] = {}
    BY <1>1, <2>1, WholePageWitness
  <2> HIDE DEF id
  <2> QED
    BY <1>4, <2>1, <2>2
<1>6. CASE PageByScan
  <2> DEFINE id == NextFrom(EmptyPages(file), file)
  <2>1. EmptyPages(file) # {}
    BY <1>6, ScanFinds
  <2>2. GivePage(id, file, Moved(hist, id, PageSize, 0))
    BY <1>6, <2>1 DEF PageByScan
  <2>3. EmptyPages(file) \in SUBSET Nat
    BY <1>2 DEF EmptyPages
  <2>4. id \in EmptyPages(file)
    BY <1>2, <1>3, <2>1, <2>3, NextFromIn
  <2>5. id \in 0 .. file - 1 /\ bits[id] = {}
    BY <2>4 DEF EmptyPages
  <2> HIDE DEF id
  <2> QED
    BY <1>4, <2>2, <2>5
<1>7. CASE PageByGrowth
  <2> DEFINE u == [bits EXCEPT ![file] = Blocks]
  <2>1. file < MaxPages /\ GivePage(file, file + 1, hist)
    BY <1>7 DEF PageByGrowth
  <2>2. file \in PageIds
    BY <1>2, <1>3, <2>1 DEF PageIds
  <2>3. /\ \A p \in 0 .. file - 1 : u[p] = bits[p]
        /\ \A p \in file .. (file + 1) - 1 : u[p] = Blocks
    <3>1. \A p \in 0 .. file - 1 : p \in PageIds /\ p # file
      BY <1>2, <1>3
    <3>2. \A p \in file .. (file + 1) - 1 : p = file
      BY <1>2
    <3> QED
      BY <1>2, <2>2, <3>1, <3>2
  <2> HIDE DEF u
  <2>4. CountsTrue(hist, u, file + 1)
    BY <1>2, <2>3, SameCounts
  <2>5. CountsTrue(hist, [bits EXCEPT ![file] = Blocks], file + 1)
    BY <2>4 DEF u
  <2>6. /\ file + 1 \in {file, file + 1} /\ file + 1 <= MaxPages
        /\ file \in 0 .. (file + 1) - 1
    BY <1>2, <1>3, <2>1
  <2> QED
    BY <1>1, <2>1, <2>2, <2>5, <2>6, GivePageTidy
<1> QED
  BY <1>5, <1>6, <1>7 DEF AcquirePage

(* A release, once the histogram h has followed the cleared blocks. *)
LEMMA CutTidy ==
  ASSUME FileInv, FileInv', NEW b \in [PageIds -> SUBSET Blocks],
         NEW h, HistTyped(h), CountsTrue(h, b, file),
         hist' = WithoutTail(h, EmptyTail(b, file)),
         file' = file - Cardinality(EmptyTail(b, file)),
         TakenMap' = b
  PROVE  Kept
<1>1. file \in 0 .. MaxPages
  BY SetFacts DEF FileInv, Types, TypeOK
<1>2. file' # 0
  BY SetFacts DEF FileInv, Types, TypeOK
<1>3. CountsTrue(hist', b, file')
  BY <1>1, CutCounts
<1>4. b[file' - 1] # {}
  BY <1>1, <1>2, LastPageUsed
<1> QED
  BY <1>3, <1>4 DEF Kept, Counted, Ends

LEMMA ReleasePageTidy ==
  ASSUME FileInv, Counted, NEW id \in PageIds, ReleasePage(id), FileInv'
  PROVE  Kept
<1> DEFINE b == [bits EXCEPT ![id] = {}]
           h == Moved(hist, id, 0, PageSize)
<1>1. /\ call = Idle /\ holders[id] > 0 /\ bits' = b /\ call' = call
      /\ hist' = WithoutTail(h, EmptyTail(b, file))
      /\ file' = file - Cardinality(EmptyTail(b, file))
  BY DEF ReleasePage
<1>2. /\ TakenMap = bits /\ bits \in [PageIds -> SUBSET Blocks] /\ HistTyped(hist)
      /\ file \in 0 .. MaxPages /\ file \in Nat
      /\ CountsTrue(hist, bits, file) /\ (Ends => bits[file - 1] # {})
  BY <1>1, IdleTidy
<1>3. id \in 0 .. file - 1 /\ bits[id] = Blocks
  <2>1. id < file /\ bits[id] = Blocks
    BY <1>1 DEF FileInv, OwnedAreUsed
  <2> QED
    BY <1>2, <2>1, SetFacts
<1>4. b \in [PageIds -> SUBSET Blocks] /\ b[id] = {}
      /\ \A p \in 0 .. file - 1 : p # id => b[p] = bits[p]
  <2>1. 0 .. file - 1 \subseteq PageIds
    BY <1>2, SetFacts DEF PageIds
  <2> QED
    BY <1>2, <2>1
<1> HIDE DEF b
<1>5. FreeBytes(bits[id]) = 0 /\ FreeBytes(b[id]) = PageSize
  BY <1>3, <1>4, FreeBytesFacts
<1>6. h = Moved(hist, id, FreeBytes(bits[id]), FreeBytes(b[id]))
  BY <1>5
<1>7. CountsTrue(h, b, file)
  BY <1>2, <1>3, <1>4, <1>6, MovedCounts
<1>8. HistTyped(h)
  <2>1. 0 \in 0 .. PageSize /\ PageSize \in 0 .. PageSize
    BY SizesAssumption
  <2> QED
    BY <1>2, <2>1, MovedFacts
<1> HIDE DEF h
<1>9. TakenMap' = b /\ call'.mode # "broken"
  <2>1. TakenMap' = bits'
    BY <1>1, <1>4, ModeFacts, Modes DEF TakenMap, Taken, InRecord
  <2> QED
    BY <1>1, <2>1, Modes
<1> QED
  BY <1>1, <1>4, <1>7, <1>8, <1>9, CutTidy

LEMMA DropRecordTidy ==
  ASSUME FileInv, SinglePage, Counted, NEW r \in Records, DropRecord(r), FileInv',
         call' = Idle \/ \E q \in Records, l \in Lengths : call' = Begin(q, l, file')
  PROVE  Kept
<1> DEFINE b == [p \in PageIds |-> bits[p] \ usage[r][p]]
           ps == {p \in PageIds : usage[r][p] # {}}
<1>1. /\ call = Idle /\ bits' = b
      /\ file' = file - Cardinality(EmptyTail(b, file))
      /\ \E h \in MovedAll(hist, ps, bits, b) : hist' = WithoutTail(h, EmptyTail(b, file))
  BY DEF DropRecord
<1>2. /\ TakenMap = bits /\ bits \in [PageIds -> SUBSET Blocks] /\ HistTyped(hist)
      /\ file \in 0 .. MaxPages /\ file \in Nat
      /\ CountsTrue(hist, bits, file)
  BY <1>1, IdleTidy
<1>3. b \in [PageIds -> SUBSET Blocks]
  BY <1>2
<1>4. \A p \in 0 .. file - 1 : p \notin ps => b[p] = bits[p]
  <2>1. 0 .. file - 1 \subseteq PageIds
    BY <1>2, SetFacts DEF PageIds
  <2> QED
    BY <1>2, <2>1
<1>5. ps \in SUBSET (0 .. file - 1)
  <2>1. ASSUME NEW p \in ps PROVE p \in 0 .. file - 1
    <3>1. p \in Nat /\ p < file
      BY SetFacts DEF FileInv, OwnedAreUsed
    <3> QED
      BY <1>2, <3>1
  <2> QED
    BY <2>1
<1>6. PICK h \in MovedAll(hist, ps, bits, b) : hist' = WithoutTail(h, EmptyTail(b, file))
  BY <1>1
<1> HIDE DEF b, ps
<1>7. HistTyped(h)
  <2>1. Valid(hist, bits, file)
    BY <1>2 DEF FileInv, WitnessTrue
  <2> QED
    BY <1>2, <1>3, <1>4, <1>5, <2>1, MovedAllValid
<1>8. CountsTrue(h, b, file)
  BY <1>2, <1>4, <1>5, MovedAllCounts
<1>9. TakenMap' = b /\ call'.mode # "broken"
  <2>1. CASE call' = Idle
    <3>1. TakenMap' = bits'
      BY <1>1, <1>3, <2>1 DEF TakenMap, Taken, InRecord, Idle
    <3> QED
      BY <1>1, <2>1, <3>1, Modes
  <2>2. ASSUME NEW q \in Records, NEW l \in Lengths, call' = Begin(q, l, file')
        PROVE  TakenMap' = b /\ call'.mode # "broken"
    <3>1. file' \in Nat
      BY SetFacts DEF FileInv, Types, TypeOK
    <3>2. call'.mode = "record" /\ call'.usage = NoUsage
      BY <2>2, <3>1, BeginFacts
    <3>3. TakenMap' = bits'
      BY <1>1, <1>3, <3>2 DEF TakenMap, Taken, NoUsage
    <3> QED
      BY <1>1, <3>2, <3>3
  <2> QED
    BY <2>1, <2>2
<1> QED
  BY <1>1, <1>3, <1>6, <1>7, <1>8, <1>9, CutTidy

LEMMA StartRecordTidy ==
  ASSUME FileInv, SinglePage, Counted, NEW r \in Records, NEW l \in Lengths, StartRecord(r, l)
  PROVE  Kept
<1>1. call = Idle /\ call' = Begin(r, l, file) /\ UNCHANGED <<file, bits, hist>>
  BY DEF StartRecord
<1>2. TakenMap = bits /\ bits \in [PageIds -> SUBSET Blocks] /\ file \in Nat
  BY <1>1, IdleTidy
<1>3. call'.mode = "record" /\ call'.usage = NoUsage
  BY <1>1, <1>2, BeginFacts
<1>4. TakenMap' = TakenMap
  BY <1>1, <1>2, <1>3 DEF TakenMap, Taken, NoUsage
<1> QED
  BY <1>1, <1>3, <1>4, Modes, QuietTidy

(* What Tidy says before a chunk of the call in progress is found. *)
LEMMA CallTidy ==
  ASSUME FileInv, SinglePage, Counted, InRecord, call.chunks > 0
  PROVE  /\ call \in RecordCalls /\ call.usage = NoUsage /\ call.chunks = 1
         /\ call.pages \in Nat /\ call.pages <= file
         /\ call.left \in 1 .. PageSize /\ Need = call.left
         /\ TakenMap = bits /\ bits \in [PageIds -> SUBSET Blocks] /\ HistTyped(hist)
         /\ file \in 0 .. MaxPages /\ file \in Nat
         /\ CountsTrue(hist, bits, file) /\ (Ends => bits[file - 1] # {})
         /\ call.mode = "record"
<1>1. /\ bits \in [PageIds -> SUBSET Blocks] /\ HistTyped(hist)
      /\ file \in 0 .. MaxPages /\ file \in Nat
  BY SetFacts DEF FileInv, Types, TypeOK, HistTyped
<1>2. call \in RecordCalls
  BY ModeFacts DEF FileInv, Types
<1>3. /\ call.usage = NoUsage /\ call.chunks = 1 /\ call.pages <= file
      /\ call.left = call.len /\ call.spare = PageSize - call.len
  <2>1. call.chunks # 0
    OBVIOUS
  <2> QED
    BY <2>1 DEF FileInv, CallOK
<1>4. call.left \in 1 .. PageSize /\ Need = call.left
  <2>1. call.len \in Lengths
    BY <1>2 DEF RecordCalls
  <2>2. call.len \in Nat \ {0} /\ call.len <= PageSize /\ PageSize \in Nat
    BY <2>1, LengthsAssumption, SizesAssumption DEF SinglePage
  <2> QED
    BY <1>3, <2>2 DEF Need
<1>5. TakenMap = bits
  BY <1>1, <1>3 DEF TakenMap, Taken, NoUsage
<1>6. call.pages \in Nat
  BY <1>2 DEF RecordCalls
<1> QED
  BY <1>1, <1>2, <1>3, <1>4, <1>5, <1>6 DEF Counted, Ends, InRecord

(* The chunk is taken from a page of the file with free space. *)
LEMMA ChunkTidy ==
  ASSUME FileInv, SinglePage, Counted, InRecord, call.chunks > 0,
         NEW id \in 0 .. file - 1, NEW free, free = FreeBytes(bits[id]), free # 0,
         call' = NextChunk(id, free),
         hist' = Moved(hist, id, free, FreeAfter(id, free)),
         UNCHANGED <<file, bits>>
  PROVE  Kept
<1> DEFINE c == NextChunk(id, free)
           u == [p \in PageIds |-> bits[p] \cup c.usage[p]]
<1>1. /\ TakenMap = bits /\ bits \in [PageIds -> SUBSET Blocks] /\ HistTyped(hist)
      /\ file \in 0 .. MaxPages /\ file \in Nat
      /\ CountsTrue(hist, bits, file) /\ (Ends => bits[file - 1] # {})
  BY CallTidy
<1>2. 0 .. file - 1 \subseteq PageIds
  BY <1>1, SetFacts DEF PageIds
<1>3. /\ c \in RecordCalls
      /\ \A p \in PageIds : p # id => c.usage[p] = {}
      /\ FreeAfter(id, free) = FreeBytes(bits[id] \cup c.usage[id])
  BY <1>2, NextChunkFacts
<1>4. call' = c
  OBVIOUS
<1> HIDE DEF c
<1>5. c.usage \in [PageIds -> SUBSET Blocks] /\ c.mode = "record"
  BY <1>3 DEF RecordCalls
<1>6. /\ u[id] = bits[id] \cup c.usage[id]
      /\ \A p \in 0 .. file - 1 : p # id => u[p] = bits[p]
      /\ \A p \in 0 .. file - 1 : bits[p] \subseteq u[p]
  BY <1>2, <1>3
<1>7. TakenMap' = u
  BY <1>4, <1>5 DEF TakenMap, Taken, InRecord
<1> HIDE DEF u
<1>8. hist' = Moved(hist, id, FreeBytes(bits[id]), FreeBytes(u[id]))
  BY <1>3, <1>6
<1>9. CountsTrue(hist', u, file)
  <2>1. CountsTrue(Moved(hist, id, FreeBytes(bits[id]), FreeBytes(u[id])), u, file)
    BY <1>1, <1>6, MovedCounts
  <2> QED
    BY <1>8, <2>1
<1>10. Ends => u[file - 1] # {}
  <2>1. file - 1 \in 0 .. file - 1
    BY <1>1
  <2> QED
    BY <1>1, <1>6, <2>1
<1> QED
  BY <1>4, <1>5, <1>7, <1>9, <1>10, Modes DEF Kept, Counted, Ends

LEMMA ChunkByWitnessTidy ==
  ASSUME FileInv, SinglePage, Counted, ChunkByWitness
  PROVE  Kept
<1> DEFINE id == GetWitness(Need)
           free == FreeBytes(bits[id])
<1>1. /\ InRecord /\ call.chunks > 0
      /\ id \in PageIds
      /\ call' = NextChunk(id, free)
      /\ hist' = Moved(hist, id, free, FreeAfter(id, free))
      /\ UNCHANGED <<file, bits>>
  BY DEF ChunkByWitness
<1>2. TakenMap = bits /\ bits \in [PageIds -> SUBSET Blocks] /\ Need \in 0 .. PageSize
  BY <1>1, CallTidy
<1>3. PICK c \in ClassIds : hist.witness[c] = id /\ hist.witness[c] # NoId
  BY <1>1, <1>2, GetWitnessFacts DEF FileInv
<1>4. id \in 0 .. file - 1 /\ ClassFor(FreeBytes(bits[id])) = c
  BY <1>2, <1>3 DEF FileInv, WitnessTrue, Valid
<1>5. free # 0
  <2>1. bits[id] \in SUBSET Blocks /\ c # 0
    BY <1>1, <1>2, SetFacts
  <2> QED
    BY <1>4, <2>1, ClassOfBlocks
<1> HIDE DEF id
<1> QED
  BY <1>1, <1>4, <1>5, ChunkTidy

LEMMA ChunkByScanTidy ==
  ASSUME FileInv, SinglePage, Counted, ChunkByScan
  PROVE  Kept
<1> DEFINE found == {p \in 0 .. call.pages - 1 : FreeBytes(bits[p]) >= Need}
           id == NextFrom(found, call.pages)
           free == FreeBytes(bits[id])
<1>1. /\ InRecord /\ call.chunks > 0
      /\ IF found = {}
         THEN /\ call' = [call EXCEPT !.chunks = @ - 1]
              /\ UNCHANGED <<hist, lastAcquired>>
         ELSE /\ call' = NextChunk(id, free)
              /\ hist' = Moved(hist, id, free, FreeAfter(id, free))
              /\ lastAcquired' = (id + 1) % call.pages
      /\ UNCHANGED <<file, bits>>
  BY DEF ChunkByScan
<1>2. /\ call \in RecordCalls /\ call.usage = NoUsage
      /\ call.pages \in Nat /\ call.pages <= file
      /\ call.left \in 1 .. PageSize /\ Need = call.left /\ PageSize \in Nat
      /\ TakenMap = bits /\ bits \in [PageIds -> SUBSET Blocks]
      /\ file \in Nat /\ call.mode = "record" /\ lastAcquired \in Nat
  <2>1. PageSize \in Nat /\ lastAcquired \in 0 .. MaxPages
    BY SizesAssumption DEF FileInv, Types, TypeOK
  <2> QED
    BY <1>1, <2>1, SetFacts, CallTidy
<1>3. CASE found = {}
  <2>1. call' = [call EXCEPT !.chunks = @ - 1] /\ UNCHANGED <<file, bits, hist>>
    BY <1>1, <1>3
  <2>2. call'.usage = NoUsage /\ call'.mode = "record"
    BY <1>2, <2>1 DEF RecordCalls
  <2>3. TakenMap' = bits
    BY <1>2, <2>1, <2>2 DEF TakenMap, Taken, NoUsage
  <2> QED
    BY <1>2, <2>1, <2>2, <2>3, QuietTidy
<1>4. CASE found # {}
  <2>1. /\ call' = NextChunk(id, free)
        /\ hist' = Moved(hist, id, free, FreeAfter(id, free))
        /\ UNCHANGED <<file, bits>>
    BY <1>1, <1>4
  <2>2. found \in SUBSET Nat /\ found \subseteq 0 .. call.pages - 1
    BY <1>2
  <2>3. call.pages # 0
    BY <1>2, <1>4, <2>2
  <2>4. id \in found
    <3> HIDE DEF found
    <3> QED
      BY <1>2, <1>4, <2>2, <2>3, NextFromIn
  <2>5. id \in 0 .. call.pages - 1 /\ FreeBytes(bits[id]) >= Need
    BY <2>4
  <2> HIDE DEF id, found
  <2>6. id \in 0 .. file - 1 /\ id \in PageIds
    <3>1. 0 .. file - 1 \subseteq PageIds
      BY SetFacts DEF FileInv, Types, TypeOK, PageIds
    <3> QED
      BY <1>2, <2>5, <3>1
  <2>7. free # 0
    <3>1. FreeBytes(bits[id]) \in 0 .. PageSize
      BY <1>2, <2>6, FreeBytesFacts
    <3> QED
      BY <1>2, <2>5, <3>1
  <2> QED
    BY <1>1, <2>1, <2>6, <2>7, ChunkTidy
<1> QED
  BY <1>3, <1>4

LEMMA FinishRecordTidy ==
  ASSUME FileInv, Counted, FinishRecord, FileInv'
  PROVE  Kept
<1>1. /\ InRecord /\ bits' = [p \in PageIds |-> bits[p] \cup call.usage[p]]
      /\ call' = Idle /\ UNCHANGED <<file, hist>>
  BY DEF FinishRecord
<1>2. TakenMap = bits'
  BY <1>1 DEF TakenMap, Taken
<1>3. TakenMap' = bits'
  <2>1. bits' \in [PageIds -> SUBSET Blocks]
    BY DEF FileInv, Types, TypeOK
  <2> QED
    BY <1>1, <2>1 DEF TakenMap, Taken, InRecord, Idle
<1> QED
  BY <1>1, <1>2, <1>3, Modes, QuietTidy DEF InRecord

(* reserveBlocks takes a block if there is one and any is asked for. *)
LEMMA ReserveSome ==
  ASSUME NEW free \in SUBSET Blocks, free # {}, NEW n \in Nat \ {0}
  PROVE  Reserve(free, n) # {}
<1> DEFINE f == [x \in free |-> x]
<1>1. f \in [free -> Nat]
  BY BlocksFinite
<1>2. PICK b \in free : \A x \in free : f[b] <= f[x]
  <2> HIDE DEF f
  <2> QED
    BY <1>1, LeastExists
<1>3. b \in Nat /\ \A x \in free : x \in Nat /\ b <= x
  BY <1>2, BlocksFinite
<1> HIDE DEF f
<1>4. {x \in free : x < b} = {}
  <2>1. ASSUME NEW x \in free PROVE ~(x < b)
    BY <1>3
  <2> QED
    BY <2>1
<1>5. BlockSize * Cardinality({x \in free : x < b}) = 0
  <2>1. Cardinality({x \in free : x < b}) = 0
    BY <1>4, FS_EmptySet
  <2>2. BlockSize * 0 = 0
    BY SizesAssumption
  <2> QED
    BY <2>1, <2>2
<1> QED
  BY <1>5 DEF Reserve

LEMMA OnlyBetween ==
  ASSUME NEW a \in Nat, NEW b \in Nat, b \in {a + 1, a + 2}, NEW p \in a + 1 .. b - 1
  PROVE  b # a + 1 /\ p = a + 1
OBVIOUS

(* The file grows by a page for the chunk, and by one more when the chain
   needs it. *)
LEMMA ChunkByGrowthTidy ==
  ASSUME FileInv, SinglePage, Counted, ChunkByGrowth, FileInv'
  PROVE  Kept
<1> DEFINE n == file + 1
           s == Settled(n)
           b == WithInfo(bits, s.chain)
           c == NextChunk(file, PageSize)
<1>1. /\ InRecord /\ call.chunks > 0
      /\ IF file = MaxPages
         THEN call' = Idle /\ UNCHANGED <<file, bits, hist>>
         ELSE /\ file' = s.file
              /\ IF s.ok /\ FreeBytes(b[file]) >= Least(call.left, PageSize)
                 THEN /\ chain' = s.chain /\ bits' = b /\ call' = c
                      /\ hist' = Learn(hist, file, FreeAfter(file, PageSize))
                 ELSE call' \in {Broken, Hung}
  BY DEF ChunkByGrowth, Stop
<1>2. /\ call \in RecordCalls /\ call.usage = NoUsage
      /\ call.left \in 1 .. PageSize /\ Need = call.left
      /\ TakenMap = bits /\ bits \in [PageIds -> SUBSET Blocks] /\ HistTyped(hist)
      /\ file \in Nat /\ file <= MaxPages /\ MaxPages \in Nat /\ PageSize \in Nat \ {0}
      /\ CountsTrue(hist, bits, file) /\ (Ends => bits[file - 1] # {})
      /\ call.mode = "record"
  BY <1>1, CallTidy, SetFacts, SizesAssumption
<1>3. CASE file = MaxPages
  <2>1. call' = Idle /\ UNCHANGED <<file, bits, hist>>
    BY <1>1, <1>3
  <2>2. TakenMap' = bits
    BY <1>2, <2>1 DEF TakenMap, Taken, InRecord, Idle
  <2> QED
    BY <1>2, <2>1, <2>2, Modes, QuietTidy
<1>4. CASE file # MaxPages /\ ~(s.ok /\ FreeBytes(b[file]) >= Least(call.left, PageSize))
  <2>1. call' \in {Broken, Hung}
    BY <1>1, <1>4
  <2> QED
    BY <2>1, Modes DEF Kept, Counted, Ends
<1>5. CASE file # MaxPages /\ s.ok /\ FreeBytes(b[file]) >= Least(call.left, PageSize)
  <2>1. /\ Types /\ OwnersDisjoint /\ OwnedAreUsed /\ Lost /\ ChainFits
        /\ call \notin {Hung, Broken} /\ chain \in Seq(PageIds)
    BY <1>1, ModeFacts DEF FileInv, Types, TypeOK
  <2>2. n \in {file, file + 1} /\ n <= MaxPages /\ n \in Nat /\ file \in PageIds
    BY <1>2, <1>5 DEF PageIds
  <2>3. \/ s.file = n /\ s.chain = chain
        \/ s.file = n + 1 /\ s.chain = Append(chain, n) /\ n \in PageIds
    BY <1>5, <2>1, <2>2, SettledCases
  <2>5. \A k \in DOMAIN s.chain : s.chain[k] \in ChainPages \/ (s.chain[k] = n /\ n \in PageIds)
    <3>1. CASE s.chain = chain
      BY <3>1 DEF ChainPages
    <3>2. CASE n \in PageIds /\ s.chain = Append(chain, n)
      BY <2>1, <3>2 DEF ChainPages
    <3> QED
      BY <2>3, <3>1, <3>2
  <2>6. \A p \in PageIds : b[p] = IF \E k \in DOMAIN s.chain : s.chain[k] = p
                                  THEN Blocks ELSE bits[p]
    BY DEF WithInfo
  <2> HIDE DEF s, b
  (* The pages below the new one and the new one keep their bits. *)
  <2>7. ASSUME NEW p \in 0 .. file
        PROVE  b[p] = bits[p] /\ p \in PageIds
    <3>1. p \in PageIds /\ p # n /\ n = file + 1
      BY <1>2, <2>2 DEF PageIds
    <3>2. p \in ChainPages => bits[p] = Blocks
      BY <2>1, <3>1 DEF OwnedAreUsed
    <3> HIDE DEF n
    <3> QED
      BY <2>5, <2>6, <3>1, <3>2
  <2>8. file \in 0 .. file /\ b[file] = bits[file]
    BY <1>2, <2>7
  <2>9. bits[file] = {} /\ FreeBytes(bits[file]) = PageSize /\ PageSize # 0
    <3>1. bits[file] \in {{}, Blocks} /\ bits[file] \in SUBSET Blocks
      BY <1>2, <2>1, <2>2 DEF Lost
    <3>2. Least(call.left, PageSize) > 0
      BY <1>2 DEF Least
    <3>3. FreeBytes(bits[file]) # 0
      <4>1. Least(call.left, PageSize) \in Nat
        BY <1>2 DEF Least
      <4> QED
        BY <1>5, <2>8, <3>2, <4>1
    <3>4. bits[file] # Blocks
      BY <3>3, FreeBytesFacts, <3>1
    <3> QED
      BY <1>2, <3>1, <3>4, FreeBytesFacts
  <2>10. /\ file' = s.file /\ chain' = s.chain /\ bits' = b /\ call' = c
         /\ hist' = Learn(hist, file, FreeAfter(file, PageSize))
    BY <1>1, <1>5
  <2>11. /\ c \in RecordCalls
         /\ \A p \in PageIds : p # file => c.usage[p] = {}
         /\ FreeAfter(file, PageSize) = FreeBytes(bits[file] \cup c.usage[file])
    BY <1>1, <2>2, <2>9, NextChunkFacts
  <2>12. c.usage[file] # {}
    <3> DEFINE R == Reserve(Blocks \ bits[file], Least(call.left, PageSize))
    <3>1. c.usage = [NoUsage EXCEPT ![file] = @ \cup R]
      BY <1>2 DEF NextChunk, RecordCalls
    <3>2. R # {}
      <4>1. Blocks \ bits[file] \in SUBSET Blocks /\ Blocks \ bits[file] # {}
        BY <2>9, BlocksFinite
      <4>2. Least(call.left, PageSize) \in Nat \ {0}
        BY <1>2 DEF Least
      <4> QED
        BY <4>1, <4>2, ReserveSome
    <3> HIDE DEF R, c
    <3> QED
      BY <2>2, <3>1, <3>2 DEF NoUsage
  <2> HIDE DEF c
  <2>13. c.usage \in [PageIds -> SUBSET Blocks] /\ c.mode = "record"
    BY <2>11 DEF RecordCalls
  <2> DEFINE u == [p \in PageIds |-> b[p] \cup c.usage[p]]
  <2>14. TakenMap' = u
    BY <2>10, <2>13 DEF TakenMap, Taken, InRecord
  <2>15. \A p \in PageIds : u[p] = b[p] \cup c.usage[p]
    OBVIOUS
  <2> HIDE DEF u
  <2>16. \A p \in 0 .. file - 1 : u[p] = bits[p]
    <3>1. \A p \in 0 .. file - 1 : p \in 0 .. file /\ p # file
      BY <1>2
    <3> QED
      BY <2>7, <2>11, <2>15, <3>1
  <2>17. u[file] = bits[file] \cup c.usage[file]
    BY <2>2, <2>8, <2>15
  <2>18. file' \in Nat /\ file < file' /\ (file' = n \/ file' = n + 1)
    BY <1>2, <2>3, <2>10
  <2>19. file' # n => /\ n \in PageIds /\ u[n] = Blocks /\ file' - 1 = n
    <3>1. SUFFICES ASSUME file' = n + 1, s.chain = Append(chain, n), n \in PageIds
                   PROVE  u[n] = Blocks /\ file' - 1 = n
      BY <2>3, <2>10, <2>18
    <3>2. b[n] = Blocks
      <4>1. Len(chain) + 1 \in DOMAIN s.chain /\ s.chain[Len(chain) + 1] = n
        BY <2>1, <3>1
      <4> QED
        BY <2>6, <3>1, <4>1
    <3>3. c.usage[n] \in SUBSET Blocks
      BY <2>13, <3>1
    <3>4. u[n] = b[n] \cup c.usage[n]
      BY <2>15, <3>1
    <3>5. n \in Nat
      BY <2>2
    <3> HIDE DEF n
    <3>6. file' - 1 = n
      BY <3>1, <3>5
    <3> QED
      BY <3>2, <3>3, <3>4, <3>6
  <2>20. \A p \in file + 1 .. file' - 1 : u[p] = Blocks
    <3>1. SUFFICES ASSUME NEW p \in file + 1 .. file' - 1 PROVE u[p] = Blocks
      OBVIOUS
    <3>2. file \in Nat /\ file' \in Nat /\ file' \in {file + 1, file + 2}
      <4>1. file \in Nat
        BY <1>2
      <4> QED
        BY <2>18, <4>1
    <3>3. file' # file + 1 /\ p = file + 1
      BY <3>2, OnlyBetween
    <3> QED
      BY <2>19, <3>3
  <2>21. CountsTrue(hist', u, file')
    <3>1. CountsTrue(Learn(hist, file, FreeBytes(u[file])), u, file')
      BY <1>2, <2>16, <2>18, <2>20, LearnCounts
    <3> QED
      BY <2>10, <2>11, <2>17, <3>1
  <2>22. u[file' - 1] # {}
    <3>1. CASE file' = n
      <4>1. file' - 1 = file
        BY <1>2, <3>1
      <4> QED
        BY <2>12, <2>17, <4>1
    <3>2. CASE file' # n
      BY <2>19, <3>2, BlocksFinite
    <3> QED
      BY <3>1, <3>2
  <2> QED
    BY <2>10, <2>13, <2>14, <2>21, <2>22 DEF Kept, Counted, Ends
<1> QED
  BY <1>3, <1>4, <1>5

LEMMA NextCounted == FileInv /\ FileInv' /\ SinglePage /\ Counted /\ [Next]_vars => Kept
<1> SUFFICES ASSUME FileInv, FileInv', SinglePage, Counted, [Next]_vars PROVE Kept
  OBVIOUS
<1>1. CASE AcquirePage
  BY <1>1, AcquirePageTidy
<1>2. CASE \E p \in PageIds : ReleasePage(p)
  BY <1>2, ReleasePageTidy
<1>3. CASE \E r \in Records, l \in Lengths : StartRecord(r, l)
  BY <1>3, StartRecordTidy
<1>4. CASE ChunkByWitness \/ ChunkByScan \/ ChunkByGrowth
  BY <1>4, ChunkByWitnessTidy, ChunkByScanTidy, ChunkByGrowthTidy
<1>5. CASE FinishRecord
  BY <1>5, FinishRecordTidy
<1>6. ASSUME NEW r \in Records, ReleaseRecord(r)
      PROVE  Kept
  <2>1. call' = Idle
    BY <1>6 DEF ReleaseRecord, DropRecord
  <2> QED
    BY <1>6, <2>1, DropRecordTidy DEF ReleaseRecord
<1>7. ASSUME NEW r \in Records, NEW l \in Lengths, ReacquireRecord(r, l)
      PROVE  Kept
  BY <1>7, DropRecordTidy DEF ReacquireRecord
<1>8. CASE UNCHANGED <<file, bits, hist, call>>
  <2>1. TakenMap' = TakenMap
    BY <1>8 DEF TakenMap, Taken, InRecord
  <2> QED
    BY <1>8, <2>1 DEF Kept, Counted, Ends
<1> QED
  BY <1>1, <1>2, <1>3, <1>4, <1>5, <1>6, <1>7, <1>8 DEF Next, Commit, vars

LEMMA ChunkMode ==
  ASSUME call \in RecordCalls, NEW id, NEW free
  PROVE  /\ NextChunk(id, free).mode = "record"
         /\ [call EXCEPT !.chunks = @ - 1].mode = "record"
  BY DEF NextChunk, RecordCalls

(* A scan finds what the counts have promised, and a new page that is empty has
   room: no call is broken off but for a page beyond the end of the file that is
   not empty. *)
LEMMA NextDamage ==
  ASSUME FileInv, Counted, call.mode # "broken", [Next]_vars,
         ~(InRecord /\ file # MaxPages /\ bits[file] # {})
  PROVE  call'.mode # "broken"
<1>1. CASE call' \in {call, Idle, Hung} \/ call'.mode = "record"
  BY <1>1, Modes
<1>2. CASE AcquirePage
  <2>1. CASE PageByScan
    <3>1. EmptyPages(file) # {}
      BY <2>1, ScanFinds
    <3> QED
      BY <1>1, <2>1, <3>1 DEF PageByScan, GivePage, Stop
  <2> QED
    BY <1>1, <1>2, <2>1 DEF AcquirePage, PageByWitness, PageByGrowth, GivePage, Stop
<1>3. CASE (\E p \in PageIds : ReleasePage(p)) \/ (\E r \in Records : ReleaseRecord(r))
           \/ FinishRecord \/ Commit \/ UNCHANGED vars
  BY <1>1, <1>3 DEF ReleasePage, ReleaseRecord, DropRecord, FinishRecord, Commit, vars
<1>4. CASE \E r \in Records, l \in Lengths : StartRecord(r, l) \/ ReacquireRecord(r, l)
  BY <1>1, <1>4 DEF StartRecord, ReacquireRecord, Begin
<1>5. CASE ChunkByWitness \/ ChunkByScan
  <2>1. call \in RecordCalls /\ call.mode = "record"
    BY <1>5, ModeFacts DEF ChunkByWitness, ChunkByScan, FileInv, Types, InRecord
  <2>2. \/ call' = [call EXCEPT !.chunks = @ - 1]
        \/ \E id, free : call' = NextChunk(id, free)
    BY <1>5 DEF ChunkByWitness, ChunkByScan
  <2>3. call'.mode = "record"
    BY <2>1, <2>2, ChunkMode
  <2> QED
    BY <1>1, <2>3
<1>6. CASE ChunkByGrowth
  <2>1. CASE file # MaxPages /\ Settled(file + 1).ok
    <3>0. bits[file] = {}
      BY <1>6, <2>1 DEF ChunkByGrowth
    <3>1. call' = NextChunk(file, PageSize)
      BY <1>6, <2>1, <3>0, GrowthRoom DEF ChunkByGrowth
    <3>2. call \in RecordCalls /\ call.mode = "record"
      BY <1>6, ModeFacts DEF ChunkByGrowth, FileInv, Types, InRecord
    <3>3. call'.mode = "record"
      BY <3>1, <3>2, ChunkMode
    <3> QED
      BY <1>1, <3>3
  <2> QED
    BY <1>1, <1>6, <2>1 DEF ChunkByGrowth, Stop
<1> QED
  BY <1>2, <1>3, <1>4, <1>5, <1>6 DEF Next

(* In a session that has started with createStructure none is. *)
LEMMA NextSound ==
  IInv /\ Counted /\ call.mode # "broken" /\ [Next]_vars => call'.mode # "broken"
  BY NextDamage, NewPageEmpty DEF IInv

LEMMA NextTidy == IInv /\ IInv' /\ SinglePage /\ Tidy /\ [Next]_vars => Tidy'
BY NextCounted, NextSound DEF IInv, Tidy, Kept

LEMMA Parts ==
  /\ IInv => FileInv /\ Fresh /\ Tight
  /\ Tidy => Counted /\ Ends
BY DEF IInv, Tidy

-----------------------------------------------------------------------------
(* Growth.                                                                   *)

(* The step of GrowsOnlyWhenNeeded. *)
Needed ==
  file' > file =>
    \A p \in 0 .. file - 1 :
      ClassFor(FreeBytes(Taken(p))) < FirstClass(IF InRecord THEN Need ELSE PageSize)

(* A page given out without growth leaves the file its length. *)
LEMMA KeptFile ==
  ASSUME IInv, call = Idle, NEW id, NEW h, GivePage(id, file, h)
  PROVE  file' = file
<1>1. file < Cover(chain)
  BY ModeFacts DEF IInv, Tight
<1> QED
  BY <1>1 DEF GivePage, Settled

LEMMA NextNeeded == IInv /\ SinglePage /\ Tidy /\ [Next]_vars => Needed
<1> SUFFICES ASSUME IInv, SinglePage, Tidy, [Next]_vars PROVE Needed
  OBVIOUS
<1>1. file \in Nat /\ file \in 0 .. MaxPages
  BY SetFacts DEF IInv, FileInv, Types, TypeOK
<1>2. CASE file' = file
  BY <1>1, <1>2 DEF Needed
<1>3. CASE PageByWitness \/ PageByScan
  <2>1. file' = file
    BY <1>3, KeptFile DEF PageByWitness, PageByScan
  <2> QED
    BY <1>2, <2>1
<1>4. CASE PageByGrowth
  <2>1. call = Idle /\ GetWitness(PageSize) = NoPage
    BY <1>4 DEF PageByGrowth
  <2>2. CountsTrue(hist, TakenMap, file) /\ ~InRecord
    BY <2>1, ModeFacts, Modes DEF Tidy, Counted, Ends
  <2>3. PageSize \in 0 .. PageSize
    BY SizesAssumption
  <2> QED
    BY <2>1, <2>2, <2>3, SearchMeans, Parts DEF Needed
<1>5. CASE \E b \in [PageIds -> SUBSET Blocks] : file' = file - Cardinality(EmptyTail(b, file))
  <2>1. PICK b \in [PageIds -> SUBSET Blocks] : file' = file - Cardinality(EmptyTail(b, file))
    BY <1>5
  <2>2. Cardinality(EmptyTail(b, file)) \in 0 .. file
    BY <1>1, TailFacts
  <2> QED
    BY <1>1, <2>1, <2>2 DEF Needed
<1>6. ASSUME NEW p \in PageIds, ReleasePage(p)
      PROVE  Needed
  <2> DEFINE b == [bits EXCEPT ![p] = {}]
  <2>1. file' = file - Cardinality(EmptyTail(b, file))
    BY <1>6 DEF ReleasePage
  <2>2. b \in [PageIds -> SUBSET Blocks]
    BY DEF IInv, FileInv, Types, TypeOK
  <2> HIDE DEF b
  <2> QED
    BY <1>5, <2>1, <2>2
<1>7. ASSUME NEW r \in Records, DropRecord(r)
      PROVE  Needed
  <2> DEFINE b == [p \in PageIds |-> bits[p] \ usage[r][p]]
  <2>1. file' = file - Cardinality(EmptyTail(b, file))
    BY <1>7 DEF DropRecord
  <2>2. b \in [PageIds -> SUBSET Blocks]
    BY DEF IInv, FileInv, Types, TypeOK
  <2> HIDE DEF b
  <2> QED
    BY <1>5, <2>1, <2>2
<1>8. CASE ChunkByGrowth
  <2>1. InRecord /\ call.chunks > 0 /\ GetWitness(Need) = NoPage
    BY <1>8 DEF ChunkByGrowth
  <2>2. Need \in 0 .. PageSize /\ CountsTrue(hist, TakenMap, file)
    BY <2>1, CallTidy, Parts DEF Tidy, Counted, Ends
  <2> QED
    BY <2>1, <2>2, SearchMeans, Parts DEF Needed
<1> QED
  BY <1>2, <1>3, <1>4, <1>6, <1>7, <1>8
  DEF Next, AcquirePage, StartRecord, ChunkByWitness, ChunkByScan, FinishRecord,
      ReleaseRecord, ReacquireRecord, Commit, vars

-----------------------------------------------------------------------------
(* The theorems.                                                             *)

(* In every reachable state the counts of the histogram agree with the
   bitmaps, and the last page of the file is in use. *)
THEOREM TidyInvariance == ASSUME SinglePage PROVE Spec => []Tidy
<1>1. Init => Tidy
  BY InitTidy
<1>2. IInv /\ IInv' /\ Tidy /\ [Next]_vars => Tidy'
  BY NextTidy
<1> QED
  BY <1>1, <1>2, Invariance, PTL DEF Spec

LEMMA CountedMeans == FileInv /\ Counted => HistogramTrue
<1> SUFFICES ASSUME FileInv, Counted, call.mode \in {"idle", "record"}, NEW c \in ClassIds
             PROVE  /\ hist.counts[c] = Cardinality(InClass(c))
                    /\ hist.witness[c] # NoId => hist.witness[c] \in InClass(c)
  BY DEF HistogramTrue
<1>1. 0 .. file - 1 \subseteq PageIds
  BY SetFacts DEF FileInv, Types, TypeOK, PageIds
<1>2. \A p \in 0 .. file - 1 : TakenMap[p] = Taken(p)
  BY <1>1 DEF TakenMap
<1>3. Members(TakenMap, file, c) = InClass(c)
  BY <1>2 DEF Members, InClass
<1>4. CountsTrue(hist, TakenMap, file) /\ Valid(hist, TakenMap, file)
  BY DEF FileInv, WitnessTrue, Counted
<1> QED
  BY <1>3, <1>4 DEF CountsTrue, Valid, Members

(* updateHistogram is called, with the right numbers, on every path that
   changes a page: each count is the number of pages of its class and each
   witness is one of them. *)
THEOREM TrueHistogram == ASSUME SinglePage PROVE Spec => []HistogramTrue
<1>1. IInv /\ Tidy => HistogramTrue
  BY CountedMeans, Parts
<1> QED
  BY <1>1, Invariance, TidyInvariance, PTL

(* Between calls the file ends with a page in use: what acquireRecord reserves
   in a page it has added is never empty, and a call that fails adds none. *)
THEOREM Trimmed == ASSUME SinglePage PROVE Spec => []FileTrimmed
<1>1. IInv /\ Tidy => FileTrimmed
  BY IdleTidy, Parts DEF FileTrimmed
<1> QED
  BY <1>1, Invariance, TidyInvariance, PTL

(* acquirePage never goes on with page -1, and a page the file has grown by
   always has room for the chunk. *)
THEOREM NoDamage == ASSUME SinglePage PROVE Spec => []NoHeapDamage
<1>1. Tidy => NoHeapDamage
  BY DEF Tidy, Counted, Ends, NoHeapDamage
<1> QED
  BY <1>1, TidyInvariance, PTL

(* Neither acquirePage nor acquireRecord adds a page while one of the classes
   it searches still has one. *)
THEOREM GrowthNeeded == ASSUME SinglePage PROVE Spec => GrowsOnlyWhenNeeded
<1>1. IInv /\ Tidy /\ [Next]_vars => [Needed]_vars
  BY NextNeeded
<1> QED
  BY <1>1, Invariance, TidyInvariance, PTL DEF Spec, GrowsOnlyWhenNeeded, Needed

-----------------------------------------------------------------------------
(* The length of a record: acquireRecord gives it the blocks its length needs, *)
(* whatever page it takes them from and whatever holes that page has.          *)

(* The blocks u of a call or a record lie on one page and are as many as a
   record of l bytes needs. *)
BlocksFor(l) == (l + BlockSize - 1) \div BlockSize

Exact(u, l) ==
  \E p \in PageIds : /\ \A q \in PageIds : q # p => u[q] = {}
                     /\ Cardinality(u[p]) = BlocksFor(l)

(* Live records are exact, and so is the one acquireRecord is about to finish;
   until it has its chunk, the scan would cover the whole file. *)
LengthsMet ==
  /\ \A r \in Records : len[r] > 0 => Exact(usage[r], len[r])
  /\ InRecord => /\ call.chunks > 0 => call.pages = file
                 /\ call.chunks = 0 => Exact(call.usage, call.len)

-----------------------------------------------------------------------------
(* Counting.                                                                 *)

(* reserveBlocks takes as many blocks as the bytes need, if there are enough. *)
LEMMA ReserveCount ==
  ASSUME NEW free \in SUBSET Blocks, NEW l \in Nat \ {0},
         l <= BlockSize * Cardinality(free)
  PROVE  Cardinality(Reserve(free, l)) = BlocksFor(l)
<1>1. BlockSize \in Nat \ {0} /\ free \in SUBSET Nat /\ IsFiniteSet(free) /\ l \in Nat
  BY BlocksFinite, FS_Subset, SizesAssumption
<1>2. Reserve(free, l) = {b \in free : BlockSize * Cardinality(Below(free, b)) < l}
  BY DEF Reserve, Below
<1> QED
  BY <1>1, <1>2, TakeCount DEF BlocksFor

(* A page of a class that a search for need bytes covers has need bytes. *)
LEMMA ClassEnough ==
  ASSUME NEW f \in 0 .. PageSize, NEW need \in 0 .. PageSize,
         ClassFor(f) >= FirstClass(need)
  PROVE  f >= need
<1>1. /\ ClassFor(f) \in 0 .. Classes /\ (ClassFor(f) = Classes <=> f = PageSize)
      /\ ClassFor(need) \in 0 .. Classes /\ Classes \in Nat /\ PageSize \in Nat
  BY ClassForFacts, SizesAssumption
<1>2. CASE ClassFor(need) = Classes
  <2>1. ClassFor(f) >= Classes
    BY <1>2 DEF FirstClass
  <2> QED
    BY <1>1, <2>1
<1>3. CASE ClassFor(need) # Classes
  <2> DEFINE a == ClassFor(need)
             b == ClassFor(f)
  <2>1. a \in Nat /\ b \in Nat /\ a + 1 <= b /\ ClassSize \in Nat \ {0}
    BY <1>1, <1>3, SizeFacts DEF FirstClass
  <2>2. need < ClassSize * a + ClassSize /\ ClassSize * b <= f /\ f \in Nat /\ need \in Nat
    BY <1>1, <2>1, DivFacts DEF ClassFor
  <2> HIDE DEF a, b
  <2>3. ClassSize * (a + 1) <= ClassSize * b
    BY <2>1, TimesMonotone
  <2>4. ClassSize * (a + 1) = ClassSize * a + ClassSize
    BY <2>1
  <2>5. ClassSize * a \in Nat /\ ClassSize * b \in Nat
    BY <2>1
  <2> QED
    BY <2>1, <2>2, <2>3, <2>4, <2>5
<1> QED
  BY <1>2, <1>3

-----------------------------------------------------------------------------
(* The steps.                                                                *)

LEMMA InitLengths == Init => LengthsMet
BY Modes DEF Init, LengthsMet, InRecord

(* Nobody's blocks change, and no call is in progress afterwards. *)
LEMMA QuietLengths ==
  ASSUME LengthsMet, UNCHANGED <<usage, len>>, call'.mode # "record"
  PROVE  LengthsMet'
BY DEF LengthsMet, InRecord

(* A call begins. *)
LEMMA BeginLengths ==
  ASSUME SinglePage, file' \in Nat,
         \A r \in Records : len'[r] > 0 => Exact(usage'[r], len'[r]),
         NEW r \in Records, NEW l \in Lengths, call' = Begin(r, l, file')
  PROVE  LengthsMet'
<1>1. call'.chunks = 1 /\ call'.pages = file'
  BY BeginFacts
<1> QED
  BY <1>1 DEF LengthsMet

LEMMA StartLengths ==
  ASSUME IInv, SinglePage, LengthsMet, NEW r \in Records, NEW l \in Lengths, StartRecord(r, l)
  PROVE  LengthsMet'
<1>1. call' = Begin(r, l, file') /\ UNCHANGED <<file, usage, len>>
  BY DEF StartRecord
<1>2. file' \in Nat
  BY <1>1, SetFacts DEF IInv, FileInv, Types, TypeOK
<1>3. \A q \in Records : len'[q] > 0 => Exact(usage'[q], len'[q])
  BY <1>1 DEF LengthsMet
<1> QED
  BY <1>1, <1>2, <1>3, BeginLengths

(* A page with room for the whole record gives it all it needs. *)
LEMMA ChunkExact ==
  ASSUME IInv, SinglePage, Tidy, InRecord, call.chunks > 0,
         NEW id \in PageIds, NEW free, free = FreeBytes(bits[id]), free >= call.left
  PROVE  LET c == NextChunk(id, free) IN
         /\ c.chunks = 0 /\ c.mode = "record"
         /\ Exact(c.usage, c.len)
<1> DEFINE c == NextChunk(id, free)
           R == Reserve(Blocks \ bits[id], call.left)
<1>1. /\ call \in RecordCalls /\ call.usage = NoUsage /\ call.chunks = 1
      /\ call.left \in 1 .. PageSize /\ bits \in [PageIds -> SUBSET Blocks]
  BY CallTidy, Parts
<1>2. call.len = call.left
  <2>1. call.chunks # 0
    BY <1>1
  <2> QED
    BY <2>1 DEF IInv, FileInv, CallOK
<1>3. bits[id] \in SUBSET Blocks /\ PageSize \in Nat /\ call.left \in Nat \ {0}
  BY <1>1, SizesAssumption
<1>4. free \in 0 .. PageSize
  BY <1>3, FreeBytesFacts
<1>5. Least(call.left, free) = call.left
  BY <1>3, <1>4 DEF Least
<1>6. c = [call EXCEPT !.chunks = @ - 1, !.left = @ - call.left,
                       !.spare = @ - (PageSize - call.left),
                       !.usage = [call.usage EXCEPT ![id] = @ \cup R]]
  BY <1>5 DEF NextChunk
<1>7. Cardinality(R) = BlocksFor(call.left)
  <2>1. call.left <= BlockSize * Cardinality(Blocks \ bits[id])
    BY DEF FreeBytes
  <2>2. Blocks \ bits[id] \in SUBSET Blocks
    OBVIOUS
  <2> QED
    BY <1>3, <2>1, <2>2, ReserveCount
<1> HIDE DEF c, R
<1>8. DOMAIN call = {"mode", "rec", "len", "left", "chunks", "spare", "pages", "usage"}
      /\ call.mode = "record"
  BY <1>1 DEF RecordCalls
<1>9. /\ c.chunks = 0 /\ c.mode = "record" /\ c.len = call.left
      /\ c.usage = [NoUsage EXCEPT ![id] = @ \cup R]
  BY <1>1, <1>2, <1>6, <1>8
<1>10. c.usage[id] = R /\ \A q \in PageIds : q # id => c.usage[q] = {}
  BY <1>9 DEF NoUsage
<1>11. Exact(c.usage, c.len)
  BY <1>7, <1>9, <1>10 DEF Exact
<1> QED
  BY <1>9, <1>11 DEF c

LEMMA ChunkLengths ==
  ASSUME IInv, SinglePage, Tidy, LengthsMet, InRecord, call.chunks > 0,
         NEW id \in PageIds, NEW free, free = FreeBytes(bits[id]), free >= call.left,
         call' = NextChunk(id, free), UNCHANGED <<usage, len>>
  PROVE  LengthsMet'
<1>1. call'.chunks = 0 /\ Exact(call'.usage, call'.len)
  BY ChunkExact, Parts
<1> QED
  BY <1>1 DEF LengthsMet

LEMMA ChunkByWitnessLengths ==
  ASSUME IInv, SinglePage, Tidy, LengthsMet, ChunkByWitness
  PROVE  LengthsMet'
<1> DEFINE id == GetWitness(Need)
           free == FreeBytes(bits[id])
<1>1. /\ InRecord /\ call.chunks > 0 /\ id \in PageIds
      /\ call' = NextChunk(id, free) /\ UNCHANGED <<usage, len>>
  BY DEF ChunkByWitness
<1>2. /\ TakenMap = bits /\ bits \in [PageIds -> SUBSET Blocks]
      /\ Need \in 0 .. PageSize /\ Need = call.left
  BY <1>1, CallTidy, Parts
<1>3. PICK c \in ClassIds : /\ c \in FirstClass(Need) .. Classes
                            /\ hist.witness[c] = id /\ hist.witness[c] # NoId
  BY <1>1, <1>2, GetWitnessFacts DEF IInv, FileInv
<1>4. ClassFor(FreeBytes(bits[id])) = c
  BY <1>2, <1>3 DEF IInv, FileInv, WitnessTrue, Valid
<1>5. FreeBytes(bits[id]) \in 0 .. PageSize
  <2>1. bits[id] \in SUBSET Blocks
    BY <1>1, <1>2
  <2> QED
    BY <2>1, FreeBytesFacts
<1>6. free >= call.left
  <2>1. c >= FirstClass(Need)
    BY <1>3
  <2> QED
    BY <1>2, <1>4, <1>5, <2>1, ClassEnough
<1> HIDE DEF id
<1> QED
  BY <1>1, <1>6, ChunkLengths

(* The scan covers the whole file, and the counts say that it holds a page of
   the classes searched: no chunk is skipped. *)
LEMMA ChunkByScanLengths ==
  ASSUME IInv, SinglePage, Tidy, LengthsMet, ChunkByScan
  PROVE  LengthsMet'
<1> DEFINE found == {p \in 0 .. call.pages - 1 : FreeBytes(bits[p]) >= Need}
           id == NextFrom(found, call.pages)
           free == FreeBytes(bits[id])
<1>1. /\ InRecord /\ call.chunks > 0 /\ GetWitness(Need) = NoWitness
      /\ found # {} => call' = NextChunk(id, free)
      /\ UNCHANGED <<usage, len>>
  BY DEF ChunkByScan
<1>2. /\ call.pages \in Nat /\ Need \in 0 .. PageSize /\ Need = call.left
      /\ TakenMap = bits /\ bits \in [PageIds -> SUBSET Blocks]
      /\ file \in Nat /\ CountsTrue(hist, TakenMap, file)
  BY <1>1, CallTidy, Parts
<1>3. call.pages = file
  BY <1>1 DEF LengthsMet
<1>4. 0 .. file - 1 \subseteq PageIds /\ lastAcquired \in Nat
  BY SetFacts DEF IInv, FileInv, Types, TypeOK, PageIds
<1>5. PICK p \in 0 .. file - 1 : ClassFor(FreeBytes(Taken(p))) >= FirstClass(Need)
  BY <1>1, <1>2, SearchMeans, Parts
<1>6. p \in found
  <2>1. p \in PageIds /\ TakenMap[p] = Taken(p) /\ bits[p] \in SUBSET Blocks
    BY <1>2, <1>4 DEF TakenMap
  <2>2. FreeBytes(bits[p]) \in 0 .. PageSize
    BY <2>1, FreeBytesFacts
  <2>3. FreeBytes(bits[p]) >= Need
    BY <1>2, <1>5, <2>1, <2>2, ClassEnough
  <2> QED
    BY <1>3, <2>3
<1>7. found \in SUBSET Nat /\ found \subseteq 0 .. call.pages - 1 /\ call.pages # 0
  BY <1>2, <1>6
<1>8. id \in found
  <2> HIDE DEF found
  <2> QED
    BY <1>2, <1>4, <1>6, <1>7, NextFromIn
<1>9. id \in PageIds /\ free >= call.left
  BY <1>2, <1>3, <1>4, <1>8
<1>10. call' = NextChunk(id, free)
  BY <1>1, <1>6
<1> HIDE DEF id, found
<1> QED
  BY <1>1, <1>9, <1>10, ChunkLengths

LEMMA ChunkByGrowthLengths ==
  ASSUME IInv, SinglePage, Tidy, LengthsMet, ChunkByGrowth
  PROVE  LengthsMet'
<1>1. /\ InRecord /\ call.chunks > 0 /\ UNCHANGED <<usage, len>>
      /\ \/ call' \in {Idle, Hung, Broken}
         \/ file # MaxPages /\ call' = NextChunk(file, PageSize)
  BY DEF ChunkByGrowth, Stop
<1>2. CASE call' \in {Idle, Hung, Broken}
  BY <1>1, <1>2, Modes, QuietLengths
<1>3. CASE file # MaxPages /\ call' = NextChunk(file, PageSize)
  <2>1. /\ file \in Nat /\ file \in 0 .. MaxPages /\ MaxPages \in Nat
        /\ bits \in [PageIds -> SUBSET Blocks] /\ call.left \in 1 .. PageSize
        /\ PageSize \in Nat
    BY <1>1, CallTidy, Parts, SetFacts, SizesAssumption
  <2>2. file \in PageIds
    BY <1>3, <2>1 DEF PageIds
  <2>3. bits[file] = {} /\ bits[file] \in SUBSET Blocks
    BY <2>1, <2>2 DEF IInv, FileInv, Fresh, Types, TypeOK
  <2>4. FreeBytes(bits[file]) = PageSize
    BY <2>3, FreeBytesFacts
  <2>5. PageSize >= call.left
    BY <2>1
  <2> QED
    BY <1>1, <1>3, <2>2, <2>4, <2>5, ChunkLengths
<1> QED
  BY <1>1, <1>2, <1>3

LEMMA FinishLengths ==
  ASSUME IInv, LengthsMet, FinishRecord
  PROVE  LengthsMet'
<1>1. /\ InRecord /\ call.chunks = 0 /\ call' = Idle
      /\ usage' = [usage EXCEPT ![call.rec] = call.usage]
      /\ len' = [len EXCEPT ![call.rec] = call.len]
  BY DEF FinishRecord
<1>2. DOMAIN usage = Records /\ DOMAIN len = Records
  BY DEF IInv, FileInv, Types, TypeOK
<1>3. ASSUME NEW r \in Records, len'[r] > 0
      PROVE  Exact(usage'[r], len'[r])
  <2>1. CASE r = call.rec
    <3>1. usage'[r] = call.usage /\ len'[r] = call.len
      BY <1>1, <1>2, <2>1
    <3> QED
      BY <1>1, <3>1 DEF LengthsMet
  <2>2. CASE r # call.rec
    <3>1. usage'[r] = usage[r] /\ len'[r] = len[r]
      BY <1>1, <1>2, <2>2
    <3> QED
      BY <1>3, <3>1 DEF LengthsMet
  <2> QED
    BY <2>1, <2>2
<1> QED
  BY <1>1, <1>3, Modes DEF LengthsMet, InRecord

LEMMA DropLengths ==
  ASSUME IInv, SinglePage, LengthsMet, NEW r \in Records, DropRecord(r), IInv',
         len' = [len EXCEPT ![r] = 0],
         call' = Idle \/ \E l \in Lengths : call' = Begin(r, l, file')
  PROVE  LengthsMet'
<1>1. usage' = [usage EXCEPT ![r] = NoUsage]
  BY DEF DropRecord
<1>2. DOMAIN usage = Records /\ DOMAIN len = Records
  BY DEF IInv, FileInv, Types, TypeOK
<1>3. ASSUME NEW q \in Records, len'[q] > 0
      PROVE  Exact(usage'[q], len'[q])
  <2>1. q # r
    BY <1>2, <1>3
  <2>2. usage'[q] = usage[q] /\ len'[q] = len[q]
    BY <1>1, <1>2, <2>1
  <2> QED
    BY <1>3, <2>2 DEF LengthsMet
<1>4. CASE call' = Idle
  BY <1>3, <1>4, Modes DEF LengthsMet, InRecord
<1>5. ASSUME NEW l \in Lengths, call' = Begin(r, l, file')
      PROVE  LengthsMet'
  <2>1. file' \in Nat
    BY SetFacts DEF IInv, FileInv, Types, TypeOK
  <2> QED
    BY <1>3, <1>5, <2>1, BeginLengths
<1> QED
  BY <1>4, <1>5

LEMMA NextLengths ==
  IInv /\ IInv' /\ SinglePage /\ Tidy /\ LengthsMet /\ [Next]_vars => LengthsMet'
<1> SUFFICES ASSUME IInv, IInv', SinglePage, Tidy, LengthsMet, [Next]_vars
             PROVE  LengthsMet'
  OBVIOUS
<1>1. CASE /\ call = Idle /\ UNCHANGED <<usage, len>>
           /\ call' \in {call, Hung, Broken}
  BY <1>1, Modes, QuietLengths
<1>2. CASE AcquirePage
  <2>1. call = Idle
    BY <1>2 DEF AcquirePage, PageByWitness, PageByScan, PageByGrowth
  <2>2. UNCHANGED <<usage, len>> /\ call' \in {call, Hung, Broken}
    BY <1>2 DEF AcquirePage, PageByWitness, PageByScan, PageByGrowth, GivePage, Stop
  <2> QED
    BY <1>1, <2>1, <2>2
<1>3. CASE (\E p \in PageIds : ReleasePage(p)) \/ Commit
  BY <1>1, <1>3 DEF ReleasePage, Commit
<1>4. CASE \E r \in Records, l \in Lengths : StartRecord(r, l)
  BY <1>4, StartLengths
<1>5. CASE ChunkByWitness \/ ChunkByScan \/ ChunkByGrowth
  BY <1>5, ChunkByWitnessLengths, ChunkByScanLengths, ChunkByGrowthLengths
<1>6. CASE FinishRecord
  BY <1>6, FinishLengths
<1>7. ASSUME NEW r \in Records, ReleaseRecord(r)
      PROVE  LengthsMet'
  <2>1. call' = Idle
    BY <1>7 DEF ReleaseRecord, DropRecord
  <2> QED
    BY <1>7, <2>1, DropLengths DEF ReleaseRecord
<1>8. ASSUME NEW r \in Records, NEW l \in Lengths, ReacquireRecord(r, l)
      PROVE  LengthsMet'
  BY <1>8, DropLengths DEF ReacquireRecord
<1>9. CASE UNCHANGED vars
  BY <1>9 DEF vars, LengthsMet, InRecord
<1> QED
  BY <1>2, <1>3, <1>4, <1>5, <1>6, <1>7, <1>8, <1>9 DEF Next

-----------------------------------------------------------------------------
(* The theorem.                                                              *)

(* An exact record has the size that RecordLength asks for. *)
LEMMA ExactSize ==
  ASSUME NEW r \in Records, usage[r] \in [PageIds -> SUBSET Blocks],
         NEW l, Exact(usage[r], l)
  PROVE  RecordSize(r) = BlockSize * BlocksFor(l)
<1> DEFINE u == usage[r]
           S == {x \in PageIds \X Blocks : x[2] \in usage[r][x[1]]}
<1>1. PICK p \in PageIds : /\ \A q \in PageIds : q # p => u[q] = {}
                           /\ Cardinality(u[p]) = BlocksFor(l)
  BY DEF Exact
<1>2. S = {p} \X u[p]
  <2>1. u[p] \in SUBSET Blocks
    OBVIOUS
  <2>2. ASSUME NEW x \in S
        PROVE  x \in {p} \X u[p]
    <3>1. x \in PageIds \X Blocks /\ x[2] \in u[x[1]]
      OBVIOUS
    <3>2. x[1] \in PageIds /\ x = <<x[1], x[2]>>
      BY <3>1
    <3>3. x[1] = p
      BY <1>1, <3>1, <3>2
    <3> HIDE DEF S, u
    <3> QED
      BY <3>1, <3>2, <3>3
  <2>3. ASSUME NEW b \in u[p]
        PROVE  <<p, b>> \in S
    BY <2>1
  <2> HIDE DEF S
  <2> QED
    BY <2>2, <2>3
<1>3. IsFiniteSet({p}) /\ Cardinality({p}) = 1
  BY FS_Singleton
<1>4. IsFiniteSet(u[p]) /\ Cardinality(u[p]) \in Nat
  BY BlocksFinite, FS_Subset, FS_CardinalityType
<1> HIDE DEF u, S
<1>5. Cardinality(S) = 1 * Cardinality(u[p])
  BY <1>2, <1>3, <1>4, FS_Product
<1>6. Cardinality(S) = BlocksFor(l)
  BY <1>1, <1>4, <1>5
<1> QED
  BY <1>6 DEF RecordSize, S

(* Every live record has the blocks its length needs and no more: the page
   acquireRecord settles on has room for all of it, reserveBlocks takes free
   blocks until it has enough, and no chunk is skipped because a scan finds
   nothing. *)
THEOREM ExactLength == ASSUME SinglePage PROVE Spec => []RecordLength
<1>1. Init => LengthsMet
  BY InitLengths
<1>2. IInv /\ IInv' /\ Tidy /\ LengthsMet /\ [Next]_vars => LengthsMet'
  BY NextLengths
<1>3. IInv /\ LengthsMet => RecordLength
  <2> SUFFICES ASSUME IInv, LengthsMet, NEW r \in Records, len[r] > 0
               PROVE  RecordSize(r) = BlockSize * BlocksFor(len[r])
    BY DEF RecordLength, BlocksFor
  <2>1. usage[r] \in [PageIds -> SUBSET Blocks]
    BY DEF IInv, FileInv, Types, TypeOK
  <2>2. Exact(usage[r], len[r])
    BY DEF LengthsMet
  <2> QED
    BY <2>1, <2>2, ExactSize
<1> QED
  BY <1>1, <1>2, <1>3, Invariance, TidyInvariance, PTL DEF Spec

=============================================================================
