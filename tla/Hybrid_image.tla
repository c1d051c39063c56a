---------------------------- MODULE Hybrid_image ----------------------------
(***************************************************************************)
(* With nothing dirty, the info pages on disk describe the session: a load *)
(* that walks them gets back the chain and the bitmaps.  For every value   *)
(* of the constants with which a record fits in a page.                    *)
(***************************************************************************)
EXTENDS Hybrid_histogram

Indexes(ch) == 0 .. Len(ch) - 1

(* What freeSpaceInfoCommit writes to the info page at index i. *)
DataOf(b, i) ==
  [o \in 0 .. PerPage - 1 |->
     IF PerPage * i + o \in PageIds THEN b[PerPage * i + o] ELSE {}]

NextOf(ch, i) == IF i + 1 < Len(ch) THEN ch[i + 2] ELSE NoId

(* An info page lies in the part of the file it describes. *)
ChainShape ==
  /\ chain \in Seq(PageIds) /\ chain # <<>> /\ chain[1] = InfoPage
  /\ \A i \in Indexes(chain) : InfoOf(chain[i + 1]) = i

(* The pages the chain does not describe are free. *)
Beyond == \A p \in PageIds : p >= Cover(chain) => bits[p] = {}

(* The info pages that the end of the running acquireRecord makes dirty. *)
Pending ==
  IF InRecord THEN {InfoOf(p) : p \in {q \in PageIds : call.usage[q] # {}}} ELSE {}

(* Those of them in front of a page not written yet, which may have no link. *)
Unlinked == {i \in Pending : i + 1 \in dirty}

(* A clean info page is on disk as it should be, its link too, unless the call
   that has added the next page has not come to its end. *)
ImageTrue ==
  /\ ChainShape
  /\ Beyond
  /\ \A i \in Indexes(chain) \ dirty : disk[chain[i + 1]].data = DataOf(bits, i)
  /\ \A i \in Indexes(chain) \ (dirty \cup Unlinked) :
       disk[chain[i + 1]].next = NextOf(chain, i)

-----------------------------------------------------------------------------
(* The chain.                                                                *)

(* No page is twice in the chain, so the chain is no longer than the file can
   be. *)
LEMMA ChainFacts ==
  ASSUME ChainShape
  PROVE  /\ Len(chain) \in Nat \ {0} /\ DOMAIN chain = 1 .. Len(chain)
         /\ \A i \in Indexes(chain) :
              /\ i \in Nat /\ i + 1 \in DOMAIN chain
              /\ chain[i + 1] \in PageIds /\ InfoOf(chain[i + 1]) = i
         /\ Len(chain) <= MaxPages
<1>1. /\ Len(chain) \in Nat \ {0} /\ DOMAIN chain = 1 .. Len(chain)
      /\ \A k \in 1 .. Len(chain) : chain[k] \in PageIds
  BY DEF ChainShape
<1>2. ASSUME NEW i \in Indexes(chain)
      PROVE  /\ i \in Nat /\ i + 1 \in DOMAIN chain
             /\ chain[i + 1] \in PageIds /\ InfoOf(chain[i + 1]) = i
  <2>1. i \in Nat /\ i + 1 \in 1 .. Len(chain)
    BY <1>1, <1>2 DEF Indexes
  <2> QED
    BY <1>1, <2>1 DEF ChainShape
<1>3. Len(chain) <= MaxPages
  <2> DEFINE k == Len(chain) - 1
             p == chain[k + 1]
  <2>1. k \in Indexes(chain) /\ k \in Nat
    BY <1>1 DEF Indexes
  <2>2. p \in PageIds /\ InfoOf(p) = k
    BY <1>2, <2>1
  <2> HIDE DEF p, k
  <2>3. p \in Nat /\ p <= MaxPages - 1 /\ MaxPages \in Nat
    BY <2>2, SetFacts DEF PageIds
  <2>4. k <= p
    <3>1. PerPage \in Nat \ {0} /\ k = p \div PerPage
      BY <2>2, SetFacts DEF InfoOf
    <3> QED
      BY <2>3, <3>1, DivFacts
  <2> QED
    BY <1>1, <2>1, <2>3, <2>4 DEF k
<1> QED
  BY <1>1, <1>2, <1>3

(* The first m pages of the chain. *)
Prefix(m) == [k \in 1 .. m |-> chain[k]]

LEMMA PrefixFacts ==
  ASSUME ChainShape, NEW m \in 1 .. Len(chain)
  PROVE  /\ Prefix(m) \in Seq(PageIds) /\ Len(Prefix(m)) = m
         /\ Prefix(m)[m] = chain[m]
         /\ m = Len(chain) => Prefix(m) = chain
         /\ m < Len(chain) => Append(Prefix(m), chain[m + 1]) = Prefix(m + 1)
<1>1. Len(chain) \in Nat /\ DOMAIN chain = 1 .. Len(chain) /\ chain \in Seq(PageIds)
      /\ \A k \in 1 .. Len(chain) : chain[k] \in PageIds
  BY ChainFacts DEF ChainShape
<1>2. m \in Nat /\ \A k \in 1 .. m : chain[k] \in PageIds
  BY <1>1
<1>3. Prefix(m) \in Seq(PageIds) /\ Len(Prefix(m)) = m /\ Prefix(m)[m] = chain[m]
  BY <1>2 DEF Prefix
<1>4. ASSUME m = Len(chain) PROVE Prefix(m) = chain
  <2>1. chain = [k \in 1 .. Len(chain) |-> chain[k]]
    BY <1>1
  <2> QED
    BY <1>4, <2>1 DEF Prefix
<1>5. ASSUME m < Len(chain) PROVE Append(Prefix(m), chain[m + 1]) = Prefix(m + 1)
  <2> DEFINE a == Append(Prefix(m), chain[m + 1])
  <2>1. chain[m + 1] \in PageIds
    BY <1>1, <1>2, <1>5
  <2>2. /\ a \in Seq(PageIds) /\ Len(a) = m + 1 /\ DOMAIN a = 1 .. m + 1
        /\ \A k \in 1 .. m : a[k] = Prefix(m)[k]
        /\ a[m + 1] = chain[m + 1]
    BY <1>2, <1>3, <2>1
  <2> HIDE DEF a
  <2>3. \A k \in 1 .. m + 1 : a[k] = chain[k]
    BY <1>2, <2>2 DEF Prefix
  <2>4. a = [k \in 1 .. m + 1 |-> a[k]]
    BY <2>2
  <2>5. a = Prefix(m + 1)
    BY <2>3, <2>4 DEF Prefix
  <2> QED
    BY <2>5 DEF a
<1> QED
  BY <1>3, <1>4, <1>5

-----------------------------------------------------------------------------
(* What a load reads.                                                        *)

(* The walk over the links of d, as ChainOn defines it. *)
IsWalk(w, d) ==
  w = [n \in 0 .. MaxPages |->
         IF n = 0 THEN <<InfoPage>>
         ELSE LET s == w[n - 1] IN
              IF d[s[Len(s)]].next = NoId THEN s
              ELSE Append(s, d[s[Len(s)]].next)]

(* The links of d lead from the first page of the chain to the k-th, and end. *)
ReadsTo(d, k) ==
  /\ k \in 1 .. Len(chain)
  /\ \A m \in 1 .. k - 1 : d[chain[m]].next = chain[m + 1]
  /\ d[chain[k]].next = NoId

Reached(k, n) == IF n + 1 <= k THEN n + 1 ELSE k

LinksTrue(d) == \A i \in Indexes(chain) : d[chain[i + 1]].next = NextOf(chain, i)

(* A walk of m steps. *)
IsWalkTo(w, d, m) ==
  w = [n \in 0 .. m |->
         IF n = 0 THEN <<InfoPage>>
         ELSE LET s == w[n - 1] IN
              IF d[s[Len(s)]].next = NoId THEN s
              ELSE Append(s, d[s[Len(s)]].next)]

(* A walk can always go a step further. *)
LEMMA WalkLonger ==
  ASSUME NEW d, NEW m \in Nat, NEW w, IsWalkTo(w, d, m)
  PROVE  \E x : IsWalkTo(x, d, m + 1)
<1> DEFINE s == w[m]
           last == IF d[s[Len(s)]].next = NoId THEN s ELSE Append(s, d[s[Len(s)]].next)
           x == [n \in 0 .. m + 1 |-> IF n = m + 1 THEN last ELSE w[n]]
           At(v, n) == IF n = 0 THEN <<InfoPage>>
                       ELSE LET t == v[n - 1] IN
                            IF d[t[Len(t)]].next = NoId THEN t
                            ELSE Append(t, d[t[Len(t)]].next)
<1>1. w = [n \in 0 .. m |-> At(w, n)]
  BY DEF IsWalkTo
<1>2. ASSUME NEW n \in 0 .. m + 1 PROVE x[n] = At(x, n)
  <2>1. CASE n = m + 1
    <3>1. n # 0 /\ n - 1 = m /\ m \in 0 .. m + 1 /\ m # m + 1
      BY <2>1
    <3>2. x[n] = last /\ x[m] = s
      BY <2>1, <3>1
    <3> HIDE DEF x, s
    <3> QED
      BY <3>1, <3>2
  <2>2. CASE n # m + 1
    <3>1. n \in 0 .. m
      BY <2>2
    <3>2. x[n] = At(w, n)
      <4>1. x[n] = w[n]
        BY <2>2
      <4> HIDE DEF x, At
      <4> QED
        BY <1>1, <3>1, <4>1
    <3>3. CASE n = 0
      BY <3>2, <3>3
    <3>4. CASE n # 0
      <4>1. n - 1 \in 0 .. m + 1 /\ n - 1 # m + 1
        BY <3>1, <3>4
      <4>2. x[n - 1] = w[n - 1]
        BY <4>1
      <4> HIDE DEF x
      <4> QED
        BY <3>2, <4>2
    <3> QED
      BY <3>3, <3>4
  <2> QED
    BY <2>1, <2>2
<1>3. x = [n \in 0 .. m + 1 |-> x[n]]
  OBVIOUS
<1>4. x = [n \in 0 .. m + 1 |-> At(x, n)]
  <2> HIDE DEF x, At
  <2> QED
    BY <1>2, <1>3
<1>5. IsWalkTo(x, d, m + 1)
  <2> HIDE DEF x
  <2> QED
    BY <1>4 DEF IsWalkTo
<1> QED
  BY <1>5

(* There is a walk over the links of d, whatever d holds. *)
LEMMA WalkExists ==
  ASSUME NEW d PROVE \E w : IsWalk(w, d)
<1> DEFINE Bad == {m \in 0 .. MaxPages : ~\E w : IsWalkTo(w, d, m)}
           f == [m \in Bad |-> m]
<1>1. MaxPages \in Nat
  BY SetFacts
<1>2. Bad = {}
  <2>1. SUFFICES ASSUME Bad # {} PROVE FALSE
    OBVIOUS
  <2>2. f \in [Bad -> Nat]
    BY <1>1
  <2>3. PICK n \in Bad : \A q \in Bad : f[n] <= f[q]
    <3> HIDE DEF f, Bad
    <3> QED
      BY <2>1, <2>2, LeastExists
  <2>4. n \in 0 .. MaxPages /\ n \in Nat /\ ~\E w : IsWalkTo(w, d, n)
    BY <1>1
  <2>5. \A q \in Bad : n <= q
    <3>1. ASSUME NEW q \in Bad PROVE n <= q
      <4>1. f[n] <= f[q] /\ f[n] = n /\ f[q] = q
        <5>1. f[n] <= f[q]
          BY <2>3
        <5> HIDE DEF Bad
        <5> QED
          BY <5>1
      <4> HIDE DEF f, Bad
      <4> QED
        BY <4>1
    <3> HIDE DEF f, Bad
    <3> QED
      BY <3>1
  <2>6. CASE n = 0
    <3> DEFINE w == [m \in 0 .. 0 |-> <<InfoPage>>]
    <3>1. IsWalkTo(w, d, 0)
      BY DEF IsWalkTo
    <3> HIDE DEF w
    <3> QED
      BY <2>4, <2>6, <3>1
  <2>7. CASE n # 0
    <3>1. n - 1 \in Nat /\ n - 1 \in 0 .. MaxPages /\ (n - 1) + 1 = n /\ ~(n <= n - 1)
      BY <1>1, <2>4, <2>7
    <3>2. n - 1 \notin Bad
      <4> HIDE DEF Bad
      <4> QED
        BY <2>5, <3>1
    <3>3. PICK w : IsWalkTo(w, d, n - 1)
      BY <3>1, <3>2
    <3>4. \E x : IsWalkTo(x, d, (n - 1) + 1)
      BY <3>1, <3>3, WalkLonger
    <3> QED
      BY <2>4, <3>1, <3>4
  <2> QED
    BY <2>6, <2>7
<1>3. MaxPages \in 0 .. MaxPages
  BY <1>1
<1>4. PICK w : IsWalkTo(w, d, MaxPages)
  BY <1>2, <1>3
<1>5. IsWalk(w, d)
  BY <1>4 DEF IsWalk, IsWalkTo
<1> QED
  BY <1>5

(* ChainOn is the end of a walk. *)
LEMMA ChainOnWalk ==
  ASSUME NEW d PROVE \E w : IsWalk(w, d) /\ ChainOn(d) = w[MaxPages]
<1> DEFINE w == CHOOSE x : IsWalk(x, d)
<1>1. ChainOn(d) = w[MaxPages]
  BY DEF ChainOn, IsWalk
<1>2. IsWalk(w, d)
  BY WalkExists
<1> HIDE DEF w
<1> QED
  BY <1>1, <1>2

LEMMA ReachedFacts ==
  ASSUME NEW k \in Nat \ {0}, NEW n \in Nat
  PROVE  /\ Reached(k, n) \in 1 .. k
         /\ Reached(k, 0) = 1
         /\ n >= k => Reached(k, n) = k
         /\ n # 0 => /\ Reached(k, n - 1) < k => Reached(k, n) = Reached(k, n - 1) + 1
                     /\ Reached(k, n - 1) = k => Reached(k, n) = k
BY DEF Reached

(* A step of the walk. *)
LEMMA WalkStep ==
  ASSUME ChainShape, NEW d, NEW k, ReadsTo(d, k), NEW n \in Nat \ {0}
  PROVE  LET s == Prefix(Reached(k, n - 1)) IN
         Prefix(Reached(k, n)) = IF d[s[Len(s)]].next = NoId THEN s
                                 ELSE Append(s, d[s[Len(s)]].next)
<1> DEFINE m == Reached(k, n - 1)
           s == Prefix(m)
<1>0. Len(chain) \in Nat /\ k \in 1 .. Len(chain) /\ k \in Nat \ {0}
  <2>1. Len(chain) \in Nat
    BY ChainFacts
  <2> QED
    BY <2>1 DEF ReadsTo
<1>1. /\ n - 1 \in Nat /\ m \in 1 .. k /\ m \in Nat /\ m \in 1 .. Len(chain)
      /\ m < k => Reached(k, n) = m + 1
      /\ m = k => Reached(k, n) = k
  <2>1. n - 1 \in Nat /\ n \in Nat /\ n # 0
    OBVIOUS
  <2>2. /\ m \in 1 .. k
        /\ m < k => Reached(k, n) = m + 1
        /\ m = k => Reached(k, n) = k
    BY <1>0, <2>1, ReachedFacts
  <2> HIDE DEF m
  <2> QED
    BY <1>0, <2>1, <2>2
<1> HIDE DEF m
<1>2. /\ Len(s) = m /\ s[m] = chain[m]
      /\ m < Len(chain) => Append(s, chain[m + 1]) = Prefix(m + 1)
  BY <1>1, PrefixFacts
<1> HIDE DEF s
<1>3. CASE m < k
  <2>1. m \in 1 .. k - 1 /\ m < Len(chain) /\ m + 1 \in 1 .. Len(chain)
    BY <1>0, <1>1, <1>3
  <2>2. d[chain[m]].next = chain[m + 1]
    BY <2>1 DEF ReadsTo
  <2>3. chain[m + 1] \in PageIds
    BY <2>1, ChainFacts DEF ChainShape
  <2>4. chain[m + 1] # NoId
    BY <2>3, SetFacts
  <2> QED
    BY <1>1, <1>2, <1>3, <2>1, <2>2, <2>4 DEF s, m
<1>4. CASE m = k
  <2>1. d[chain[m]].next = NoId
    BY <1>4 DEF ReadsTo
  <2> QED
    BY <1>1, <1>2, <1>4, <2>1 DEF s, m
<1> QED
  BY <1>0, <1>1, <1>3, <1>4

(* Every such walk visits the pages of the chain one after the other. *)
LEMMA WalkIsPrefix ==
  ASSUME ChainShape, NEW d, NEW k, ReadsTo(d, k), NEW w, IsWalk(w, d)
  PROVE  \A n \in 0 .. MaxPages : w[n] = Prefix(Reached(k, n))
<1> DEFINE Bad == {n \in 0 .. MaxPages : w[n] # Prefix(Reached(k, n))}
           f == [n \in Bad |-> n]
<1>0. k \in Nat \ {0} /\ 1 \in 1 .. Len(chain) /\ chain[1] = InfoPage
  <2>1. Len(chain) \in Nat \ {0}
    BY ChainFacts
  <2> QED
    BY <2>1 DEF ReadsTo, ChainShape
<1>1. SUFFICES ASSUME Bad # {} PROVE FALSE
  OBVIOUS
<1>2. MaxPages \in Nat
  BY SetFacts
<1>3. f \in [Bad -> Nat]
  BY <1>2
<1>4. PICK n \in Bad : \A q \in Bad : f[n] <= f[q]
  <2> HIDE DEF f, Bad
  <2> QED
    BY <1>1, <1>3, LeastExists
<1>5. n \in 0 .. MaxPages /\ n \in Nat /\ \A q \in Bad : n <= q
  <2>1. n \in 0 .. MaxPages
    OBVIOUS
  <2>2. ASSUME NEW q \in Bad PROVE n <= q
    <3>1. f[n] <= f[q] /\ f[n] = n /\ f[q] = q
      <4>1. f[n] <= f[q]
        BY <1>4
      <4> HIDE DEF Bad
      <4> QED
        BY <4>1
    <3> HIDE DEF f, Bad
    <3> QED
      BY <3>1
  <2> HIDE DEF f, Bad
  <2> QED
    BY <1>2, <2>1, <2>2
<1>6. w[n] = IF n = 0 THEN <<InfoPage>>
             ELSE LET s == w[n - 1] IN
                  IF d[s[Len(s)]].next = NoId THEN s
                  ELSE Append(s, d[s[Len(s)]].next)
  BY <1>5 DEF IsWalk
<1>7. CASE n = 0
  <2>1. Reached(k, 0) = 1
    BY <1>0, ReachedFacts
  <2>2. Prefix(1) = <<InfoPage>>
    <3>1. Prefix(1) \in Seq(PageIds) /\ Len(Prefix(1)) = 1 /\ Prefix(1)[1] = InfoPage
      BY <1>0, PrefixFacts
    <3> QED
      BY <3>1
  <2> QED
    BY <1>4, <1>6, <1>7, <2>1, <2>2
<1>8. CASE n # 0
  <2>1. n - 1 \in 0 .. MaxPages /\ n - 1 \notin Bad /\ n \in Nat \ {0}
    BY <1>2, <1>5, <1>8
  <2>2. w[n - 1] = Prefix(Reached(k, n - 1))
    BY <2>1
  <2>3. w[n] = Prefix(Reached(k, n))
    BY <1>6, <1>8, <2>1, <2>2, WalkStep
  <2> QED
    BY <1>4, <2>3
<1> QED
  BY <1>7, <1>8

(* A load gets back the chain as far as the links lead. *)
LEMMA PrefixRead ==
  ASSUME ChainShape, NEW d, NEW k, ReadsTo(d, k)
  PROVE  ChainOn(d) = Prefix(k)
<1>1. PICK w : IsWalk(w, d) /\ ChainOn(d) = w[MaxPages]
  BY ChainOnWalk
<1>2. MaxPages \in Nat /\ k \in Nat \ {0} /\ MaxPages >= k
  <2>1. Len(chain) \in Nat /\ Len(chain) <= MaxPages /\ MaxPages \in Nat
    BY ChainFacts, SetFacts
  <2> QED
    BY <2>1 DEF ReadsTo
<1>3. w[MaxPages] = Prefix(Reached(k, MaxPages))
  <2>1. MaxPages \in 0 .. MaxPages
    BY <1>2
  <2> QED
    BY <1>1, <2>1, WalkIsPrefix
<1>4. Reached(k, MaxPages) = k
  BY <1>2, ReachedFacts
<1> QED
  BY <1>1, <1>3, <1>4

(* With true links it gets back the whole chain. *)
LEMMA ChainRead ==
  ASSUME ChainShape, NEW d, LinksTrue(d)
  PROVE  ChainOn(d) = chain
<1> DEFINE k == Len(chain)
<1>1. k \in Nat \ {0} /\ k \in 1 .. Len(chain)
  BY ChainFacts
<1>2. ASSUME NEW m \in 1 .. k
      PROVE  d[chain[m]].next = IF m < k THEN chain[m + 1] ELSE NoId
  <2>1. m - 1 \in Indexes(chain) /\ (m - 1) + 1 = m /\ (m - 1) + 2 = m + 1
    BY <1>1 DEF Indexes
  <2>2. d[chain[(m - 1) + 1]].next = NextOf(chain, m - 1)
    BY <2>1 DEF LinksTrue
  <2> QED
    BY <2>1, <2>2 DEF NextOf
<1>3. ReadsTo(d, k)
  <2>1. \A m \in 1 .. k - 1 : m \in 1 .. k /\ m < k
    BY <1>1
  <2>2. ~(k < k) /\ k \in 1 .. k
    BY <1>1
  <2> QED
    BY <1>1, <1>2, <2>1, <2>2 DEF ReadsTo
<1>4. ChainOn(d) = Prefix(k)
  BY <1>3, PrefixRead
<1> QED
  BY <1>1, <1>4, PrefixFacts

(* The places of an info page are the file pages it describes. *)
LEMMA PlaceFacts ==
  ASSUME NEW i \in Nat, NEW o \in 0 .. PerPage - 1
  PROVE  /\ InfoOf(PerPage * i + o) = i
         /\ (PerPage * i + o) % PerPage = o
<1>1. PerPage \in Nat \ {0}
  BY SetFacts
<1> QED
  BY <1>1 DEF InfoOf

LEMMA PlaceOf ==
  ASSUME NEW p \in Nat
  PROVE  /\ InfoOf(p) \in Nat /\ p % PerPage \in 0 .. PerPage - 1
         /\ PerPage * InfoOf(p) + (p % PerPage) = p
<1>1. PerPage \in Nat \ {0}
  BY SetFacts
<1> QED
  BY <1>1 DEF InfoOf

(* With a true image it gets back the bitmaps too. *)
LEMMA ImageRead ==
  ASSUME IInv, ImageTrue, dirty = {}
  PROVE  ChainOn(disk) = chain /\ BitsOn(disk) = bits
<1>1. ChainShape /\ Beyond /\ LinksTrue(disk)
  BY DEF ImageTrue, LinksTrue, Unlinked
<1>2. ChainOn(disk) = chain
  BY <1>1, ChainRead
<1>3. BitsOn(disk) =
        [p \in PageIds |-> IF p < Cover(chain)
                           THEN disk[chain[InfoOf(p) + 1]].data[p % PerPage]
                           ELSE {}]
  BY <1>2 DEF BitsOn
<1>4. bits = [p \in PageIds |-> bits[p]] /\ Len(chain) \in Nat /\ Cover(chain) \in Nat
  <2>1. Len(chain) \in Nat
    BY <1>1, ChainFacts
  <2> QED
    BY <2>1, SetFacts DEF IInv, FileInv, Types, TypeOK, Cover
<1>5. ASSUME NEW p \in PageIds
      PROVE  bits[p] = IF p < Cover(chain)
                       THEN disk[chain[InfoOf(p) + 1]].data[p % PerPage]
                       ELSE {}
  <2>1. p \in Nat
    BY SetFacts
  <2>2. CASE p < Cover(chain)
    <3>1. InfoOf(p) \in Indexes(chain)
      BY <1>4, <2>1, <2>2, InfoOfFacts DEF Cover, Indexes
    <3>2. disk[chain[InfoOf(p) + 1]].data = DataOf(bits, InfoOf(p))
      BY <3>1 DEF ImageTrue
    <3>3. p % PerPage \in 0 .. PerPage - 1 /\ PerPage * InfoOf(p) + (p % PerPage) = p
      BY <2>1, PlaceOf
    <3>4. DataOf(bits, InfoOf(p))[p % PerPage] = bits[p]
      BY <3>3 DEF DataOf
    <3> QED
      BY <2>2, <3>2, <3>4
  <2>3. CASE ~(p < Cover(chain))
    <3>1. p >= Cover(chain)
      BY <1>4, <2>1, <2>3
    <3> QED
      BY <1>1, <2>3, <3>1 DEF Beyond
  <2> QED
    BY <2>2, <2>3
<1>6. BitsOn(disk) = bits
  BY <1>3, <1>4, <1>5
<1> QED
  BY <1>2, <1>6

-----------------------------------------------------------------------------
(* What keeps the image true.                                                *)

LEMMA BeyondNext ==
  ASSUME IInv', call' # Hung PROVE Beyond'
<1>1. /\ \A p \in PageIds : p >= file' => bits'[p] = {}
      /\ file' < Cover(chain') /\ file' \in Nat /\ chain' \in Seq(PageIds)
  BY SetFacts DEF IInv, FileInv, Types, TypeOK, Fresh, Tight
<1>2. Cover(chain') \in Nat
  <2>1. Len(chain') \in Nat
    BY <1>1
  <2> QED
    BY <2>1, SetFacts DEF Cover
<1>3. ASSUME NEW p \in PageIds, p >= Cover(chain') PROVE bits'[p] = {}
  <2>1. p \in Nat
    BY SetFacts
  <2>2. p >= file'
    BY <1>1, <1>2, <1>3, <2>1
  <2> QED
    BY <1>1, <2>2
<1> QED
  BY <1>3 DEF Beyond

(* What is written to the page at index i depends on the bits of the file
   pages it describes. *)
LEMMA DataSame ==
  ASSUME NEW i \in Nat, NEW b, NEW c,
         \A p \in PageIds : InfoOf(p) = i => b[p] = c[p]
  PROVE  DataOf(b, i) = DataOf(c, i)
<1>1. ASSUME NEW o \in 0 .. PerPage - 1, PerPage * i + o \in PageIds
      PROVE  b[PerPage * i + o] = c[PerPage * i + o]
  <2>1. InfoOf(PerPage * i + o) = i
    BY PlaceFacts
  <2> QED
    BY <1>1, <2>1
<1> QED
  BY <1>1 DEF DataOf

(* The chain may gain the page after those it describes. *)
Gains ==
  \/ chain' = chain
  \/ /\ chain' = Append(chain, Cover(chain)) /\ Cover(chain) \in PageIds
     /\ Len(chain) \in dirty'
     /\ Len(chain) - 1 \in dirty' \cup Pending'

(* A step that writes nothing keeps the image true if what it changes is dirty
   afterwards. *)
LEMMA ImageKept ==
  ASSUME ImageTrue, UNCHANGED disk, dirty \subseteq dirty',
         Pending \subseteq dirty' \cup Pending', Gains, Beyond',
         \A p \in PageIds : bits'[p] # bits[p] => InfoOf(p) \in dirty'
  PROVE  ImageTrue'
<1>1. /\ ChainShape /\ chain \in Seq(PageIds) /\ Len(chain) \in Nat \ {0}
      /\ Cover(chain) = PerPage * Len(chain) /\ PerPage \in Nat \ {0}
  BY ChainFacts, SetFacts DEF ImageTrue, ChainShape, Cover
<1>2. /\ chain' \in Seq(PageIds) /\ Len(chain') \in Nat /\ Len(chain) <= Len(chain')
      /\ \A k \in 1 .. Len(chain) : chain'[k] = chain[k]
      /\ \/ Len(chain') = Len(chain)
         \/ /\ Len(chain') = Len(chain) + 1
            /\ chain'[Len(chain) + 1] = Cover(chain)
            /\ Len(chain) \in dirty' /\ Len(chain) - 1 \in dirty' \cup Pending'
  <2>1. CASE chain' = chain
    BY <1>1, <2>1
  <2>2. CASE chain' # chain
    <3>1. /\ chain' = Append(chain, Cover(chain)) /\ Cover(chain) \in PageIds
          /\ Len(chain) \in dirty' /\ Len(chain) - 1 \in dirty' \cup Pending'
      BY <2>2 DEF Gains
    <3>2. /\ chain' \in Seq(PageIds) /\ Len(chain') = Len(chain) + 1
          /\ \A k \in 1 .. Len(chain) : chain'[k] = chain[k]
          /\ chain'[Len(chain) + 1] = Cover(chain)
      BY <1>1, <3>1
    <3> QED
      BY <1>1, <3>1, <3>2
  <2> QED
    BY <2>1, <2>2
<1>3. ChainShape'
  <2>1. Len(chain') \in Nat \ {0} /\ chain' # <<>>
    BY <1>1, <1>2
  <2>2. chain'[1] = InfoPage
    <3>1. 1 \in 1 .. Len(chain)
      BY <1>1
    <3> QED
      BY <1>1, <1>2, <3>1 DEF ChainShape
  <2>3. ASSUME NEW i \in Indexes(chain')
        PROVE  InfoOf(chain'[i + 1]) = i
    <3>1. i \in Nat /\ i < Len(chain')
      BY <1>2, <2>3 DEF Indexes
    <3>2. CASE i < Len(chain)
      <4>1. i \in Indexes(chain) /\ i + 1 \in 1 .. Len(chain)
        BY <1>1, <3>1, <3>2 DEF Indexes
      <4> QED
        BY <1>1, <1>2, <4>1 DEF ChainShape
    <3>3. CASE ~(i < Len(chain))
      <4>1. i = Len(chain) /\ chain'[Len(chain) + 1] = PerPage * Len(chain) + 0
        BY <1>1, <1>2, <3>1, <3>3
      <4>2. 0 \in 0 .. PerPage - 1
        BY <1>1
      <4>3. InfoOf(PerPage * Len(chain) + 0) = Len(chain)
        BY <1>1, <4>2, PlaceFacts
      <4> QED
        BY <4>1, <4>3
    <3> QED
      BY <3>2, <3>3
  <2> QED
    BY <1>2, <2>1, <2>2, <2>3 DEF ChainShape
<1>4. ASSUME NEW i \in Indexes(chain') \ dirty'
      PROVE  /\ i \in Indexes(chain) \ dirty /\ i \in Nat
             /\ chain'[i + 1] = chain[i + 1]
  <2>1. i \in Nat /\ i < Len(chain') /\ i \notin dirty'
    BY <1>2, <1>4 DEF Indexes
  <2>2. i # Len(chain) \/ Len(chain') = Len(chain)
    BY <1>2, <2>1
  <2>3. i < Len(chain)
    BY <1>1, <1>2, <2>1, <2>2
  <2>4. i + 1 \in 1 .. Len(chain) /\ i \in Indexes(chain)
    BY <1>1, <2>1, <2>3 DEF Indexes
  <2> QED
    BY <1>2, <2>1, <2>4
<1>5. ASSUME NEW i \in Indexes(chain') \ dirty'
      PROVE  disk'[chain'[i + 1]].data = DataOf(bits', i)
  <2>1. /\ i \in Indexes(chain) \ dirty /\ i \in Nat /\ chain'[i + 1] = chain[i + 1]
        /\ i \notin dirty'
    BY <1>4, <1>5
  <2>2. disk'[chain'[i + 1]].data = DataOf(bits, i)
    BY <2>1 DEF ImageTrue
  <2>3. \A p \in PageIds : InfoOf(p) = i => bits[p] = bits'[p]
    BY <2>1
  <2>4. DataOf(bits, i) = DataOf(bits', i)
    BY <2>1, <2>3, DataSame
  <2> QED
    BY <2>2, <2>4
<1>6. ASSUME NEW i \in Indexes(chain') \ (dirty' \cup Unlinked')
      PROVE  disk'[chain'[i + 1]].next = NextOf(chain', i)
  <2>1. /\ i \in Indexes(chain) \ dirty /\ i \in Nat /\ chain'[i + 1] = chain[i + 1]
        /\ i \notin dirty' /\ (i \notin Pending' \/ i + 1 \notin dirty')
    BY <1>4, <1>6 DEF Unlinked
  <2>2. disk'[chain'[i + 1]].next = NextOf(chain, i)
    <3>1. i \notin Unlinked
      BY <2>1 DEF Unlinked
    <3> QED
      BY <2>1, <3>1 DEF ImageTrue
  <2>3. i < Len(chain)
    BY <1>1, <2>1 DEF Indexes
  <2>4. i # Len(chain) - 1 \/ Len(chain') = Len(chain)
    <3>1. SUFFICES ASSUME i = Len(chain) - 1, Len(chain') # Len(chain) PROVE FALSE
      OBVIOUS
    <3>2. i + 1 = Len(chain)
      BY <1>1, <3>1
    <3> QED
      BY <1>2, <2>1, <3>1, <3>2
  <2>5. NextOf(chain', i) = NextOf(chain, i)
    <3>1. CASE i = Len(chain) - 1
      <4>1. ~(i + 1 < Len(chain)) /\ ~(i + 1 < Len(chain'))
        BY <1>1, <2>1, <2>4, <3>1
      <4> QED
        BY <4>1 DEF NextOf
    <3>2. CASE i # Len(chain) - 1
      <4>1. i + 1 < Len(chain) /\ i + 1 < Len(chain') /\ i + 2 \in 1 .. Len(chain)
        BY <1>1, <1>2, <2>1, <2>3, <3>2
      <4>2. chain'[i + 2] = chain[i + 2]
        BY <1>2, <4>1
      <4> QED
        BY <4>1, <4>2 DEF NextOf
    <3> QED
      BY <3>1, <3>2
  <2> QED
    BY <2>2, <2>5
<1> QED
  BY <1>3, <1>5, <1>6 DEF ImageTrue

(* What freeSpaceInfoCommit leaves of the disk. *)
LEMMA WrittenAt ==
  ASSUME ChainShape, NEW b, NEW ds, ds \subseteq Indexes(chain)
  PROVE  /\ \A i \in Indexes(chain) :
              Written(b, ds)[chain[i + 1]] =
                IF i \in ds THEN [next |-> NextOf(chain, i), data |-> DataOf(b, i)]
                ELSE disk[chain[i + 1]]
         /\ \A p \in PageIds \ ChainPages : Written(b, ds)[p] = disk[p]
<1>1. ASSUME NEW i \in Indexes(chain)
      PROVE  Written(b, ds)[chain[i + 1]] =
               IF i \in ds THEN [next |-> NextOf(chain, i), data |-> DataOf(b, i)]
               ELSE disk[chain[i + 1]]
  <2> DEFINE p == chain[i + 1]
  <2>1. i \in Nat /\ p \in PageIds /\ InfoOf(p) = i
    BY ChainFacts
  <2>2. \A k \in ds : chain[k + 1] = p => k = i
    <3>1. \A k \in ds : InfoOf(chain[k + 1]) = k
      BY ChainFacts
    <3> QED
      BY <2>1, <3>1
  <2> HIDE DEF p
  <2>3. CASE i \in ds
    <3>1. \E k \in ds : chain[k + 1] = p
      BY <2>3 DEF p
    <3> DEFINE k == CHOOSE x \in ds : chain[x + 1] = p
    <3>2. k = i
      BY <2>2, <2>3 DEF p
    <3>3. Written(b, ds)[p] =
            [next |-> IF k + 1 < Len(chain) THEN chain[k + 2] ELSE NoId,
             data |-> [o \in 0 .. PerPage - 1 |->
                         IF PerPage * k + o \in PageIds
                         THEN b[PerPage * k + o] ELSE {}]]
      BY <2>1, <3>1 DEF Written
    <3> HIDE DEF k
    <3>4. Written(b, ds)[p] = [next |-> NextOf(chain, i), data |-> DataOf(b, i)]
      BY <3>2, <3>3, Zenon DEF NextOf, DataOf
    <3> QED
      BY <2>3, <3>4 DEF p
  <2>4. CASE i \notin ds
    <3>1. ~\E k \in ds : chain[k + 1] = p
      BY <2>2, <2>4
    <3>2. Written(b, ds)[p] = disk[p]
      BY <2>1, <3>1 DEF Written
    <3> QED
      BY <2>4, <3>2 DEF p
  <2> QED
    BY <2>3, <2>4
<1>2. ASSUME NEW p \in PageIds \ ChainPages PROVE Written(b, ds)[p] = disk[p]
  <2>1. \A k \in ds : k + 1 \in DOMAIN chain
    BY ChainFacts
  <2>2. ~\E k \in ds : chain[k + 1] = p
    BY <1>2, <2>1 DEF ChainPages
  <2> QED
    BY <2>2 DEF Written
<1> QED
  BY <1>1, <1>2

(* After the dirty pages and those of the changed bits have been written,
   every info page is on disk as it should be. *)
LEMMA ImageWritten ==
  ASSUME ImageTrue, Pending = {}, UNCHANGED chain, Beyond',
         NEW ds, dirty \subseteq ds, ds \subseteq Indexes(chain),
         \A p \in PageIds : bits'[p] # bits[p] => InfoOf(p) \in ds,
         disk' = Written(bits', ds)
  PROVE  ImageTrue'
<1>1. ChainShape /\ ChainShape'
  BY DEF ImageTrue, ChainShape
<1>2. ASSUME NEW i \in Indexes(chain)
      PROVE  /\ disk'[chain[i + 1]].data = DataOf(bits', i)
             /\ disk'[chain[i + 1]].next = NextOf(chain, i)
  <2>1. disk'[chain[i + 1]] =
          IF i \in ds THEN [next |-> NextOf(chain, i), data |-> DataOf(bits', i)]
          ELSE disk[chain[i + 1]]
    BY <1>1, WrittenAt
  <2>2. CASE i \in ds
    BY <2>1, <2>2
  <2>3. CASE i \notin ds
    <3>1. i \in Indexes(chain) \ dirty /\ i \in Indexes(chain) \ (dirty \cup Unlinked)
      BY <2>3 DEF Unlinked
    <3>2. /\ disk[chain[i + 1]].data = DataOf(bits, i)
          /\ disk[chain[i + 1]].next = NextOf(chain, i)
      BY <3>1 DEF ImageTrue
    <3>3. \A q \in PageIds : InfoOf(q) = i => bits[q] = bits'[q]
      BY <2>3
    <3>4. i \in Nat
      BY <1>1, ChainFacts
    <3>5. DataOf(bits, i) = DataOf(bits', i)
      BY <3>3, <3>4, DataSame
    <3> QED
      BY <2>1, <2>3, <3>2, <3>5
  <2> QED
    BY <2>2, <2>3
<1>3. Indexes(chain') = Indexes(chain)
  OBVIOUS
<1> QED
  BY <1>1, <1>2, <1>3 DEF ImageTrue

-----------------------------------------------------------------------------
(* The steps.                                                                *)

LEMMA InitImage == Init => ImageTrue
<1> SUFFICES ASSUME Init PROVE ImageTrue
  OBVIOUS
<1>1. chain = <<InfoPage>> /\ Len(chain) = 1 /\ dirty = {0} /\ InfoPage \in PageIds
  BY SetFacts DEF Init
<1>2. ChainShape
  <2>1. InfoOf(InfoPage) = 0
    <3>1. InfoPage \in Nat /\ InfoPage < PerPage /\ PerPage \in Nat \ {0}
      BY LayoutAssumption
    <3> QED
      BY <3>1 DEF InfoOf
  <2>2. \A i \in Indexes(chain) : i = 0
    BY <1>1 DEF Indexes
  <2> QED
    BY <1>1, <2>1, <2>2 DEF ChainShape
<1>3. Beyond
  <2>1. Cover(chain) = PerPage
    BY <1>1, SetFacts DEF Cover
  <2>2. ASSUME NEW p \in PageIds, p >= PerPage PROVE bits[p] = {}
    <3>1. p \notin System
      BY <2>2, SetFacts, LayoutAssumption DEF System
    <3> QED
      BY <3>1 DEF Init
  <2> QED
    BY <2>1, <2>2 DEF Beyond
<1>4. Indexes(chain) \ dirty = {}
  BY <1>1 DEF Indexes
<1> QED
  BY <1>2, <1>3, <1>4 DEF ImageTrue

(* Between the chunks of a record nothing is pending yet. *)
LEMMA NonePending ==
  /\ ~InRecord => Pending = {}
  /\ IInv /\ InRecord /\ call.chunks > 0 => Pending = {}
<1>1. ~InRecord => Pending = {}
  BY DEF Pending
<1>2. ASSUME IInv, InRecord, call.chunks > 0 PROVE Pending = {}
  <2>1. call.chunks # 0
    BY <1>2
  <2>2. call.usage = NoUsage
    BY <1>2, <2>1 DEF IInv, FileInv, CallOK
  <2> QED
    BY <2>2 DEF Pending, NoUsage
<1> QED
  BY <1>1, <1>2

(* Only the call changes. *)
LEMMA QuietImage ==
  ASSUME ImageTrue, Pending = {}, UNCHANGED <<chain, bits, dirty, disk>>
  PROVE  ImageTrue'
<1>1. Beyond'
  BY DEF ImageTrue, Beyond, Cover
<1> QED
  BY <1>1, ImageKept DEF Gains

(* The bitmaps with the pages of a chain that has gained a page. *)
LEMMA WithInfoFacts ==
  ASSUME IInv, NEW ch,
         ch = chain \/ (ch = Append(chain, Cover(chain)) /\ Cover(chain) \in PageIds),
         NEW p \in PageIds, WithInfo(bits, ch)[p] # bits[p]
  PROVE  ch # chain /\ p = Cover(chain)
<1>1. chain \in Seq(PageIds) /\ OwnedAreUsed
  BY DEF IInv, FileInv, Types, TypeOK
<1>2. p \in ChainPages => bits[p] = Blocks
  BY <1>1 DEF OwnedAreUsed
<1>3. p \notin ChainPages /\ \E k \in DOMAIN ch : ch[k] = p
  BY <1>2 DEF WithInfo
<1>4. PICK k \in DOMAIN ch : ch[k] = p
  BY <1>3
<1>5. ch # chain
  BY <1>3, <1>4 DEF ChainPages
<1>6. ch = Append(chain, Cover(chain)) /\ Cover(chain) \in PageIds
  BY <1>5
<1>7. CASE k \in DOMAIN chain
  <2>1. ch[k] = chain[k]
    BY <1>1, <1>6, <1>7
  <2> QED
    BY <1>3, <1>4, <1>7, <2>1 DEF ChainPages
<1>8. CASE k \notin DOMAIN chain
  <2>1. k = Len(chain) + 1 /\ ch[Len(chain) + 1] = Cover(chain)
    BY <1>1, <1>6, <1>8
  <2> QED
    BY <1>4, <1>5, <2>1
<1> QED
  BY <1>7, <1>8

(* freeSpaceInfoUpdate adds no page, or one that the old chain does not
   describe, and makes it dirty. *)
LEMMA SettledGains ==
  ASSUME IInv, call \notin {Hung, Broken}, NEW n \in {file, file + 1},
         n <= MaxPages, Settled(n).ok
  PROVE  LET ch == Settled(n).chain IN
         \/ ch = chain
         \/ /\ ch = Append(chain, Cover(chain)) /\ Cover(chain) \in PageIds
            /\ n = Cover(chain) /\ n = file + 1
            /\ Len(chain) \in NewInfo(ch)
            /\ InfoOf(Cover(chain)) = Len(chain) /\ InfoOf(file) = Len(chain) - 1
<1>1. /\ Types /\ ChainFits /\ chain \in Seq(PageIds) /\ chain # <<>>
      /\ file \in Nat /\ PerPage \in Nat \ {0} /\ file < Cover(chain)
  <2>1. Types /\ ChainFits /\ Tight /\ chain \in Seq(PageIds) /\ chain # <<>>
    BY DEF IInv, FileInv, ChainFits, Types, TypeOK
  <2>2. file \in Nat /\ PerPage \in Nat \ {0}
    BY SetFacts DEF IInv, FileInv, Types, TypeOK
  <2>3. call # Hung => file < Cover(chain)
    BY <2>1 DEF Tight
  <2> QED
    BY <2>1, <2>2, <2>3
<1>2. Len(chain) \in Nat \ {0} /\ Cover(chain) = PerPage * Len(chain)
  BY <1>1 DEF Cover
<1>3. \/ Settled(n).chain = chain
      \/ /\ Settled(n).chain = Append(chain, n)
         /\ n \in PageIds /\ n = Cover(chain) /\ file < n
  <2>1. \/ Settled(n).chain = chain
        \/ /\ Settled(n).chain = Append(chain, n)
           /\ n \in PageIds /\ n \in {Cover(chain), Cover(chain) + 1}
    BY <1>1, SettledCases
  <2>2. n \in {Cover(chain), Cover(chain) + 1} => n = Cover(chain) /\ file < n
    BY <1>1, <1>2
  <2> QED
    BY <2>1, <2>2
<1>4. CASE Settled(n).chain = Append(chain, n) /\ n \in PageIds /\ n = Cover(chain) /\ file < n
  <2> DEFINE ch == Settled(n).chain
  <2>1. n = file + 1
    BY <1>1, <1>4
  <2>2. Len(ch) = Len(chain) + 1
    BY <1>1, <1>4
  <2>3. Len(chain) \in NewInfo(ch)
    BY <1>2, <2>2 DEF NewInfo
  <2>4. InfoOf(Cover(chain)) = Len(chain)
    <3>1. PerPage * Len(chain) + 0 = Cover(chain) /\ 0 \in 0 .. PerPage - 1
      BY <1>1, <1>2
    <3> QED
      BY <1>2, <3>1, PlaceFacts
  <2>5. InfoOf(file) = Len(chain) - 1
    <3>1. Len(chain) - 1 \in Nat /\ PerPage - 1 \in 0 .. PerPage - 1
      BY <1>1, <1>2
    <3>2. PerPage * (Len(chain) - 1) + (PerPage - 1) = PerPage * Len(chain) - 1
      BY <1>1, <1>2
    <3>3. file = PerPage * (Len(chain) - 1) + (PerPage - 1)
      BY <1>1, <1>2, <1>4, <2>1, <3>2
    <3> QED
      BY <3>1, <3>3, PlaceFacts
  <2> QED
    BY <1>4, <2>1, <2>3, <2>4, <2>5
<1> QED
  BY <1>3, <1>4

(* acquirePage makes the info page of the page it gives dirty. *)
LEMMA GivePageImage ==
  ASSUME IInv, IInv', ImageTrue, call = Idle, NEW id, NEW h,
         NEW n, n = file \/ (n = file + 1 /\ id = file), n <= MaxPages,
         GivePage(id, n, h)
  PROVE  ImageTrue'
<1>1. Pending = {} /\ call \notin {Hung, Broken}
  BY ModeFacts, NonePending
<1>2. CASE ~Settled(n).ok
  <2>1. UNCHANGED <<chain, bits, dirty, disk>>
    BY <1>2 DEF GivePage, Stop
  <2> QED
    BY <1>1, <2>1, QuietImage
<1>3. CASE Settled(n).ok
  <2> DEFINE ch == Settled(n).chain
  <2>1. /\ chain' = ch /\ bits' = [WithInfo(bits, ch) EXCEPT ![id] = Blocks]
        /\ dirty' = dirty \cup NewInfo(ch) \cup {InfoOf(id)}
        /\ UNCHANGED <<disk, call>>
    BY <1>3 DEF GivePage
  <2>2. \/ ch = chain
        \/ /\ ch = Append(chain, Cover(chain)) /\ Cover(chain) \in PageIds
           /\ n = Cover(chain) /\ n = file + 1
           /\ Len(chain) \in NewInfo(ch)
           /\ InfoOf(Cover(chain)) = Len(chain) /\ InfoOf(file) = Len(chain) - 1
    BY <1>1, <1>3, SettledGains
  <2> HIDE DEF ch
  <2>3. Beyond'
    BY <1>1, <2>1, BeyondNext
  <2>4. ASSUME NEW p \in PageIds, bits'[p] # bits[p]
        PROVE  InfoOf(p) \in dirty'
    <3>1. CASE p = id
      BY <2>1, <3>1
    <3>2. CASE p # id
      <4>1. WithInfo(bits, ch)[p] # bits[p]
        BY <2>1, <2>4, <3>2
      <4>2. ch # chain /\ p = Cover(chain)
        BY <2>2, <4>1, WithInfoFacts
      <4> QED
        BY <2>1, <2>2, <4>2
    <3> QED
      BY <3>1, <3>2
  <2>5. Gains
    <3>1. CASE ch = chain
      BY <2>1, <3>1 DEF Gains
    <3>2. CASE ch # chain
      <4>1. id = file
        <5>1. file \in Nat
          BY SetFacts DEF IInv, FileInv, Types, TypeOK
        <5> QED
          BY <2>2, <3>2, <5>1
      <4> QED
        BY <2>1, <2>2, <3>2, <4>1 DEF Gains
    <3> QED
      BY <3>1, <3>2
  <2> QED
    BY <1>1, <2>1, <2>3, <2>4, <2>5, ImageKept
<1> QED
  BY <1>2, <1>3

LEMMA AcquirePageImage ==
  ASSUME IInv, IInv', ImageTrue, AcquirePage
  PROVE  ImageTrue'
<1>0. file <= MaxPages /\ file \in Nat /\ MaxPages \in Nat
  BY SetFacts DEF IInv, FileInv, Types, TypeOK
<1>1. CASE PageByWitness
  <2>1. \E id, h : call = Idle /\ GivePage(id, file, h)
    BY <1>1 DEF PageByWitness
  <2> QED
    BY <1>0, <2>1, GivePageImage
<1>2. CASE PageByScan
  <2>1. /\ call = Idle
        /\ \/ Stop(Broken)
           \/ \E id, h : GivePage(id, file, h)
    BY <1>2 DEF PageByScan
  <2>2. CASE Stop(Broken)
    BY <2>1, <2>2, ModeFacts, NonePending, QuietImage DEF Stop
  <2>3. CASE \E id, h : GivePage(id, file, h)
    BY <1>0, <2>1, <2>3, GivePageImage
  <2> QED
    BY <2>1, <2>2, <2>3
<1>3. CASE PageByGrowth
  <2>1. call = Idle /\ file + 1 <= MaxPages /\ GivePage(file, file + 1, hist)
    BY <1>0, <1>3 DEF PageByGrowth
  <2> QED
    BY <2>1, GivePageImage
<1> QED
  BY <1>1, <1>2, <1>3 DEF AcquirePage

LEMMA ReleasePageImage ==
  ASSUME IInv', ImageTrue, NEW id \in PageIds, ReleasePage(id)
  PROVE  ImageTrue'
<1>1. /\ call = Idle /\ bits' = [bits EXCEPT ![id] = {}]
      /\ dirty' = dirty \cup {InfoOf(id)} /\ UNCHANGED <<chain, disk, call>>
  BY DEF ReleasePage
<1>2. Pending = {} /\ call' # Hung
  BY <1>1, ModeFacts, NonePending
<1>3. Beyond'
  BY <1>2, BeyondNext
<1>4. \A p \in PageIds : bits'[p] # bits[p] => InfoOf(p) \in dirty'
  BY <1>1
<1>5. Gains
  BY <1>1 DEF Gains
<1> QED
  BY <1>1, <1>2, <1>3, <1>4, <1>5, ImageKept

(* The blocks of a new page are reserved; the info page that describes it is
   the one a new info page hangs on. *)
LEMMA ChunkByGrowthImage ==
  ASSUME IInv, IInv', SinglePage, Tidy, ImageTrue, ChunkByGrowth
  PROVE  ImageTrue'
<1> DEFINE s == Settled(file + 1)
           b == WithInfo(bits, s.chain)
<1>1. /\ InRecord /\ call.chunks > 0
      /\ \/ UNCHANGED <<chain, bits, dirty, disk>>
         \/ /\ file # MaxPages /\ s.ok
            /\ chain' = s.chain /\ bits' = b /\ dirty' = dirty \cup NewInfo(s.chain)
            /\ call' = NextChunk(file, PageSize) /\ UNCHANGED disk
  BY DEF ChunkByGrowth, Stop
<1>2. Pending = {}
  BY <1>1, NonePending
<1>3. CASE UNCHANGED <<chain, bits, dirty, disk>>
  BY <1>2, <1>3, QuietImage
<1>4. CASE /\ file # MaxPages /\ s.ok
           /\ chain' = s.chain /\ bits' = b /\ dirty' = dirty \cup NewInfo(s.chain)
           /\ call' = NextChunk(file, PageSize) /\ UNCHANGED disk
  <2>1. /\ call \in RecordCalls /\ call.usage = NoUsage
        /\ call.left \in 1 .. PageSize /\ PageSize \in Nat
        /\ bits \in [PageIds -> SUBSET Blocks] /\ file \in 0 .. MaxPages
        /\ MaxPages \in Nat /\ call.mode = "record" /\ call \notin {Hung, Broken}
    BY <1>1, CallTidy, Parts, SetFacts, SizesAssumption, ModeFacts
  <2>2. file \in PageIds /\ file + 1 \in {file, file + 1} /\ file + 1 <= MaxPages
    BY <1>4, <2>1 DEF PageIds
  <2>3. \/ s.chain = chain
        \/ /\ s.chain = Append(chain, Cover(chain)) /\ Cover(chain) \in PageIds
           /\ Len(chain) \in NewInfo(s.chain)
           /\ InfoOf(Cover(chain)) = Len(chain) /\ InfoOf(file) = Len(chain) - 1
    BY <1>4, <2>1, <2>2, SettledGains
  <2> HIDE DEF s
  <2>4. InfoOf(file) \in Pending' /\ call' # Hung
    <3> DEFINE R == Reserve(Blocks \ bits[file], call.left)
    <3>1. bits[file] = {} /\ Blocks \ bits[file] = Blocks
      BY <2>1, <2>2 DEF IInv, Fresh
    <3>2. Blocks # {} /\ call.left \in Nat \ {0}
      BY <2>1, BlocksFinite
    <3>3. R # {}
      BY <3>1, <3>2, ReserveSome
    <3>4. Least(call.left, PageSize) = call.left
      BY <2>1 DEF Least
    <3>5. DOMAIN call = {"mode", "rec", "len", "left", "chunks", "spare", "pages", "usage"}
      BY <2>1 DEF RecordCalls
    <3>6. call' = [call EXCEPT !.chunks = @ - 1, !.left = @ - call.left,
                               !.spare = @ - (PageSize - call.left),
                               !.usage = [call.usage EXCEPT ![file] = @ \cup R]]
      BY <1>4, <3>4 DEF NextChunk
    <3> HIDE DEF R
    <3>7. call'.mode = "record" /\ call'.usage = [NoUsage EXCEPT ![file] = @ \cup R]
      BY <2>1, <3>5, <3>6
    <3>8. call'.usage[file] = R
      BY <2>2, <3>7 DEF NoUsage
    <3>9. InRecord' /\ file \in {q \in PageIds : call'.usage[q] # {}}
      BY <2>2, <3>3, <3>7, <3>8 DEF InRecord
    <3>10. InfoOf(file) \in Pending'
      BY <3>9 DEF Pending
    <3>11. call' # Hung
      BY <3>7, Modes
    <3> QED
      BY <3>10, <3>11
  <2>5. Beyond'
    BY <2>4, BeyondNext
  <2>6. ASSUME NEW p \in PageIds, bits'[p] # bits[p]
        PROVE  InfoOf(p) \in dirty'
    <3>1. s.chain # chain /\ p = Cover(chain)
      BY <1>4, <2>3, <2>6, WithInfoFacts
    <3> QED
      BY <1>4, <2>3, <3>1
  <2>7. Gains
    BY <1>4, <2>3, <2>4 DEF Gains
  <2> QED
    BY <1>2, <1>4, <2>5, <2>6, <2>7, ImageKept
<1> QED
  BY <1>1, <1>3, <1>4

(* The bits of the record are set, and their info pages are dirty. *)
LEMMA FinishImage ==
  ASSUME IInv', ImageTrue, FinishRecord
  PROVE  ImageTrue'
<1> DEFINE mine == {InfoOf(p) : p \in {q \in PageIds : call.usage[q] # {}}}
<1>1. /\ InRecord /\ bits' = [p \in PageIds |-> bits[p] \cup call.usage[p]]
      /\ dirty' = dirty \cup mine /\ call' = Idle /\ UNCHANGED <<chain, disk>>
  BY DEF FinishRecord
<1>2. Pending = mine
  BY <1>1 DEF Pending
<1>3. ASSUME NEW p \in PageIds, bits'[p] # bits[p]
      PROVE  InfoOf(p) \in mine
  <2>1. call.usage[p] # {}
    BY <1>1, <1>3
  <2> QED
    BY <2>1
<1> HIDE DEF mine
<1>4. call' # Hung
  BY <1>1, ModeFacts
<1>5. Beyond'
  BY <1>4, BeyondNext
<1>6. Gains
  BY <1>1 DEF Gains
<1>7. \A p \in PageIds : bits'[p] # bits[p] => InfoOf(p) \in dirty'
  BY <1>1, <1>3
<1> QED
  BY <1>1, <1>2, <1>5, <1>6, <1>7, ImageKept

(* A call that begins has nothing pending. *)
LEMMA BeginPending ==
  ASSUME SinglePage, NEW r \in Records, NEW l \in Lengths, NEW n \in Nat,
         call' = Begin(r, l, n)
  PROVE  Pending' = {} /\ call' # Hung
<1>1. call'.usage = NoUsage /\ call'.mode = "record"
  BY BeginFacts
<1>2. call' # Hung
  BY <1>1, Modes
<1> QED
  BY <1>1, <1>2 DEF Pending, NoUsage

(* releaseRecord commits: what it takes out of the bitmaps is written. *)
LEMMA DropImage ==
  ASSUME IInv, IInv', ImageTrue, NEW r \in Records, DropRecord(r),
         UNCHANGED chain, call' # Hung
  PROVE  ImageTrue'
<1> DEFINE ps == {p \in PageIds : usage[r][p] # {}}
           ds == dirty \cup {InfoOf(p) : p \in ps}
<1>1. /\ call = Idle /\ bits' = [p \in PageIds |-> bits[p] \ usage[r][p]]
      /\ disk' = Written(bits', ds)
  BY DEF DropRecord
<1>2. Pending = {} /\ call \notin {Hung, Broken}
  BY <1>1, ModeFacts, NonePending
<1>3. dirty \subseteq Indexes(chain) /\ OwnedAreUsed
  BY DEF IInv, FileInv, Types, TypeOK, Indexes
<1>4. \A p \in ps : InfoOf(p) \in Indexes(chain)
  BY <1>2, <1>3, InfoOfPage DEF IInv, OwnedAreUsed, Indexes
<1>5. ASSUME NEW p \in PageIds, bits'[p] # bits[p]
      PROVE  InfoOf(p) \in ds
  <2>1. p \in ps
    BY <1>1, <1>5
  <2> QED
    BY <2>1
<1>6. Beyond'
  BY BeyondNext
<1>7. dirty \subseteq ds /\ ds \subseteq Indexes(chain)
  BY <1>3, <1>4
<1> HIDE DEF ds
<1> QED
  BY <1>1, <1>2, <1>5, <1>6, <1>7, ImageWritten

LEMMA CommitImage ==
  ASSUME IInv, IInv', ImageTrue, Commit
  PROVE  ImageTrue'
<1>1. /\ call = Idle /\ call' = Idle /\ UNCHANGED <<chain, bits>>
      /\ disk' = Written(bits', dirty)
  BY DEF Commit
<1>2. Pending = {} /\ call' # Hung
  BY <1>1, ModeFacts, NonePending
<1>3. dirty \subseteq Indexes(chain)
  BY DEF IInv, FileInv, Types, TypeOK, Indexes
<1>4. Beyond'
  BY <1>2, BeyondNext
<1>5. \A p \in PageIds : bits'[p] # bits[p] => InfoOf(p) \in dirty
  BY <1>1
<1> QED
  BY <1>1, <1>2, <1>3, <1>4, <1>5, ImageWritten

LEMMA NextImage ==
  IInv /\ IInv' /\ SinglePage /\ Tidy /\ ImageTrue /\ [Next]_vars => ImageTrue'
<1> SUFFICES ASSUME IInv, IInv', SinglePage, Tidy, ImageTrue, [Next]_vars
             PROVE  ImageTrue'
  OBVIOUS
<1>1. CASE AcquirePage
  BY <1>1, AcquirePageImage
<1>2. CASE \E p \in PageIds : ReleasePage(p)
  BY <1>2, ReleasePageImage
<1>3. ASSUME NEW r \in Records, NEW l \in Lengths, StartRecord(r, l)
      PROVE  ImageTrue'
  <2>1. call = Idle /\ UNCHANGED <<chain, bits, dirty, disk>>
    BY <1>3 DEF StartRecord
  <2> QED
    BY <2>1, ModeFacts, NonePending, QuietImage
<1>4. CASE ChunkByWitness \/ ChunkByScan
  <2>1. InRecord /\ call.chunks > 0 /\ UNCHANGED <<chain, bits, dirty, disk>>
    BY <1>4 DEF ChunkByWitness, ChunkByScan
  <2> QED
    BY <2>1, NonePending, QuietImage
<1>5. CASE ChunkByGrowth
  BY <1>5, ChunkByGrowthImage
<1>6. CASE FinishRecord
  BY <1>6, FinishImage
<1>7. ASSUME NEW r \in Records, ReleaseRecord(r)
      PROVE  ImageTrue'
  <2>1. DropRecord(r) /\ call = Idle /\ UNCHANGED <<chain, call>>
    BY <1>7 DEF ReleaseRecord, DropRecord
  <2> QED
    BY <2>1, ModeFacts, DropImage
<1>8. ASSUME NEW r \in Records, NEW l \in Lengths, ReacquireRecord(r, l)
      PROVE  ImageTrue'
  <2>1. DropRecord(r) /\ call' = Begin(r, l, file') /\ UNCHANGED chain
    BY <1>8 DEF ReacquireRecord
  <2>2. file' \in Nat
    BY SetFacts DEF IInv, FileInv, Types, TypeOK
  <2>3. call' # Hung
    BY <2>1, <2>2, BeginPending
  <2> QED
    BY <2>1, <2>3, DropImage
<1>9. CASE Commit
  BY <1>9, CommitImage
<1>10. CASE UNCHANGED vars
  <2>1. UNCHANGED <<chain, bits, dirty, disk, call>>
    BY <1>10 DEF vars
  <2>2. Pending' = Pending /\ Beyond'
    BY <2>1 DEF Pending, InRecord, ImageTrue, Beyond, Cover
  <2> QED
    BY <2>1, <2>2, ImageKept DEF Gains
<1> QED
  BY <1>1, <1>2, <1>3, <1>4, <1>5, <1>6, <1>7, <1>8, <1>9, <1>10 DEF Next

-----------------------------------------------------------------------------
(* The theorem.                                                              *)

(* Although freeSpaceInfoCommit writes only the dirty info pages, each with the
   link to the next one, a load of what is on disk when nothing is dirty gets
   back the chain and the bitmaps: every path that changes a bitmap or a link
   makes the info page it is written to dirty. *)
THEOREM CleanImage == ASSUME SinglePage PROVE Spec => []CommittedImage
<1>1. Init => ImageTrue
  BY InitImage
<1>2. IInv /\ IInv' /\ Tidy /\ ImageTrue /\ [Next]_vars => ImageTrue'
  BY NextImage
<1>3. IInv /\ ImageTrue => CommittedImage
  BY ImageRead DEF CommittedImage
<1> QED
  BY <1>1, <1>2, <1>3, Invariance, TidyInvariance, PTL DEF Spec

=============================================================================
