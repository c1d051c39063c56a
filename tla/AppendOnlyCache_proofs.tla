----------------------- MODULE AppendOnlyCache_proofs ------------------------
(***************************************************************************)
(* What the cache of the AppendOnly policy promises for every size of the  *)
(* cache, every set of pages and every amount of space.                    *)
(***************************************************************************)
EXTENDS AppendOnlyCache, SequenceTheorems, WellFoundedInduction, TLAPS

-----------------------------------------------------------------------------
(* Least elements.                                                           *)

(* Every set on which a number is defined has an element with the least. *)
LEMMA LeastExists ==
  ASSUME NEW S, S # {}, NEW f \in [S -> Nat]
  PROVE  \E x \in S : \A y \in S : f[x] <= f[y]
<1> DEFINE T == {f[x] : x \in S}
           R == {ss \in Nat \X Nat : ss[1] < ss[2]}
<1>1. T \subseteq Nat /\ T # {}
  OBVIOUS
<1>2. IsWellFoundedOn(R, Nat)
  BY NatLessThanWellFounded DEF OpToRel
<1>3. PICK m \in T : \A n \in T : ~(<<n, m>> \in R)
  BY <1>1, <1>2, WFMin
<1>4. ASSUME NEW n \in T PROVE m <= n
  <2>1. ~(n < m)
    BY <1>1, <1>3
  <2> QED
    BY <2>1, <1>1
<1> QED
  BY <1>4

(* What an element of the list is. *)
LEMMA ListFacts ==
  ASSUME cache \in Seq(Elements), NEW k \in DOMAIN cache
  PROVE  /\ k \in Nat /\ cache[k] \in Elements
         /\ cache[k].id \in Pages /\ cache[k].id \in Nat /\ cache[k].id # NoPage
         /\ cache[k].freeSpace \in Spaces /\ cache[k].freeSpace \in Nat
<1>1. k \in 1 .. Len(cache) /\ Len(cache) \in Nat
  OBVIOUS
<1>2. cache[k] \in [id : Pages, freeSpace : Spaces]
  BY <1>1, ElementOfSeq DEF Elements
<1>3. cache[k].id \in Pages /\ cache[k].freeSpace \in Spaces
  BY <1>2
<1>4. cache[k].id \in Nat /\ cache[k].freeSpace \in Nat
  <2>1. Pages \subseteq Nat /\ Spaces \subseteq Nat
    BY CacheAssumption DEF Spaces
  <2> QED
    BY <1>3, <2>1
<1>5. cache[k].id # NoPage
  BY <1>4 DEF NoPage
<1>6. cache[k] \in Elements
  BY <1>2 DEF Elements
<1> QED
  BY <1>1, <1>3, <1>4, <1>5, <1>6

(* Of some elements of the list, there is a first one with the least space. *)
LEMMA FirstLeast ==
  ASSUME cache \in Seq(Elements), NEW I \in SUBSET DOMAIN cache, I # {}
  PROVE  \E i \in I : \A j \in I :
           \/ cache[i].freeSpace < cache[j].freeSpace
           \/ cache[i].freeSpace = cache[j].freeSpace /\ i <= j
<1> DEFINE f == [i \in I |-> cache[i].freeSpace]
<1>1. \A i \in I : i \in Nat /\ cache[i] \in Elements /\ cache[i].freeSpace \in Nat
  BY ListFacts
<1>2. f \in [I -> Nat]
  BY <1>1
<1>3. PICK a \in I : \A j \in I : f[a] <= f[j]
  BY <1>2, LeastExists
<1> DEFINE J == {j \in I : cache[j].freeSpace = cache[a].freeSpace}
           g == [j \in J |-> j]
<1>4. J # {} /\ g \in [J -> Nat]
  BY <1>1
<1>5. PICK b \in J : \A j \in J : g[b] <= g[j]
  BY <1>4, LeastExists
<1>6. ASSUME NEW j \in I
      PROVE  \/ cache[b].freeSpace < cache[j].freeSpace
             \/ cache[b].freeSpace = cache[j].freeSpace /\ b <= j
  <2>1. f[a] <= f[j] /\ f[a] = cache[a].freeSpace /\ f[j] = cache[j].freeSpace
    BY <1>3
  <2>2. CASE j \in J
    BY <2>2, <1>5
  <2>3. CASE j \notin J
    BY <2>1, <2>3, <1>1
  <2> QED
    BY <2>2, <2>3
<1> QED
  BY <1>6

-----------------------------------------------------------------------------
(* The list without one of its elements, and with one in front.              *)

LEMMA WithoutFacts ==
  ASSUME cache \in Seq(Elements), NEW i \in DOMAIN cache
  PROVE  /\ Without(i) \in Seq(Elements)
         /\ Len(Without(i)) = Len(cache) - 1
         /\ \A k \in DOMAIN Without(i) :
              Without(i)[k] = cache[IF k < i THEN k ELSE k + 1]
<1> DEFINE a == SubSeq(cache, 1, i - 1)
           b == SubSeq(cache, i + 1, Len(cache))
<1>1. i \in 1 .. Len(cache) /\ Len(cache) \in Nat
  OBVIOUS
<1>2. a \in Seq(Elements) /\ Len(a) = i - 1 /\ \A k \in 1 .. i - 1 : a[k] = cache[k]
  BY <1>1, SubSeqProperties
<1>3. /\ b \in Seq(Elements) /\ Len(b) = Len(cache) - i
      /\ \A k \in 1 .. Len(cache) - i : b[k] = cache[i + k]
  BY <1>1, SubSeqProperties
<1>4. /\ a \o b \in Seq(Elements) /\ Len(a \o b) = Len(cache) - 1
      /\ \A k \in 1 .. Len(cache) - 1 :
           (a \o b)[k] = IF k <= i - 1 THEN a[k] ELSE b[k - (i - 1)]
  <2> HIDE DEF a, b
  <2>1. /\ a \o b \in Seq(Elements) /\ Len(a \o b) = Len(a) + Len(b)
        /\ \A k \in 1 .. Len(a) + Len(b) :
             (a \o b)[k] = IF k <= Len(a) THEN a[k] ELSE b[k - Len(a)]
    BY <1>2, <1>3, ConcatProperties
  <2>2. Len(a) = i - 1 /\ Len(a) + Len(b) = Len(cache) - 1
    BY <1>1, <1>2, <1>3
  <2> QED
    BY <2>1, <2>2
<1>5. ASSUME NEW k \in 1 .. Len(cache) - 1
      PROVE  (a \o b)[k] = cache[IF k < i THEN k ELSE k + 1]
  <2>1. CASE k < i
    BY <2>1, <1>1, <1>2, <1>4
  <2>2. CASE ~(k < i)
    <3>1. k - (i - 1) \in 1 .. Len(cache) - i /\ i + (k - (i - 1)) = k + 1
      BY <2>2, <1>1
    <3>2. b[k - (i - 1)] = cache[k + 1]
      BY <3>1, <1>3
    <3>3. (a \o b)[k] = b[k - (i - 1)]
      <4> HIDE DEF a, b
      <4> QED
        BY <2>2, <1>1, <1>4
    <3> QED
      BY <2>2, <3>2, <3>3
  <2> QED
    BY <2>1, <2>2
<1>6. DOMAIN (a \o b) = 1 .. Len(cache) - 1
  BY <1>4, LenProperties
<1> QED
  BY <1>4, <1>5, <1>6 DEF Without

LEMMA InFrontFacts ==
  ASSUME NEW c \in Seq(Elements), NEW e \in Elements
  PROVE  /\ <<e>> \o c \in Seq(Elements)
         /\ Len(<<e>> \o c) = Len(c) + 1
         /\ \A k \in DOMAIN (<<e>> \o c) :
              (<<e>> \o c)[k] = IF k = 1 THEN e ELSE c[k - 1]
<1>1. <<e>> \in Seq(Elements) /\ Len(<<e>>) = 1 /\ <<e>>[1] = e
  OBVIOUS
<1>2. /\ <<e>> \o c \in Seq(Elements) /\ Len(<<e>> \o c) = Len(c) + 1
      /\ \A k \in 1 .. Len(c) + 1 :
           (<<e>> \o c)[k] = IF k <= 1 THEN <<e>>[k] ELSE c[k - 1]
  BY <1>1, ConcatProperties
<1>3. DOMAIN (<<e>> \o c) = 1 .. Len(c) + 1
  BY <1>2, LenProperties
<1> QED
  BY <1>1, <1>2, <1>3

-----------------------------------------------------------------------------
(* The invariant.                                                            *)

(* The three facts hold each other up: the space is that of the last update
   because update finds the only element of the page. *)
IInv == TypeOK /\ CacheBounded /\ CacheTrue

LEMMA InitInv == Init => IInv
  BY CacheAssumption DEF Init, IInv, TypeOK, CacheBounded, CacheTrue

(* An element that leaves the list takes its page along. *)
LEMMA WithoutInv ==
  ASSUME IInv, NEW i \in DOMAIN cache
  PROVE  /\ Without(i) \in Seq(Elements)
         /\ Len(Without(i)) = Len(cache) - 1
         /\ \A k \in DOMAIN Without(i) :
              \E n \in DOMAIN cache \ {i} : Without(i)[k] = cache[n]
         /\ \A k \in DOMAIN Without(i) : Without(i)[k].id # cache[i].id
         /\ \A k, n \in DOMAIN Without(i) :
              Without(i)[k].id = Without(i)[n].id => k = n
<1> DEFINE w == Without(i)
           old(k) == IF k < i THEN k ELSE k + 1
<1>1. cache \in Seq(Elements)
  BY DEF IInv, TypeOK
<1>2. /\ w \in Seq(Elements) /\ Len(w) = Len(cache) - 1
      /\ \A k \in DOMAIN w : w[k] = cache[old(k)]
  BY <1>1, WithoutFacts
<1>3. /\ DOMAIN w = 1 .. Len(cache) - 1 /\ DOMAIN cache = 1 .. Len(cache)
      /\ Len(cache) \in Nat
  BY <1>1, <1>2
<1>4. \A k \in DOMAIN w : old(k) \in DOMAIN cache \ {i}
  BY <1>3
<1>5. \A k, n \in DOMAIN w : old(k) = old(n) => k = n
  BY <1>3
<1>6. \A m, n \in DOMAIN cache : cache[m].id = cache[n].id => m = n
  BY DEF IInv, CacheBounded
<1> HIDE DEF w, old
<1>7. \A k \in DOMAIN w : \E n \in DOMAIN cache \ {i} : w[k] = cache[n]
  BY <1>2, <1>4
<1>8. \A k \in DOMAIN w : w[k].id # cache[i].id
  BY <1>6, <1>7
<1>9. ASSUME NEW k \in DOMAIN w, NEW n \in DOMAIN w, w[k].id = w[n].id
      PROVE  k = n
  BY <1>2, <1>4, <1>5, <1>6, <1>9
<1> QED
  BY <1>2, <1>7, <1>8, <1>9 DEF w

LEMMA UpdateCachedInv ==
  ASSUME IInv, NEW id \in Pages, NEW f \in 0 .. MaxSpace, UpdateCached(id, f)
  PROVE  IInv'
<1>1. PICK i \in DOMAIN cache :
        /\ cache[i].id = id
        /\ cache' = IF f = 0 THEN Without(i) ELSE [cache EXCEPT ![i].freeSpace = f]
  BY DEF UpdateCached
<1>2. /\ cache \in Seq(Elements) /\ space \in [Pages -> 0 .. MaxSpace]
      /\ \A k \in DOMAIN cache : cache[k] \in Elements
      /\ Len(cache) <= limit /\ Len(cache) \in Nat
      /\ \A m, n \in DOMAIN cache : cache[m].id = cache[n].id => m = n
      /\ \A k \in DOMAIN cache : cache[k].freeSpace = space[cache[k].id]
  BY DEF IInv, TypeOK, CacheBounded, CacheTrue
<1>3. /\ space' = [space EXCEPT ![id] = f] /\ minFreeSpace' = minFreeSpace
      /\ space' \in [Pages -> 0 .. MaxSpace]
      /\ space'[id] = f
      /\ \A p \in Pages \ {id} : space'[p] = space[p]
  BY <1>2 DEF UpdateCached, Seen
<1>4. CASE f = 0
  <2>1. /\ cache' \in Seq(Elements) /\ Len(cache') = Len(cache) - 1
        /\ \A k \in DOMAIN cache' : \E n \in DOMAIN cache \ {i} : cache'[k] = cache[n]
        /\ \A k \in DOMAIN cache' : cache'[k].id # id
        /\ \A k, n \in DOMAIN cache' : cache'[k].id = cache'[n].id => k = n
    BY <1>1, <1>4, WithoutInv
  <2>2. TypeOK'
    BY <2>1, <1>3 DEF TypeOK, IInv
  <2>3. CacheBounded'
    BY <2>1, <1>2, CacheAssumption DEF CacheBounded
  <2>4. CacheTrue'
    <3> SUFFICES ASSUME NEW k \in DOMAIN cache'
                 PROVE  cache'[k].freeSpace = space'[cache'[k].id]
      BY DEF CacheTrue
    <3>1. PICK n \in DOMAIN cache : cache'[k] = cache[n]
      BY <2>1
    <3>2. cache[n].id \in Pages \ {id}
      BY <2>1, <3>1, <1>2 DEF Elements
    <3> QED
      BY <3>1, <3>2, <1>2, <1>3
  <2> QED
    BY <2>2, <2>3, <2>4 DEF IInv
<1>5. CASE f # 0
  <2>1. cache' = [cache EXCEPT ![i].freeSpace = f]
    BY <1>1, <1>5
  <2>2. /\ DOMAIN cache' = DOMAIN cache
        /\ cache'[i] = [id |-> id, freeSpace |-> f]
        /\ \A k \in DOMAIN cache \ {i} : cache'[k] = cache[k]
    <3>1. cache'[i] = [cache[i] EXCEPT !.freeSpace = f]
      BY <2>1
    <3>2. cache[i] \in [id : Pages, freeSpace : Spaces]
      BY <1>2 DEF Elements
    <3>3. [cache[i] EXCEPT !.freeSpace = f] = [id |-> id, freeSpace |-> f]
      BY <3>2, <1>1
    <3> QED
      BY <2>1, <3>1, <3>3
  <2>3. [id |-> id, freeSpace |-> f] \in Elements
    BY <1>5, CacheAssumption DEF Elements, Spaces
  <2>4. cache' \in Seq(Elements) /\ Len(cache') = Len(cache)
    <3>1. cache' \in [1 .. Len(cache) -> Elements]
      BY <2>1, <2>2, <2>3, <1>2
    <3> QED
      BY <3>1, <1>2
  <2>5. TypeOK'
    BY <2>4, <1>3 DEF TypeOK, IInv
  <2>6. \A k \in DOMAIN cache' : cache'[k].id = cache[k].id
    BY <2>2, <1>1
  <2>7. CacheBounded'
    BY <2>2, <2>4, <2>6, <1>2 DEF CacheBounded
  <2>8. CacheTrue'
    <3> SUFFICES ASSUME NEW k \in DOMAIN cache'
                 PROVE  cache'[k].freeSpace = space'[cache'[k].id]
      BY DEF CacheTrue
    <3>1. CASE k = i
      BY <3>1, <2>2, <1>3
    <3>2. CASE k # i
      <4>1. cache'[k] = cache[k] /\ cache[k].id # id /\ cache[k].id \in Pages
        BY <3>2, <2>2, <1>1, <1>2 DEF Elements
      <4> QED
        BY <4>1, <2>2, <1>2, <1>3
    <3> QED
      BY <3>1, <3>2
  <2> QED
    BY <2>5, <2>7, <2>8 DEF IInv
<1> QED
  BY <1>4, <1>5

(* A page that is not in the list may change its space unseen. *)
LEMMA UnlistedInv ==
  ASSUME IInv, NEW id \in Pages \ CachedIds, NEW f \in 0 .. MaxSpace,
         Seen(id, f), UNCHANGED cache, minFreeSpace' \in {-1} \cup Spaces
  PROVE  IInv'
<1>1. /\ space' \in [Pages -> 0 .. MaxSpace]
      /\ \A p \in Pages \ {id} : space'[p] = space[p]
  BY DEF Seen, IInv, TypeOK
<1>2. \A k \in DOMAIN cache : cache[k].id \in Pages \ {id}
  BY ListFacts DEF CachedIds, IInv, TypeOK
<1> QED
  BY <1>1, <1>2 DEF IInv, TypeOK, CacheBounded, CacheTrue

(* A page in front of a list c that has room for it and does not hold it. *)
LEMMA InFrontInv ==
  ASSUME IInv, NEW c \in Seq(Elements), Len(c) < limit,
         NEW id \in Pages \ CachedIds, NEW f \in Spaces,
         \A k \in DOMAIN c : \E n \in DOMAIN cache : c[k] = cache[n],
         \A k, n \in DOMAIN c : c[k].id = c[n].id => k = n,
         cache' = <<[id |-> id, freeSpace |-> f]>> \o c,
         Seen(id, f), minFreeSpace' \in {-1} \cup Spaces
  PROVE  IInv'
<1> DEFINE e == [id |-> id, freeSpace |-> f]
<1>1. /\ space' = [space EXCEPT ![id] = f]
      /\ space' \in [Pages -> 0 .. MaxSpace] /\ space'[id] = f
      /\ \A p \in Pages \ {id} : space'[p] = space[p]
  BY DEF Seen, IInv, TypeOK, Spaces
<1>2. /\ cache' \in Seq(Elements) /\ Len(cache') = Len(c) + 1
      /\ \A k \in DOMAIN cache' : cache'[k] = IF k = 1 THEN e ELSE c[k - 1]
  BY InFrontFacts DEF Elements
<1>3. /\ \A k \in DOMAIN cache' : k = 1 \/ k - 1 \in DOMAIN c
      /\ \A k, n \in DOMAIN cache' : k - 1 = n - 1 => k = n
      /\ Len(c) \in Nat
  BY <1>2
<1>4. \A k \in DOMAIN c : /\ c[k].id \in Pages \ {id}
                          /\ c[k].freeSpace = space[c[k].id]
  BY ListFacts DEF CachedIds, IInv, TypeOK, CacheTrue
<1>5. TypeOK'
  BY <1>1, <1>2 DEF TypeOK
<1>6. CacheBounded'
  <2>1. Len(cache') <= limit
    BY <1>2, <1>3, CacheAssumption
  <2>2. ASSUME NEW k \in DOMAIN cache', NEW n \in DOMAIN cache',
               cache'[k].id = cache'[n].id
        PROVE  k = n
    <3>1. CASE k = 1 \/ n = 1
      BY <2>2, <3>1, <1>2, <1>3, <1>4
    <3>2. CASE k # 1 /\ n # 1
      BY <2>2, <3>2, <1>2, <1>3
    <3> QED
      BY <3>1, <3>2
  <2> QED
    BY <2>1, <2>2 DEF CacheBounded
<1>7. CacheTrue'
  <2> SUFFICES ASSUME NEW k \in DOMAIN cache'
               PROVE  cache'[k].freeSpace = space'[cache'[k].id]
    BY DEF CacheTrue
  <2>1. CASE k = 1
    BY <2>1, <1>1, <1>2
  <2>2. CASE k # 1
    BY <2>2, <1>1, <1>2, <1>3, <1>4
  <2> QED
    BY <2>1, <2>2
<1> QED
  BY <1>5, <1>6, <1>7 DEF IInv

LEMMA ReplaceInv ==
  ASSUME IInv, NEW id \in Pages, NEW f \in 0 .. MaxSpace, Replace(id, f)
  PROVE  IInv'
<1>1. /\ cache \in Seq(Elements) /\ Len(cache) = limit /\ limit \in Nat \ {0}
      /\ id \in Pages \ CachedIds /\ f \in Spaces
  BY CacheAssumption DEF Replace, IInv, TypeOK, Spaces
<1>2. 1 \in DOMAIN cache
  <2>1. DOMAIN cache = 1 .. limit
    BY <1>1
  <2> QED
    BY <2>1, <1>1
<1>3. LeastSpace \in DOMAIN cache
  <2>1. \E i \in DOMAIN cache :
          \A j \in DOMAIN cache :
            \/ cache[i].freeSpace < cache[j].freeSpace
            \/ cache[i].freeSpace = cache[j].freeSpace /\ i <= j
    BY <1>1, <1>2, FirstLeast
  <2> QED
    BY <2>1 DEF LeastSpace
<1> DEFINE i == LeastSpace
<1>4. cache[i].freeSpace \in Spaces
  BY <1>1, <1>3, ListFacts
<1>5. CASE f <= cache[i].freeSpace
  BY <1>1, <1>4, <1>5, UnlistedInv DEF Replace
<1>6. CASE ~(f <= cache[i].freeSpace)
  <2>1. /\ Without(i) \in Seq(Elements)
        /\ Len(Without(i)) = Len(cache) - 1
        /\ \A k \in DOMAIN Without(i) :
             \E n \in DOMAIN cache : Without(i)[k] = cache[n]
        /\ \A k, n \in DOMAIN Without(i) :
             Without(i)[k].id = Without(i)[n].id => k = n
    BY <1>3, WithoutInv
  <2>2. /\ cache' = <<[id |-> id, freeSpace |-> f]>> \o Without(i)
        /\ minFreeSpace' = -1 /\ Seen(id, f)
    BY <1>6 DEF Replace
  <2>3. Len(Without(i)) < limit
    BY <2>1, <1>1
  <2> QED
    BY <2>1, <2>2, <2>3, <1>1, InFrontInv
<1> QED
  BY <1>5, <1>6

(* update says what it was told of the page, lists no other page, and does not
   list one without space. *)
LEMMA UpdateListed ==
  ASSUME IInv, NEW id \in Pages, NEW f \in 0 .. MaxSpace, Update(id, f)
  PROVE  /\ space' = [space EXCEPT ![id] = f]
         /\ CachedIds' \subseteq CachedIds \cup {id}
         /\ f = 0 => id \notin CachedIds'
<1>1. space' = [space EXCEPT ![id] = f]
  BY DEF Update, UpdateCached, UpdateFull, Insert, TurnDown, Replace, Seen
<1>2. cache \in Seq(Elements)
  BY DEF IInv, TypeOK
<1>3. ASSUME UpdateCached(id, f)
      PROVE  CachedIds' \subseteq CachedIds \cup {id} /\ (f = 0 => id \notin CachedIds')
  <2>1. PICK i \in DOMAIN cache :
          /\ cache[i].id = id
          /\ cache' = IF f = 0 THEN Without(i) ELSE [cache EXCEPT ![i].freeSpace = f]
    BY <1>3 DEF UpdateCached
  <2>2. CASE f = 0
    <3>1. /\ \A k \in DOMAIN cache' : \E n \in DOMAIN cache \ {i} : cache'[k] = cache[n]
          /\ \A k \in DOMAIN cache' : cache'[k].id # id
      BY <2>1, <2>2, WithoutInv
    <3> QED
      BY <3>1 DEF CachedIds
  <2>3. CASE f # 0
    <3>1. cache' = [cache EXCEPT ![i].freeSpace = f]
      BY <2>1, <2>3
    <3>2. cache[i] \in [id : Pages, freeSpace : Spaces]
      BY <1>2, ListFacts DEF Elements
    <3>3. [cache[i] EXCEPT !.freeSpace = f].id = cache[i].id
      BY <3>2
    <3>4. /\ DOMAIN cache' = DOMAIN cache
          /\ \A k \in DOMAIN cache : cache'[k].id = cache[k].id
      BY <3>1, <3>3
    <3> QED
      BY <2>3, <3>4 DEF CachedIds
  <2> QED
    BY <2>2, <2>3
<1>4. ASSUME NEW c \in Seq(Elements), f > 0, id \notin CachedIds,
             \A k \in DOMAIN c : \E n \in DOMAIN cache : c[k] = cache[n],
             cache' = <<[id |-> id, freeSpace |-> f]>> \o c
      PROVE  CachedIds' \subseteq CachedIds \cup {id}
  <2> DEFINE e == [id |-> id, freeSpace |-> f]
  <2>1. e \in Elements
    BY <1>4, CacheAssumption DEF Elements, Spaces
  <2>2. /\ Len(cache') = Len(c) + 1
        /\ \A k \in DOMAIN cache' : cache'[k] = IF k = 1 THEN e ELSE c[k - 1]
        /\ \A k \in DOMAIN cache' : k = 1 \/ k - 1 \in DOMAIN c
    <3>1. /\ cache' \in Seq(Elements) /\ Len(cache') = Len(c) + 1
          /\ \A k \in DOMAIN cache' : cache'[k] = IF k = 1 THEN e ELSE c[k - 1]
      BY <1>4, <2>1, InFrontFacts
    <3>2. \A k \in DOMAIN cache' : k = 1 \/ k - 1 \in DOMAIN c
      BY <3>1
    <3> QED
      BY <3>1, <3>2
  <2>3. ASSUME NEW k \in DOMAIN cache'
        PROVE  cache'[k].id \in CachedIds \cup {id}
    BY <1>4, <2>2 DEF CachedIds
  <2> QED
    BY <2>3 DEF CachedIds
<1>5. ASSUME Insert(id, f)
      PROVE  CachedIds' \subseteq CachedIds \cup {id} /\ (f = 0 => id \notin CachedIds')
  <2>1. \A k \in DOMAIN cache : \E n \in DOMAIN cache : cache[k] = cache[n]
    OBVIOUS
  <2> QED
    BY <1>2, <1>4, <1>5, <2>1 DEF Insert
<1>6. ASSUME Replace(id, f)
      PROVE  CachedIds' \subseteq CachedIds \cup {id} /\ (f = 0 => id \notin CachedIds')
  <2>1. id \notin CachedIds /\ f > 0 /\ Len(cache) = limit /\ limit \in Nat \ {0}
    BY <1>6, CacheAssumption DEF Replace
  <2>2. CASE cache' = cache
    BY <2>1, <2>2 DEF CachedIds
  <2>3. CASE cache' = <<[id |-> id, freeSpace |-> f]>> \o Without(LeastSpace)
    <3>1. \E i \in DOMAIN cache :
            \A j \in DOMAIN cache :
              \/ cache[i].freeSpace < cache[j].freeSpace
              \/ cache[i].freeSpace = cache[j].freeSpace /\ i <= j
      <4>1. 1 \in DOMAIN cache
        BY <1>2, <2>1
      <4> QED
        BY <1>2, <4>1, FirstLeast
    <3>2. LeastSpace \in DOMAIN cache
      BY <3>1 DEF LeastSpace
    <3>3. /\ Without(LeastSpace) \in Seq(Elements)
          /\ \A k \in DOMAIN Without(LeastSpace) :
               \E n \in DOMAIN cache : Without(LeastSpace)[k] = cache[n]
      BY <3>2, WithoutInv
    <3>4. CachedIds' \subseteq CachedIds \cup {id}
      BY <1>4, <2>1, <2>3, <3>3
    <3>5. f # 0
      BY <2>1
    <3> QED
      BY <3>4, <3>5
  <2> QED
    BY <1>6, <2>2, <2>3 DEF Replace
<1>7. ASSUME UpdateFull(id, f) \/ TurnDown(id, f)
      PROVE  CachedIds' \subseteq CachedIds \cup {id} /\ (f = 0 => id \notin CachedIds')
  BY <1>7 DEF UpdateFull, TurnDown, CachedIds
<1> QED
  BY <1>1, <1>3, <1>5, <1>6, <1>7 DEF Update

LEMMA NextInv == IInv /\ [Next]_vars => IInv'
<1> SUFFICES ASSUME IInv, [Next]_vars PROVE IInv'
  OBVIOUS
<1>1. CASE UNCHANGED vars
  BY <1>1 DEF vars, IInv, TypeOK, CacheBounded, CacheTrue
<1>2. ASSUME NEW id \in Pages, NEW f \in 0 .. MaxSpace, Update(id, f)
      PROVE  IInv'
  <2>1. CASE UpdateCached(id, f)
    BY <2>1, <1>2, UpdateCachedInv
  <2>2. CASE UpdateFull(id, f) \/ TurnDown(id, f)
    BY <2>2, <1>2, UnlistedInv DEF UpdateFull, TurnDown, IInv, TypeOK
  <2>3. CASE Insert(id, f)
    <3>1. /\ cache \in Seq(Elements) /\ Len(cache) < limit /\ f \in Spaces
          /\ id \in Pages \ CachedIds /\ Seen(id, f)
          /\ cache' = <<[id |-> id, freeSpace |-> f]>> \o cache
          /\ minFreeSpace' \in {-1} \cup Spaces
          /\ \A k, n \in DOMAIN cache : cache[k].id = cache[n].id => k = n
      BY <2>3, <1>2 DEF Insert, IInv, TypeOK, CacheBounded, Spaces
    <3> QED
      BY <3>1, InFrontInv
  <2>4. CASE Replace(id, f)
    BY <2>4, <1>2, ReplaceInv
  <2> QED
    BY <1>2, <2>1, <2>2, <2>3, <2>4 DEF Update
<1> QED
  BY <1>1, <1>2 DEF Next

-----------------------------------------------------------------------------
(* The search.                                                               *)

(* Element i is the first with the least space of those of the first k that
   have at least need; 0 if there is none. *)
IsBest(i, k, need) ==
  IF i = 0 THEN \A j \in 1 .. k : cache[j].freeSpace < need
  ELSE /\ i \in 1 .. k /\ cache[i].freeSpace >= need
       /\ \A j \in 1 .. k : cache[j].freeSpace >= need =>
            \/ cache[i].freeSpace < cache[j].freeSpace
            \/ cache[i].freeSpace = cache[j].freeSpace /\ i <= j

(* One turn of the loop, with element i the best so far. *)
Turned(i, k, need) ==
  IF cache[k].freeSpace >= need /\ (i = 0 \/ Better(k, i, need)) THEN k ELSE i

(* What the loop keeps: i is the best of the elements it has seen. *)
LEMMA TurnKeepsBest ==
  ASSUME cache \in Seq(Elements), NEW need \in Spaces,
         NEW k \in 1 .. Len(cache), NEW i, IsBest(i, k - 1, need)
  PROVE  IsBest(Turned(i, k, need), k, need)
<1>1. /\ Len(cache) \in Nat /\ k \in Nat /\ need \in Nat /\ k # 0
      /\ \A j \in 1 .. k : cache[j].freeSpace \in Nat
  BY ListFacts DEF Spaces
<1>2. \A j \in 1 .. k : j = k \/ j \in 1 .. k - 1
  BY <1>1
<1>3. i = 0 \/ (i \in 1 .. k - 1 /\ i \in 1 .. k /\ i # k)
  BY <1>1 DEF IsBest
<1>4. CASE cache[k].freeSpace >= need /\ (i = 0 \/ Better(k, i, need))
  <2>1. Turned(i, k, need) = k /\ cache[k].freeSpace >= need
    BY <1>4 DEF Turned
  <2>2. ASSUME NEW j \in 1 .. k - 1, cache[j].freeSpace >= need
        PROVE  cache[k].freeSpace < cache[j].freeSpace
    <3>1. j \in 1 .. k /\ i # 0
      BY <1>1, <2>2 DEF IsBest
    <3>2. cache[i].freeSpace - need > cache[k].freeSpace - need
      BY <1>4, <3>1 DEF Better
    <3>3. cache[i].freeSpace <= cache[j].freeSpace
      BY <1>1, <1>3, <2>2, <3>1 DEF IsBest
    <3>4. /\ cache[i].freeSpace \in Nat /\ cache[k].freeSpace \in Nat
          /\ cache[j].freeSpace \in Nat
      <4>1. i \in 1 .. k /\ j \in 1 .. k /\ k \in 1 .. k
        BY <1>1, <1>3, <3>1
      <4> QED
        BY <1>1, <4>1
    <3>5. ASSUME NEW x \in Nat, NEW y \in Nat, NEW z \in Nat, NEW n \in Nat,
                 x - n > y - n, x <= z
          PROVE  y < z
      BY <3>5
    <3> QED
      BY <1>1, <3>2, <3>3, <3>4, <3>5
  <2>3. IsBest(k, k, need)
    BY <1>1, <1>2, <2>1, <2>2 DEF IsBest
  <2> QED
    BY <2>1, <2>3
<1>5. CASE ~(cache[k].freeSpace >= need /\ (i = 0 \/ Better(k, i, need)))
  BY <1>1, <1>2, <1>3, <1>5 DEF IsBest, Turned, Better
<1> QED
  BY <1>4, <1>5

LEMMA BestUnique ==
  ASSUME cache \in Seq(Elements), NEW need \in Spaces, NEW k \in 0 .. Len(cache),
         NEW i, IsBest(i, k, need), NEW j, IsBest(j, k, need)
  PROVE  i = j
<1>1. /\ Len(cache) \in Nat /\ k \in Nat /\ need \in Nat
      /\ \A n \in 1 .. k : cache[n].freeSpace \in Nat
  BY ListFacts DEF Spaces
<1> QED
  BY <1>1 DEF IsBest

LEMMA BestExists ==
  ASSUME cache \in Seq(Elements), NEW need \in Spaces, NEW k \in 0 .. Len(cache)
  PROVE  \E i : IsBest(i, k, need)
<1> DEFINE I == {i \in 1 .. k : cache[i].freeSpace >= need}
<1>1. /\ Len(cache) \in Nat /\ k \in Nat /\ need \in Nat
      /\ \A n \in 1 .. k : cache[n].freeSpace \in Nat
      /\ I \in SUBSET DOMAIN cache
  BY ListFacts DEF Spaces
<1>2. CASE I = {}
  BY <1>1, <1>2 DEF IsBest
<1>3. CASE I # {}
  <2>1. PICK i \in I : \A j \in I :
               \/ cache[i].freeSpace < cache[j].freeSpace
               \/ cache[i].freeSpace = cache[j].freeSpace /\ i <= j
    BY <1>1, <1>3, FirstLeast
  <2>2. i \in 1 .. k /\ cache[i].freeSpace >= need /\ i # 0
    BY <1>1
  <2>3. \A j \in 1 .. k : cache[j].freeSpace >= need => j \in I
    OBVIOUS
  <2>4. IsBest(i, k, need)
    BY <2>1, <2>2, <2>3 DEF IsBest
  <2> QED
    BY <2>4
<1> QED
  BY <1>2, <1>3

(* A list of places as the loop goes through them. *)
IsSearch(b, need) ==
  b = [k \in 0 .. Len(cache) |-> IF k = 0 THEN 0 ELSE Turned(b[k - 1], k, need)]

(* The recursive function that stands for the loop exists. *)
LEMMA SearchExists ==
  ASSUME cache \in Seq(Elements), NEW need \in Spaces
  PROVE  \E b : IsSearch(b, need)
<1> DEFINE b == [k \in 0 .. Len(cache) |-> CHOOSE i : IsBest(i, k, need)]
<1>1. Len(cache) \in Nat
  OBVIOUS
<1>2. \A k \in 0 .. Len(cache) : IsBest(b[k], k, need)
  BY BestExists
<1> HIDE DEF b
<1>3. ASSUME NEW k \in 0 .. Len(cache)
      PROVE  b[k] = IF k = 0 THEN 0 ELSE Turned(b[k - 1], k, need)
  <2>1. CASE k = 0
    <3>1. IsBest(0, 0, need)
      BY DEF IsBest
    <3> QED
      BY <1>2, <2>1, <3>1, BestUnique
  <2>2. CASE k # 0
    <3>1. k \in 1 .. Len(cache) /\ k - 1 \in 0 .. Len(cache)
      BY <1>1, <2>2
    <3>2. IsBest(Turned(b[k - 1], k, need), k, need)
      BY <1>2, <3>1, TurnKeepsBest
    <3> QED
      BY <1>2, <2>2, <3>2, BestUnique
  <2> QED
    BY <2>1, <2>2
<1>4. b = [k \in 0 .. Len(cache) |-> b[k]]
  BY DEF b
<1>5. IsSearch(b, need)
  BY <1>3, <1>4 DEF IsSearch
<1> QED
  BY <1>5

(* After every turn the loop has the best of the elements it has seen: the
   first turn after which it had not would follow one after which it had. *)
LEMMA SearchFindsBest ==
  ASSUME cache \in Seq(Elements), NEW need \in Spaces
  PROVE  IsBest(Searched(need)[Len(cache)], Len(cache), need)
<1> DEFINE b == Searched(need)
           Bad == {k \in 0 .. Len(cache) : ~IsBest(b[k], k, need)}
           f == [k \in Bad |-> k]
<1>1. Len(cache) \in Nat
  OBVIOUS
<1>2. b = CHOOSE x : IsSearch(x, need)
  BY DEF Searched, IsSearch, Turned
<1>3. IsSearch(b, need)
  <2> HIDE DEF b
  <2> QED
    BY <1>2, SearchExists
<1> HIDE DEF b
<1>4. \A k \in 0 .. Len(cache) : b[k] = IF k = 0 THEN 0 ELSE Turned(b[k - 1], k, need)
  BY <1>3 DEF IsSearch
<1>5. Bad = {}
  <2>1. SUFFICES ASSUME Bad # {} PROVE FALSE
    OBVIOUS
  <2>2. f \in [Bad -> Nat]
    BY <1>1
  <2>3. PICK k \in Bad : \A q \in Bad : f[k] <= f[q]
    <3> HIDE DEF f, Bad
    <3> QED
      BY <2>1, <2>2, LeastExists
  <2>4. k \in 0 .. Len(cache) /\ k \in Nat /\ ~IsBest(b[k], k, need)
    BY <1>1
  <2>5. ASSUME NEW q \in Bad PROVE k <= q
    <3>1. f[k] <= f[q] /\ f[k] = k /\ f[q] = q
      <4>1. f[k] <= f[q]
        BY <2>3
      <4> HIDE DEF Bad
      <4> QED
        BY <4>1
    <3> HIDE DEF f, Bad
    <3> QED
      BY <3>1
  <2>6. CASE k = 0
    <3>1. IsBest(0, 0, need)
      BY DEF IsBest
    <3> QED
      BY <1>4, <2>4, <2>6, <3>1
  <2>7. CASE k # 0
    <3>1. k \in 1 .. Len(cache) /\ k - 1 \in 0 .. Len(cache) /\ ~(k <= k - 1)
      BY <1>1, <2>4, <2>7
    <3>2. k - 1 \notin Bad
      <4> HIDE DEF Bad
      <4> QED
        BY <2>5, <3>1
    <3>3. IsBest(b[k - 1], k - 1, need)
      BY <3>1, <3>2
    <3>4. IsBest(Turned(b[k - 1], k, need), k, need)
      BY <3>1, <3>3, TurnKeepsBest
    <3> QED
      BY <1>4, <2>4, <2>7, <3>4
  <2> QED
    BY <2>6, <2>7
<1>6. Len(cache) \in 0 .. Len(cache)
  BY <1>1
<1>7. IsBest(b[Len(cache)], Len(cache), need)
  BY <1>5, <1>6
<1> QED
  BY <1>7 DEF b

(* getBestId offers the least of what fits. *)
LEMMA BestFits ==
  ASSUME IInv, NEW need \in Spaces
  PROVE  LET id == GetBestId(need) IN
         IF id = NoPage THEN \A p \in CachedIds : space[p] < need
         ELSE /\ id \in CachedIds /\ space[id] >= need
              /\ \A p \in CachedIds : space[p] >= need => space[p] >= space[id]
<1> DEFINE b == Searched(need)[Len(cache)]
<1>1. /\ cache \in Seq(Elements) /\ DOMAIN cache = 1 .. Len(cache)
      /\ \A k \in DOMAIN cache : /\ cache[k].id \in Pages /\ cache[k].id # NoPage
                                 /\ cache[k].freeSpace \in Nat
                                 /\ cache[k].freeSpace = space[cache[k].id]
      /\ need \in Nat
  BY ListFacts DEF IInv, TypeOK, CacheTrue, Spaces
<1>2. IsBest(b, Len(cache), need)
  BY <1>1, SearchFindsBest
<1>3. GetBestId(need) = IF b = 0 THEN NoPage ELSE cache[b].id
  BY DEF GetBestId
<1> HIDE DEF b
<1>4. CASE b = 0
  <2>1. \A p \in CachedIds : space[p] < need
    BY <1>1, <1>2, <1>4 DEF IsBest, CachedIds
  <2> QED
    BY <1>3, <1>4, <2>1
<1>5. CASE b # 0
  <2>1. b \in DOMAIN cache /\ cache[b].freeSpace >= need
    BY <1>1, <1>2, <1>5 DEF IsBest
  <2>2. ASSUME NEW j \in DOMAIN cache, space[cache[j].id] >= need
        PROVE  space[cache[j].id] >= space[cache[b].id]
    BY <1>1, <1>2, <1>5, <2>1, <2>2 DEF IsBest
  <2> QED
    BY <1>1, <1>3, <1>5, <2>1, <2>2 DEF CachedIds
<1> QED
  BY <1>4, <1>5

-----------------------------------------------------------------------------
(* The theorems.                                                             *)

(* IInv holds after every sequence of updates. *)
THEOREM Invariance == Spec => []IInv
  BY InitInv, NextInv, PTL DEF Spec

(* Every variable of the cache keeps its type. *)
THEOREM TypeCorrect == Spec => []TypeOK
<1>1. IInv => TypeOK
  BY DEF IInv
<1> QED
  BY <1>1, Invariance, PTL

(* update never lets the list grow beyond its limit, nor hold a page twice,
   whichever of its branches it takes. *)
THEOREM Bounded == Spec => []CacheBounded
<1>1. IInv => CacheBounded
  BY DEF IInv
<1> QED
  BY <1>1, Invariance, PTL

(* A page in the list is listed with the space it was last updated with. *)
THEOREM TrueSpace == Spec => []CacheTrue
<1>1. IInv => CacheTrue
  BY DEF IInv
<1> QED
  BY <1>1, Invariance, PTL

(* getBestId offers a page that has the space, the least such, if there is
   one in the list: what acquirePage and acquireRecord ask for. *)
THEOREM BestOffer == Spec => []OffersFit
<1>1. IInv => OffersFit
  BY BestFits DEF OffersFit
<1> QED
  BY <1>1, Invariance, PTL

=============================================================================
