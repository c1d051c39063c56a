-------------------------- MODULE AppendOnly_proofs --------------------------
(***************************************************************************)
(* What the AppendOnly policy promises for every value of its constants,   *)
(* records of several pages included: the invariants that AppendOnly       *)
(* states, and that it implements the abstract allocator.                  *)
(***************************************************************************)
EXTENDS AppendOnly, Counting

(* What is proved of the cache, of the policy's own. *)
CP == INSTANCE AppendOnlyCache_proofs WITH Pages <- PageIds, MaxSpace <- PageSize

-----------------------------------------------------------------------------
(* Sizes and blocks.                                                         *)

LEMMA SetFacts ==
  /\ PageIds \subseteq Nat /\ System \subseteq PageIds
  /\ NoId \notin PageIds
  /\ InfoPage \in System /\ MinPages \in Nat \ {0} /\ MaxPages \in Nat
  /\ MinPages < PerPage /\ MinPages <= MaxPages /\ PerPage \in Nat \ {0}
  /\ PageSize \in Nat \ {0} /\ BlockSize \in Nat \ {0}
BY LayoutAssumption DEF PageIds, System, NoId

BlocksPerPage == PageSize \div BlockSize

LEMMA BlocksFacts ==
  /\ BlocksPerPage \in Nat \ {0} /\ BlockSize * BlocksPerPage = PageSize
  /\ IsFiniteSet(Blocks) /\ Cardinality(Blocks) = BlocksPerPage
  /\ Blocks # {} /\ Blocks \in SUBSET Nat
<1>1. BlocksPerPage \in Nat /\ BlockSize * BlocksPerPage = PageSize
  BY SetFacts, DivFacts, LayoutAssumption DEF BlocksPerPage
<1>2. BlocksPerPage # 0
  BY <1>1, SetFacts
<1>3. Blocks = 0 .. BlocksPerPage - 1
  BY DEF Blocks, BlocksPerPage
<1> HIDE DEF BlocksPerPage
<1>4. IsFiniteSet(Blocks) /\ Cardinality(Blocks) = BlocksPerPage
  BY <1>1, <1>2, <1>3, FS_Interval
<1>5. 0 \in Blocks /\ Blocks \in SUBSET Nat
  BY <1>1, <1>2, <1>3
<1> QED
  BY <1>1, <1>2, <1>4, <1>5

(* The free blocks of a page with the blocks b in use. *)
LEMMA FreeFacts ==
  ASSUME NEW b \in SUBSET Blocks
  PROVE  /\ IsFiniteSet(Blocks \ b) /\ Blocks \ b \in SUBSET Nat
         /\ Cardinality(Blocks \ b) \in Nat
         /\ Cardinality(Blocks \ b) <= BlocksPerPage
         /\ Cardinality(Blocks \ b) = BlocksPerPage => b = {}
         /\ BlockSize * Cardinality(Blocks \ b) \in 0 .. PageSize
<1>1. Blocks \ b \in SUBSET Blocks
  OBVIOUS
<1>2. /\ IsFiniteSet(Blocks \ b) /\ Blocks \ b \in SUBSET Nat
      /\ Cardinality(Blocks \ b) \in Nat
      /\ Cardinality(Blocks \ b) <= BlocksPerPage
      /\ Cardinality(Blocks \ b) = BlocksPerPage => Blocks = Blocks \ b
  BY <1>1, BlocksFacts, FS_Subset, FS_CardinalityType
<1>3. BlockSize * Cardinality(Blocks \ b) <= BlockSize * BlocksPerPage
  BY <1>2, BlocksFacts, SetFacts, TimesMonotone
<1>4. BlockSize * Cardinality(Blocks \ b) \in Nat
  BY <1>2, SetFacts
<1> QED
  BY <1>2, <1>3, <1>4, BlocksFacts, SetFacts

(* The bytes of blocks spread over the pages. *)
LEMMA BytesNone == BytesOf(NoUsage) = 0
<1>1. {x \in PageIds \X Blocks : x[2] \in NoUsage[x[1]]} = {}
  BY DEF NoUsage
<1>2. BytesOf(NoUsage) = BlockSize * Cardinality({})
  BY <1>1 DEF BytesOf
<1>3. Cardinality({}) = 0
  BY FS_EmptySet
<1> QED
  BY <1>2, <1>3, SetFacts

LEMMA BytesMore ==
  ASSUME NEW u \in [PageIds -> SUBSET Blocks], NEW id \in PageIds, u[id] = {},
         NEW b \in SUBSET Blocks
  PROVE  BytesOf([u EXCEPT ![id] = @ \cup b]) = BytesOf(u) + BlockSize * Cardinality(b)
<1> DEFINE v == [u EXCEPT ![id] = @ \cup b]
           S == {x \in PageIds \X Blocks : x[2] \in u[x[1]]}
           T == {x \in PageIds \X Blocks : x[2] \in v[x[1]]}
<1>1. T = S \cup ({id} \X b)
  <2>1. v[id] = b /\ \A p \in PageIds : p # id => v[p] = u[p]
    OBVIOUS
  <2>2. ASSUME NEW p \in PageIds, NEW c \in Blocks
        PROVE  <<p, c>> \in T <=> <<p, c>> \in S \cup ({id} \X b)
    <3> HIDE DEF v
    <3>1. CASE p = id
      BY <2>1, <3>1
    <3>2. CASE p # id
      BY <2>1, <3>2
    <3> QED
      BY <3>1, <3>2
  <2>3. T \subseteq PageIds \X Blocks /\ S \cup ({id} \X b) \subseteq PageIds \X Blocks
    OBVIOUS
  <2> HIDE DEF S, T
  <2> QED
    BY <2>2, <2>3
<1>2. S \cap ({id} \X b) = {}
  OBVIOUS
<1>3. IsFiniteSet(PageIds \X Blocks)
  <2>1. IsFiniteSet(PageIds)
    BY FS_Interval, SetFacts DEF PageIds
  <2> QED
    BY <2>1, BlocksFacts, FS_Product
<1>4. IsFiniteSet(S) /\ Cardinality(S) \in Nat
  BY <1>3, FS_Subset, FS_CardinalityType
<1>5. /\ IsFiniteSet({id} \X b) /\ Cardinality({id} \X b) = Cardinality(b)
      /\ Cardinality(b) \in Nat
  <2>1. IsFiniteSet(b) /\ Cardinality(b) \in Nat
    BY BlocksFacts, FS_Subset, FS_CardinalityType
  <2>2. IsFiniteSet({id}) /\ Cardinality({id}) = 1
    BY FS_Singleton
  <2>3. IsFiniteSet({id} \X b) /\ Cardinality({id} \X b) = 1 * Cardinality(b)
    BY <2>1, <2>2, FS_Product
  <2> QED
    BY <2>1, <2>3
<1>6. BytesOf(v) = BlockSize * Cardinality(T) /\ BytesOf(u) = BlockSize * Cardinality(S)
  BY DEF BytesOf
<1> HIDE DEF S, T, v
<1>7. Cardinality(T) = Cardinality(S) + Cardinality(b) - Cardinality({})
  BY <1>1, <1>2, <1>4, <1>5, FS_Union
<1>8. Cardinality(T) = Cardinality(S) + Cardinality(b)
  BY <1>4, <1>5, <1>7, FS_EmptySet
<1>9. BlockSize * (Cardinality(S) + Cardinality(b))
        = BlockSize * Cardinality(S) + BlockSize * Cardinality(b)
  BY <1>4, <1>5, SetFacts
<1> QED
  BY <1>6, <1>8, <1>9 DEF v

BlocksFor(l) == (l + BlockSize - 1) \div BlockSize

(* reserveBlocks takes free blocks, as many as the bytes need. *)
LEMMA ReserveFacts ==
  ASSUME NEW s, NEW id, s.bits[id] \in SUBSET Blocks, NEW l \in Nat,
         l <= BlockSize * Cardinality(Blocks \ s.bits[id])
  PROVE  /\ ReserveBlocks(s, id, l) \in SUBSET (Blocks \ s.bits[id])
         /\ Cardinality(ReserveBlocks(s, id, l)) = BlocksFor(l)
<1> DEFINE free == Blocks \ s.bits[id]
<1>1. free \in SUBSET Nat /\ IsFiniteSet(free) /\ BlockSize \in Nat \ {0}
  BY FreeFacts, SetFacts
<1>2. ReserveBlocks(s, id, l) = {b \in free : BlockSize * Cardinality(Below(free, b)) < l}
  BY DEF ReserveBlocks, IsBlockUsed, Below
<1>3. Cardinality(ReserveBlocks(s, id, l)) = BlocksFor(l)
  <2> HIDE DEF free
  <2> QED
    BY <1>1, <1>2, TakeCount DEF BlocksFor, free
<1> QED
  BY <1>2, <1>3

-----------------------------------------------------------------------------
(* The cache, as the policy sees it.                                         *)

Listed == {cache[i].id : i \in DOMAIN cache}

LEMMA CacheConstants == CP!CacheAssumption
  BY SetFacts, RequestAssumption DEF CP!CacheAssumption

LEMMA CacheUpdate ==
  ASSUME CP!IInv, NEW id \in PageIds, NEW f \in 0 .. PageSize, Cache!Update(id, f)
  PROVE  /\ CP!IInv'
         /\ space'[id] = f /\ \A p \in PageIds \ {id} : space'[p] = space[p]
         /\ Listed' \subseteq Listed \cup {id}
         /\ f = 0 => id \notin Listed'
<1>1. Cache!UpdateCached(id, f) => CP!UpdateCached(id, f)
  BY DEF Cache!UpdateCached, CP!UpdateCached, Cache!CachedIds, CP!CachedIds,
         Cache!Seen, CP!Seen, Cache!Without, CP!Without
<1>2. Cache!UpdateFull(id, f) => CP!UpdateFull(id, f)
  BY DEF Cache!UpdateFull, CP!UpdateFull, Cache!CachedIds, CP!CachedIds,
         Cache!Seen, CP!Seen
<1>3. Cache!Insert(id, f) => CP!Insert(id, f)
  BY DEF Cache!Insert, CP!Insert, Cache!CachedIds, CP!CachedIds, Cache!Seen, CP!Seen
<1>4. Cache!TurnDown(id, f) => CP!TurnDown(id, f)
  BY DEF Cache!TurnDown, CP!TurnDown, Cache!CachedIds, CP!CachedIds,
         Cache!Seen, CP!Seen
<1>5. Cache!Replace(id, f) => CP!Replace(id, f)
  BY DEF Cache!Replace, CP!Replace, Cache!CachedIds, CP!CachedIds,
         Cache!Seen, CP!Seen, Cache!Without, CP!Without,
         Cache!LeastSpace, CP!LeastSpace
<1>6. CP!Update(id, f)
  BY <1>1, <1>2, <1>3, <1>4, <1>5 DEF Cache!Update, CP!Update
<1>7. CP!IInv'
  <2>1. CP!Next
    BY <1>6 DEF CP!Next
  <2> QED
    BY <2>1, CacheConstants, CP!NextInv
<1>8. /\ space' = [space EXCEPT ![id] = f]
      /\ CP!CachedIds' \subseteq CP!CachedIds \cup {id}
      /\ f = 0 => id \notin CP!CachedIds'
  BY <1>6, CacheConstants, CP!UpdateListed
<1>9. space \in [PageIds -> 0 .. PageSize]
  BY DEF CP!IInv, CP!TypeOK
<1> QED
  BY <1>7, <1>8, <1>9 DEF Listed, CP!CachedIds

(* What a search offers is listed, with the space. *)
LEMMA CacheOffer ==
  ASSUME CP!IInv, NEW need \in 1 .. PageSize, Cache!GetBestId(need) # Cache!NoPage
  PROVE  LET id == Cache!GetBestId(need) IN
         id \in PageIds /\ id \in Listed /\ space[id] >= need
<1>1. Cache!GetBestId(need) = CP!GetBestId(need) /\ Cache!NoPage = CP!NoPage
  BY DEF Cache!GetBestId, CP!GetBestId, Cache!NoPage, CP!NoPage,
         Cache!Searched, CP!Searched, Cache!Better, CP!Better
<1>2. need \in CP!Spaces
  BY DEF CP!Spaces
<1>3. CP!GetBestId(need) \in CP!CachedIds /\ space[CP!GetBestId(need)] >= need
  BY <1>1, <1>2, CacheConstants, CP!BestFits
<1>4. CP!CachedIds = Listed
  BY DEF CP!CachedIds, Listed
<1>5. Listed \subseteq PageIds
  <2>1. \A k \in DOMAIN cache : cache[k].id \in PageIds
    BY CacheConstants, CP!ListFacts DEF CP!IInv, CP!TypeOK
  <2> QED
    BY <2>1 DEF Listed
<1> QED
  BY <1>1, <1>3, <1>4, <1>5

LEMMA CacheSpace ==
  ASSUME CP!IInv, NEW id \in Listed
  PROVE  SpaceOf(id) = space[id] /\ space[id] \in 1 .. PageSize
<1> DEFINE es == {e \in {cache[i] : i \in DOMAIN cache} : e.id = id}
<1>1. \A e \in es : e.freeSpace = space[id]
  BY DEF CP!IInv, CP!CacheTrue
<1>2. es # {}
  BY DEF Listed
<1>3. SpaceOf(id) = (CHOOSE e \in {cache[i] : i \in DOMAIN cache} : e.id = id).freeSpace
  BY DEF SpaceOf
<1>4. (CHOOSE e \in {cache[i] : i \in DOMAIN cache} : e.id = id) \in es
  BY <1>2
<1>5. \A k \in DOMAIN cache : cache[k].freeSpace \in 1 .. PageSize
  BY CacheConstants, CP!ListFacts DEF CP!IInv, CP!TypeOK, CP!Spaces
<1>6. \E e \in es : e.freeSpace \in 1 .. PageSize
  BY <1>2, <1>5
<1> HIDE DEF es
<1> QED
  BY <1>1, <1>3, <1>4, <1>6

-----------------------------------------------------------------------------
(* The space manager.                                                        *)

Images == [next : PageIds \cup {NoId}, data : [0 .. PerPage - 1 -> SUBSET Blocks]]

Managers ==
  [room : Nat, file : Nat, chain : Seq(PageIds), bits : [PageIds -> SUBSET Blocks],
   dirty : SUBSET Nat, disk : [PageIds -> Images], hung : BOOLEAN]

Indexes(s) == 0 .. Len(s.chain) - 1
ChainOf(s) == {s.chain[i] : i \in DOMAIN s.chain}

(* An info page lies at the start of the part it describes, the first one
   somewhere in it; all of them are in the file and marked, and there is no
   bit set behind its end. *)
Sound(s) ==
  /\ s \in Managers
  /\ MinPages <= s.file /\ s.file <= s.room /\ s.room <= MaxPages
  /\ s.dirty \subseteq Indexes(s)
  /\ s.chain # <<>> /\ s.chain[1] = InfoPage
  /\ \A k \in 2 .. Len(s.chain) : s.chain[k] = PerPage * (k - 1)
  /\ \A p \in ChainOf(s) : p < s.file /\ s.bits[p] = Blocks
  /\ s.file <= Cover(s)
  /\ ~s.hung => s.file < Cover(s)
  /\ \A p \in PageIds : p >= s.file => s.bits[p] = {}

LEMMA ManagerFields ==
  ASSUME NEW s \in Managers
  PROVE  /\ s.room \in Nat /\ s.file \in Nat /\ s.chain \in Seq(PageIds)
         /\ s.bits \in [PageIds -> SUBSET Blocks] /\ s.dirty \subseteq Nat
         /\ s.disk \in [PageIds -> Images] /\ s.hung \in BOOLEAN
  BY DEF Managers

LEMMA ChainFacts ==
  ASSUME NEW s, Sound(s)
  PROVE  /\ Len(s.chain) \in Nat \ {0} /\ DOMAIN s.chain = 1 .. Len(s.chain)
         /\ \A i \in Indexes(s) :
              /\ i \in Nat /\ i + 1 \in DOMAIN s.chain
              /\ s.chain[i + 1] \in PageIds /\ InfoOf(s.chain[i + 1]) = i
         /\ Cover(s) = PerPage * Len(s.chain) /\ Cover(s) \in Nat
         /\ Cover(s) - PerPage < s.file
         /\ Len(s.chain) <= MaxPages
<1> DEFINE n == Len(s.chain)
<1>1. /\ n \in Nat \ {0} /\ DOMAIN s.chain = 1 .. n
      /\ \A k \in 1 .. n : s.chain[k] \in PageIds
      /\ s.file \in Nat /\ MinPages <= s.file /\ s.file <= MaxPages
      /\ s.chain[1] = InfoPage
      /\ \A k \in 2 .. n : s.chain[k] = PerPage * (k - 1)
      /\ \A k \in 1 .. n : s.chain[k] < s.file
  <2>1. s.chain \in Seq(PageIds) /\ s.chain # <<>> /\ s.file \in Nat /\ s.room \in Nat
    BY ManagerFields DEF Sound
  <2>2. s.file <= MaxPages
    BY <2>1, SetFacts DEF Sound
  <2> QED
    BY <2>1, <2>2 DEF Sound, ChainOf
<1>2. Cover(s) = PerPage * n
  BY DEF Cover
<1> HIDE DEF n
<1>3. Cover(s) \in Nat
  BY <1>1, <1>2, SetFacts
<1>4. ASSUME NEW i \in 0 .. n - 1
      PROVE  /\ i \in Nat /\ i + 1 \in 1 .. n
             /\ s.chain[i + 1] \in PageIds /\ InfoOf(s.chain[i + 1]) = i
  <2>1. i \in Nat /\ i + 1 \in 1 .. n
    BY <1>1, <1>4
  <2>2. CASE i = 0
    <3>1. s.chain[i + 1] = InfoPage /\ InfoPage \in Nat /\ InfoPage < PerPage
          /\ PerPage \in Nat \ {0}
      BY <1>1, <2>2, SetFacts DEF System
    <3>2. InfoPage \div PerPage = 0
      BY <3>1
    <3> QED
      BY <1>1, <2>1, <2>2, <3>1, <3>2 DEF InfoOf
  <2>3. CASE i # 0
    <3>1. i + 1 \in 2 .. n /\ (i + 1) - 1 = i
      BY <1>1, <2>1, <2>3
    <3>2. s.chain[i + 1] = PerPage * i
      BY <1>1, <3>1
    <3>3. (PerPage * i) \div PerPage = i
      BY <2>1, SetFacts
    <3> QED
      BY <1>1, <2>1, <3>2, <3>3 DEF InfoOf
  <2> QED
    BY <2>2, <2>3
<1>5. PerPage * n - PerPage < s.file /\ n <= MaxPages
  <2>1. CASE n = 1
    BY <1>1, <2>1, SetFacts
  <2>2. CASE n # 1
    <3>1. n \in 2 .. n /\ n \in 1 .. n /\ n - 1 \in Nat
      BY <1>1, <2>2
    <3>2. s.chain[n] = PerPage * (n - 1) /\ s.chain[n] < s.file
      BY <1>1, <3>1
    <3>3. PerPage * (n - 1) = PerPage * n - PerPage
      BY <1>1, SetFacts
    <3>4. (n - 1) * 1 <= (n - 1) * PerPage
      BY <3>1, SetFacts, TimesMonotone
    <3>5. (n - 1) * PerPage = PerPage * (n - 1)
      BY <3>1, SetFacts
    <3>6. PerPage * (n - 1) \in Nat
      BY <3>1, SetFacts
    <3>7. n - 1 <= PerPage * (n - 1)
      BY <3>1, <3>4, <3>5, <3>6
    <3>8. n - 1 < MaxPages
      BY <1>1, <3>1, <3>2, <3>6, <3>7, SetFacts
    <3> QED
      BY <1>1, <3>1, <3>2, <3>3, <3>8, SetFacts
  <2> QED
    BY <2>1, <2>2
<1>6. Indexes(s) = 0 .. n - 1
  BY DEF Indexes, n
<1> QED
  BY <1>1, <1>2, <1>3, <1>4, <1>5, <1>6 DEF n

LEMMA InfoOfFacts ==
  ASSUME NEW p \in Nat, NEW k \in Nat, p < PerPage * k
  PROVE  InfoOf(p) \in 0 .. k - 1
<1>1. InfoOf(p) \in Nat /\ PerPage * InfoOf(p) <= p /\ PerPage \in Nat
  BY SetFacts, DivFacts DEF InfoOf
<1>2. SUFFICES ASSUME k <= InfoOf(p) PROVE FALSE
  BY <1>1
<1>3. PerPage * k <= PerPage * InfoOf(p)
  BY <1>1, <1>2, TimesMonotone
<1> QED
  BY <1>1, <1>3

(* The places of an info page are the file pages it describes. *)
LEMMA PlaceFacts ==
  ASSUME NEW i \in Nat, NEW o \in 0 .. PerPage - 1
  PROVE  InfoOf(PerPage * i + o) = i /\ (PerPage * i + o) % PerPage = o
<1>1. PerPage \in Nat \ {0}
  BY SetFacts
<1> QED
  BY <1>1 DEF InfoOf

LEMMA PlaceOf ==
  ASSUME NEW p \in Nat
  PROVE  /\ InfoOf(p) \in Nat /\ p % PerPage \in 0 .. PerPage - 1
         /\ PerPage * InfoOf(p) + (p % PerPage) = p
<1>1. PerPage \in Nat \ {0}
  BY SetFacts
<1> QED
  BY <1>1 DEF InfoOf

LEMMA ChainMarked ==
  ASSUME NEW s, Sound(s), NEW p \in ChainOf(s)
  PROVE  p \in PageIds /\ p \in Nat /\ p < s.file /\ s.bits[p] = Blocks
<1>1. s.chain \in Seq(PageIds)
  BY ManagerFields DEF Sound
<1>2. p \in PageIds
  BY <1>1 DEF ChainOf
<1> QED
  BY <1>2, SetFacts DEF Sound

(* A page of the file has an info page. *)
LEMMA PageIndex ==
  ASSUME NEW s, Sound(s), NEW p \in PageIds, p < s.file
  PROVE  InfoOf(p) \in Indexes(s)
<1>1. p \in Nat /\ s.file \in Nat /\ s.file <= Cover(s)
  BY SetFacts, ManagerFields DEF Sound
<1>2. Len(s.chain) \in Nat /\ Cover(s) = PerPage * Len(s.chain) /\ Cover(s) \in Nat
  BY ChainFacts
<1>3. p < PerPage * Len(s.chain)
  BY <1>1, <1>2
<1> QED
  BY <1>1, <1>2, <1>3, InfoOfFacts DEF Indexes

(* Only the bits, what is dirty and what is on disk change. *)
LEMMA BitsSound ==
  ASSUME NEW s, Sound(s), NEW t \in Managers,
         t.room = s.room, t.file = s.file, t.chain = s.chain, t.hung = s.hung,
         t.dirty \subseteq Indexes(s),
         \A p \in ChainOf(s) : t.bits[p] = Blocks,
         \A p \in PageIds : p >= s.file => t.bits[p] = {}
  PROVE  Sound(t)
<1>1. Indexes(t) = Indexes(s) /\ ChainOf(t) = ChainOf(s) /\ Cover(t) = Cover(s)
  BY DEF Indexes, ChainOf, Cover
<1> QED
  BY <1>1 DEF Sound

LEMMA SetPageSound ==
  ASSUME NEW s, Sound(s), NEW id \in PageIds, id < s.file, NEW used \in BOOLEAN,
         used \/ id \notin ChainOf(s)
  PROVE  LET t == SetPageUsed(s, id, used) IN
         /\ Sound(t)
         /\ t.bits = [s.bits EXCEPT ![id] = IF used THEN Blocks ELSE {}]
         /\ t.dirty = s.dirty \cup {InfoOf(id)}
         /\ t.room = s.room /\ t.file = s.file /\ t.chain = s.chain
         /\ t.disk = s.disk /\ t.hung = s.hung
<1> DEFINE b == [s.bits EXCEPT ![id] = IF used THEN Blocks ELSE {}]
           d == s.dirty \cup {InfoOf(id)}
<1>1. /\ s \in Managers /\ s.bits \in [PageIds -> SUBSET Blocks] /\ s.dirty \subseteq Indexes(s)
      /\ s.file \in Nat /\ id \in Nat
  BY ManagerFields, SetFacts DEF Sound
<1>2. b \in [PageIds -> SUBSET Blocks] /\ d \subseteq Indexes(s) /\ d \subseteq Nat
  BY <1>1, PageIndex, ChainFacts DEF Indexes
<1> DEFINE t == SetPageUsed(s, id, used)
<1>3. /\ t \in Managers /\ t.bits = b /\ t.dirty = d
      /\ t.room = s.room /\ t.file = s.file /\ t.chain = s.chain
      /\ t.disk = s.disk /\ t.hung = s.hung
  BY <1>1, <1>2 DEF SetPageUsed, Managers
<1>4. \A p \in ChainOf(s) : b[p] = Blocks
  <2>1. \A p \in ChainOf(s) : p \in PageIds /\ s.bits[p] = Blocks
    BY ChainMarked
  <2> QED
    BY <1>1, <2>1
<1>5. \A p \in PageIds : p >= s.file => b[p] = {}
  BY <1>1, SetFacts DEF Sound
<1>6. Sound(t)
  <2> HIDE DEF b, d, t
  <2> QED
    BY <1>2, <1>3, <1>4, <1>5, BitsSound
<1> HIDE DEF t
<1> QED
  BY <1>3, <1>6 DEF t

LEMMA SetRecordSound ==
  ASSUME NEW s, Sound(s), NEW u \in [PageIds -> SUBSET Blocks], NEW used \in BOOLEAN,
         \A p \in PageIds : u[p] # {} => p < s.file /\ p \notin ChainOf(s)
  PROVE  LET t == SetRecordUsed(s, u, used) IN
         /\ Sound(t)
         /\ t.bits = [p \in PageIds |-> IF used THEN s.bits[p] \cup u[p]
                                        ELSE s.bits[p] \ u[p]]
         /\ t.dirty = s.dirty \cup {InfoOf(p) : p \in {q \in PageIds : u[q] # {}}}
         /\ t.room = s.room /\ t.file = s.file /\ t.chain = s.chain
         /\ t.disk = s.disk /\ t.hung = s.hung
<1> DEFINE b == [p \in PageIds |-> IF used THEN s.bits[p] \cup u[p] ELSE s.bits[p] \ u[p]]
           d == s.dirty \cup {InfoOf(p) : p \in {q \in PageIds : u[q] # {}}}
<1>1. /\ s \in Managers /\ s.bits \in [PageIds -> SUBSET Blocks] /\ s.dirty \subseteq Indexes(s)
      /\ s.file \in Nat
  BY ManagerFields, SetFacts DEF Sound
<1>2. b \in [PageIds -> SUBSET Blocks] /\ d \subseteq Indexes(s) /\ d \subseteq Nat
  BY <1>1, PageIndex, ChainFacts DEF Indexes
<1> DEFINE t == SetRecordUsed(s, u, used)
<1>3. /\ t \in Managers /\ t.bits = b /\ t.dirty = d
      /\ t.room = s.room /\ t.file = s.file /\ t.chain = s.chain
      /\ t.disk = s.disk /\ t.hung = s.hung
  BY <1>1, <1>2 DEF SetRecordUsed, Managers
<1>4. \A p \in ChainOf(s) : b[p] = Blocks
  <2>1. \A p \in ChainOf(s) : p \in PageIds /\ s.bits[p] = Blocks
    BY ChainMarked
  <2> QED
    BY <1>1, <2>1
<1>5. \A p \in PageIds : p >= s.file => b[p] = {}
  <2>1. \A p \in PageIds : p >= s.file => s.bits[p] = {} /\ u[p] = {}
    BY <1>1, SetFacts DEF Sound
  <2> QED
    BY <2>1
<1>6. Sound(t)
  <2> HIDE DEF b, d, t
  <2> QED
    BY <1>2, <1>3, <1>4, <1>5, BitsSound
<1> HIDE DEF t
<1> QED
  BY <1>3, <1>6 DEF t

(* The file has grown by a page: the chain still describes it; or it has not
   described the page after it and now gains that one, which lies at the start
   of what it is to describe; or there is no room for it, and update() hangs. *)
LEMMA GrownFacts ==
  ASSUME NEW s, Sound(s), ~s.hung, s.file < s.room
  PROVE  LET t == Update([s EXCEPT !.file = @ + 1]) IN
         /\ Sound(t) /\ t.room = s.room /\ t.disk = s.disk
         /\ \/ /\ t.file = s.file + 1 /\ t.chain = s.chain
               /\ t.bits = s.bits /\ t.dirty = s.dirty
            \/ /\ ~t.hung /\ t.file = s.file + 2
               /\ s.file + 1 \in PageIds /\ s.file + 1 = Cover(s)
               /\ t.chain = Append(s.chain, s.file + 1)
               /\ t.bits = [s.bits EXCEPT ![s.file + 1] = Blocks]
               /\ t.dirty = s.dirty \cup {Len(s.chain)}
               /\ InfoOf(s.file + 1) = Len(s.chain)
               /\ InfoOf(s.file) = Len(s.chain) - 1
<1> DEFINE u == [s EXCEPT !.file = @ + 1]
           t == Update(u)
           n == Len(s.chain)
           f == s.file + 1
<1>1. /\ s \in Managers /\ s.file \in Nat /\ s.room \in Nat /\ s.chain \in Seq(PageIds)
      /\ s.bits \in [PageIds -> SUBSET Blocks] /\ s.dirty \subseteq Nat
      /\ MinPages <= s.file /\ s.room <= MaxPages /\ s.file < Cover(s)
      /\ f \in Nat /\ PerPage \in Nat \ {0}
  BY ManagerFields, SetFacts DEF Sound
<1>2. /\ n \in Nat \ {0} /\ Cover(s) = PerPage * n /\ Cover(s) \in Nat
      /\ Cover(s) - PerPage < s.file
  BY ChainFacts
<1>3. /\ u \in Managers /\ u.file = f /\ u.room = s.room /\ u.chain = s.chain
      /\ u.bits = s.bits /\ u.dirty = s.dirty /\ u.disk = s.disk /\ u.hung = s.hung
  BY <1>1 DEF Managers
<1> HIDE DEF u
<1>4. Cover(u) = Cover(s) /\ \A p \in PageIds : p >= f => p >= s.file
  <2>1. ASSUME NEW p \in PageIds, p >= f PROVE p >= s.file
    <3>1. p \in Nat /\ s.file \in Nat
      BY <1>1, SetFacts
    <3> QED
      BY <2>1, <3>1
  <2> QED
    BY <1>3, <2>1 DEF Cover
<1> HIDE DEF f
<1>5. CASE f < Cover(s)
  <2>1. ~(u.file >= Cover(u)) /\ ~(u.file <= Cover(u) - PerPage)
    BY <1>1, <1>2, <1>3, <1>4, <1>5 DEF f
  <2>2. t = u
    BY <2>1 DEF Update
  <2> HIDE DEF t
  <2>3. Sound(t)
    <3>1. Indexes(t) = Indexes(s) /\ ChainOf(t) = ChainOf(s) /\ Cover(t) = Cover(s)
      BY <1>3, <1>4, <2>2 DEF Indexes, ChainOf
    <3>2. \A p \in ChainOf(s) : p < t.file /\ t.bits[p] = Blocks
      <4>1. \A p \in ChainOf(s) : p < s.file /\ s.bits[p] = Blocks /\ p \in Nat
        BY ChainMarked
      <4> QED
        BY <1>1, <1>3, <2>2, <4>1 DEF f
    <3>3. \A p \in PageIds : p >= t.file => t.bits[p] = {}
      BY <1>3, <1>4, <2>2 DEF Sound
    <3>4. MinPages <= t.file /\ t.file <= t.room /\ t.room <= MaxPages /\ t.file < Cover(t)
      BY <1>1, <1>3, <1>5, <2>2, <3>1, SetFacts DEF f
    <3>5. t.file <= Cover(t)
      BY <1>1, <1>2, <1>3, <2>2, <3>1, <3>4
    <3> QED
      BY <1>3, <2>2, <3>1, <3>2, <3>3, <3>4, <3>5 DEF Sound
  <2> QED
    BY <1>3, <2>2, <2>3 DEF f, t, u
<1>6. CASE f = Cover(s)
  <2> DEFINE a == AddPages(u, 1)
  <2>1. u.file >= Cover(u) /\ (u.file - Cover(u)) \div PerPage + 1 = 1
    BY <1>1, <1>2, <1>3, <1>4, <1>6
  <2>2. t = IF a = u THEN [u EXCEPT !.hung = TRUE] ELSE a
    BY <2>1 DEF Update
  <2>3. CASE f + 1 > s.room
    <3>1. a = u
      BY <1>3, <2>3 DEF AddPages
    <3>2. t = [u EXCEPT !.hung = TRUE]
      BY <2>2, <3>1
    <3>3. /\ t \in Managers /\ t.file = f /\ t.room = s.room /\ t.chain = s.chain
          /\ t.bits = s.bits /\ t.dirty = s.dirty /\ t.disk = s.disk /\ t.hung
      BY <1>3, <3>2 DEF Managers
    <3> HIDE DEF t
    <3>4. Sound(t)
      <4>1. Indexes(t) = Indexes(s) /\ ChainOf(t) = ChainOf(s) /\ Cover(t) = Cover(s)
        BY <3>3 DEF Indexes, ChainOf, Cover
      <4>2. \A p \in ChainOf(s) : p < t.file /\ t.bits[p] = Blocks
        <5>1. \A p \in ChainOf(s) : p < s.file /\ s.bits[p] = Blocks /\ p \in Nat
          BY ChainMarked
        <5> QED
          BY <1>1, <3>3, <5>1 DEF f
      <4>3. \A p \in PageIds : p >= t.file => t.bits[p] = {}
        BY <1>4, <3>3 DEF Sound
      <4>4. MinPages <= t.file /\ t.file <= t.room /\ t.room <= MaxPages /\ t.file <= Cover(t)
        BY <1>1, <1>2, <1>6, <3>3, <4>1, SetFacts DEF f
      <4> QED
        BY <3>3, <4>1, <4>2, <4>3, <4>4 DEF Sound
    <3> QED
      BY <3>3, <3>4 DEF f, t, u
  <2>4. CASE ~(f + 1 > s.room)
    <3>1. f \in PageIds /\ f + 1 <= s.room
      BY <1>1, <2>4, SetFacts DEF PageIds
    <3> DEFINE b == [p \in PageIds |-> IF p \in f .. f + 1 - 1 THEN Blocks ELSE s.bits[p]]
               d == s.dirty \cup (n .. n + 1 - 1) \cup {InfoOf(p) : p \in f .. f + 1 - 1}
               c == s.chain \o [i \in 1 .. 1 |-> f + i - 1]
    <3>2. f .. f + 1 - 1 = {f} /\ n .. n + 1 - 1 = {n}
      BY <1>1, <1>2
    <3>3. c = Append(s.chain, f)
      <4>1. [i \in 1 .. 1 |-> f + i - 1] = <<f>>
        <5>1. [i \in 1 .. 1 |-> f + i - 1] = [i \in 1 .. 1 |-> f]
          BY <1>1
        <5>2. <<f>> = [i \in 1 .. 1 |-> f]
          OBVIOUS
        <5> QED
          BY <5>1, <5>2
      <4>2. s.chain \o <<f>> = Append(s.chain, f)
        BY <1>1, <3>1
      <4> QED
        BY <4>1, <4>2
    <3>4. InfoOf(f) = n /\ InfoOf(s.file) = n - 1
      <4>1. /\ n \in Nat /\ 0 \in 0 .. PerPage - 1 /\ PerPage * n + 0 = f
            /\ n - 1 \in Nat /\ PerPage - 1 \in 0 .. PerPage - 1
            /\ PerPage * (n - 1) + (PerPage - 1) = s.file
        BY <1>1, <1>2, <1>6 DEF f
      <4> QED
        BY <4>1, PlaceFacts
    <3>5. b = [s.bits EXCEPT ![f] = Blocks] /\ d = s.dirty \cup {n}
      <4>1. b = [s.bits EXCEPT ![f] = Blocks]
        BY <1>1, <3>1, <3>2
      <4>2. {InfoOf(p) : p \in f .. f + 1 - 1} = {n}
        BY <3>2, <3>4
      <4> QED
        BY <3>2, <4>1, <4>2
    <3>6. a = [u EXCEPT !.file = f + 1, !.chain = c, !.bits = b, !.dirty = d]
      <4>1. ~(u.file + 1 > u.room)
        BY <1>3, <2>4
      <4>2. a = [u EXCEPT
                   !.file  = @ + 1,
                   !.chain = @ \o [i \in 1 .. 1 |-> u.file + i - 1],
                   !.bits  = [p \in PageIds |->
                                IF p \in u.file .. u.file + 1 - 1 THEN Blocks ELSE @[p]],
                   !.dirty = @ \cup (Len(u.chain) .. Len(u.chain) + 1 - 1)
                               \cup {InfoOf(p) : p \in u.file .. u.file + 1 - 1}]
        BY <4>1 DEF AddPages
      <4> QED
        BY <1>3, <4>2 DEF Managers
    <3> HIDE DEF a, b, c, d
    <3>7. c \in Seq(PageIds) /\ b \in [PageIds -> SUBSET Blocks] /\ d \subseteq Nat
      BY <1>1, <1>2, <3>1, <3>3, <3>5
    <3>8. /\ a \in Managers /\ a.file = f + 1 /\ a.room = s.room /\ a.chain = c
          /\ a.bits = b /\ a.dirty = d /\ a.disk = s.disk /\ a.hung = s.hung
      <4>1. f + 1 \in Nat
        BY <1>1
      <4>2. /\ a.file = f + 1 /\ a.room = u.room /\ a.chain = c
            /\ a.bits = b /\ a.dirty = d /\ a.disk = u.disk /\ a.hung = u.hung
        BY <1>3, <3>6 DEF Managers
      <4>3. a \in Managers
        BY <1>3, <3>6, <3>7, <4>1 DEF Managers
      <4> QED
        BY <1>3, <4>2, <4>3
    <3>9. t = a
      <4>1. a # u
        BY <1>1, <1>3, <3>8
      <4> QED
        BY <2>2, <4>1
    <3> HIDE DEF t
    <3>10. Sound(t)
      <4>1. Len(c) = n + 1 /\ Indexes(t) = 0 .. n /\ Cover(t) = Cover(s) + PerPage
        <5>1. Len(c) = n + 1
          BY <1>1, <1>2, <3>1, <3>3
        <5>2. Indexes(t) = 0 .. n
          BY <1>2, <3>8, <3>9, <5>1 DEF Indexes
        <5>3. Cover(t) = PerPage * (n + 1)
          BY <3>8, <3>9, <5>1 DEF Cover
        <5> QED
          BY <1>1, <1>2, <5>1, <5>2, <5>3
      <4>2. /\ c # <<>> /\ c[1] = InfoPage
            /\ \A k \in 2 .. Len(c) : c[k] = PerPage * (k - 1)
        <5>1. /\ \A k \in 1 .. n : c[k] = s.chain[k]
              /\ c[n + 1] = f /\ c # <<>>
          BY <1>1, <1>2, <3>1, <3>3
        <5>2. c[1] = InfoPage
          BY <1>2, <5>1 DEF Sound
        <5>3. ASSUME NEW k \in 2 .. Len(c) PROVE c[k] = PerPage * (k - 1)
          <6>1. CASE k = n + 1
            BY <1>2, <1>6, <4>1, <5>1, <6>1
          <6>2. CASE k # n + 1
            <7>1. k \in 2 .. n /\ k \in 1 .. n
              BY <1>2, <4>1, <6>2
            <7> QED
              BY <5>1, <7>1 DEF Sound
          <6> QED
            BY <6>1, <6>2
        <5> QED
          BY <5>1, <5>2, <5>3
      <4>3. ASSUME NEW p \in ChainOf(t) PROVE p < f + 1 /\ b[p] = Blocks
        <5>1. ChainOf(t) = ChainOf(s) \cup {f}
          <6>1. DOMAIN c = 1 .. n + 1 /\ DOMAIN s.chain = 1 .. n
            BY <1>1, <1>2, <3>1, <3>3
          <6>2. \A k \in 1 .. n + 1 : c[k] = IF k = n + 1 THEN f ELSE s.chain[k]
            BY <1>1, <1>2, <3>1, <3>3
          <6>3. \A k \in 1 .. n : k \in 1 .. n + 1 /\ k # n + 1
            BY <1>2
          <6>4. n + 1 \in 1 .. n + 1 /\ \A k \in 1 .. n + 1 : k = n + 1 \/ k \in 1 .. n
            BY <1>2
          <6>5. ChainOf(t) = {c[k] : k \in 1 .. n + 1} /\ ChainOf(s) = {s.chain[k] : k \in 1 .. n}
            BY <3>8, <3>9, <6>1 DEF ChainOf
          <6> HIDE DEF n
          <6> QED
            BY <6>2, <6>3, <6>4, <6>5
        <5>2. CASE p = f
          BY <1>1, <3>1, <3>5, <5>2
        <5>3. CASE p # f
          <6>1. p \in ChainOf(s)
            BY <4>3, <5>1, <5>3
          <6>2. p < s.file /\ s.bits[p] = Blocks /\ p \in PageIds /\ p \in Nat
            BY <6>1, ChainMarked
          <6> QED
            BY <1>1, <3>5, <5>3, <6>2 DEF f
        <5> QED
          BY <5>2, <5>3
      <4>4. ASSUME NEW p \in PageIds, p >= f + 1 PROVE b[p] = {}
        <5>1. p >= s.file /\ p # f
          BY <1>1, <4>4, SetFacts DEF f
        <5> QED
          BY <1>1, <3>5, <5>1 DEF Sound
      <4>5. d \subseteq 0 .. n
        <5>1. s.dirty \subseteq 0 .. n - 1
          BY DEF Sound, Indexes
        <5>2. 0 .. n - 1 \subseteq 0 .. n /\ n \in 0 .. n
          BY <1>2
        <5> QED
          BY <3>5, <5>1, <5>2
      <4>6. /\ MinPages <= f + 1 /\ f + 1 <= s.room /\ f + 1 < Cover(t) /\ f + 1 <= Cover(t)
        <5>1. PerPage > 1 /\ MinPages \in Nat
          BY SetFacts
        <5>2. MinPages <= f + 1
          BY <1>1, <5>1 DEF f
        <5>3. f + 1 < Cover(t) /\ Cover(t) \in Nat
          BY <1>1, <1>2, <1>6, <4>1, <5>1
        <5> QED
          BY <1>1, <3>1, <5>2, <5>3
      <4> QED
        BY <1>1, <3>8, <3>9, <4>1, <4>2, <4>3, <4>4, <4>5, <4>6 DEF Sound
    <3>11. f + 1 = s.file + 2
      BY <1>1 DEF f
    <3> QED
      BY <1>6, <3>1, <3>3, <3>4, <3>5, <3>8, <3>9, <3>10, <3>11 DEF f, t, u
  <2> QED
    BY <2>3, <2>4
<1>7. f < Cover(s) \/ f = Cover(s)
  BY <1>1, <1>2 DEF f
<1> QED
  BY <1>5, <1>6, <1>7 DEF u

(* The file is cut to the page after its last used one: no info page lies
   behind it, so the chain stays. *)
LEMMA CutFacts ==
  ASSUME NEW s, Sound(s), ~s.hung, NEW id \in Nat, id < s.file, MinPages <= id + 1,
         \A p \in PageIds : p > id => s.bits[p] = {}
  PROVE  LET t == [s EXCEPT !.file = id + 1] IN
         /\ Update(t) = t /\ Sound(t)
         /\ t.file = id + 1 /\ t.room = s.room /\ t.chain = s.chain
         /\ t.bits = s.bits /\ t.dirty = s.dirty /\ t.disk = s.disk /\ t.hung = s.hung
<1> DEFINE t == [s EXCEPT !.file = id + 1]
<1>1. /\ s \in Managers /\ s.file \in Nat /\ s.room \in Nat
      /\ s.file <= s.room /\ s.file < Cover(s) /\ Cover(s) \in Nat
  BY ManagerFields, ChainFacts DEF Sound
<1>2. /\ t \in Managers /\ t.file = id + 1 /\ t.room = s.room /\ t.chain = s.chain
      /\ t.bits = s.bits /\ t.dirty = s.dirty /\ t.disk = s.disk /\ t.hung = s.hung
  BY <1>1 DEF Managers
<1> HIDE DEF t
<1>3. Indexes(t) = Indexes(s) /\ ChainOf(t) = ChainOf(s) /\ Cover(t) = Cover(s)
  BY <1>2 DEF Indexes, ChainOf, Cover
<1>4. id + 1 < Cover(s) /\ id + 1 <= Cover(s) /\ id + 1 <= s.room
  BY <1>1
<1>5. ASSUME NEW p \in ChainOf(s) PROVE p < id + 1 /\ s.bits[p] = Blocks
  <2>1. p \in PageIds /\ p \in Nat /\ s.bits[p] = Blocks
    BY ChainMarked
  <2>2. ~(p > id)
    BY <2>1, BlocksFacts
  <2> QED
    BY <2>1, <2>2
<1>6. \A p \in PageIds : p >= id + 1 => s.bits[p] = {}
  BY SetFacts
<1>7. Sound(t)
  BY <1>2, <1>3, <1>4, <1>5, <1>6 DEF Sound
<1>8. Cover(t) - PerPage < t.file
  BY <1>7, ChainFacts
<1>9. Update(t) = t
  <2>1. ~(t.file >= Cover(t)) /\ ~(t.file <= Cover(t) - PerPage)
    BY <1>1, <1>2, <1>3, <1>4, <1>8, SetFacts
  <2> QED
    BY <2>1 DEF Update
<1> QED
  BY <1>2, <1>7, <1>9 DEF t

(* What commit writes to the info page at index i. *)
DataOf(b, i) ==
  [o \in 0 .. PerPage - 1 |->
     IF PerPage * i + o \in PageIds THEN b[PerPage * i + o] ELSE {}]

NextOf(ch, i) == IF i + 1 < Len(ch) THEN ch[i + 2] ELSE NoId

LEMMA ImageTyped ==
  ASSUME NEW s, Sound(s), NEW i \in Indexes(s)
  PROVE  [next |-> NextOf(s.chain, i), data |-> DataOf(s.bits, i)] \in Images
<1>1. /\ s.chain \in Seq(PageIds) /\ s.bits \in [PageIds -> SUBSET Blocks]
      /\ Len(s.chain) \in Nat /\ i \in Nat
  BY ManagerFields, ChainFacts DEF Sound
<1>2. NextOf(s.chain, i) \in PageIds \cup {NoId}
  <2>1. CASE i + 1 < Len(s.chain)
    <3>1. i + 2 \in 1 .. Len(s.chain)
      BY <1>1, <2>1
    <3>2. s.chain[i + 2] \in PageIds
      BY <1>1, <3>1
    <3> QED
      BY <3>2, <2>1 DEF NextOf
  <2>2. CASE ~(i + 1 < Len(s.chain))
    BY <2>2 DEF NextOf
  <2> QED
    BY <2>1, <2>2
<1>3. DataOf(s.bits, i) \in [0 .. PerPage - 1 -> SUBSET Blocks]
  BY <1>1 DEF DataOf
<1> QED
  BY <1>2, <1>3 DEF Images

(* commit writes the dirty info pages and leaves the others as they are. *)
LEMMA CommitFacts ==
  ASSUME NEW s, Sound(s)
  PROVE  LET t == Commit(s) IN
         /\ Sound(t) /\ t.dirty = {} /\ t.bits = s.bits
         /\ t.room = s.room /\ t.file = s.file /\ t.chain = s.chain /\ t.hung = s.hung
         /\ \A i \in Indexes(s) :
              t.disk[s.chain[i + 1]] =
                IF i \in s.dirty
                THEN [next |-> NextOf(s.chain, i), data |-> DataOf(s.bits, i)]
                ELSE s.disk[s.chain[i + 1]]
<1> DEFINE at(p) == CHOOSE k \in s.dirty : s.chain[k + 1] = p
           d == [p \in PageIds |->
                   IF \E i \in s.dirty : s.chain[i + 1] = p
                   THEN [next |-> NextOf(s.chain, at(p)), data |-> DataOf(s.bits, at(p))]
                   ELSE s.disk[p]]
           t == [s EXCEPT !.disk = d, !.dirty = {}]
<1>1. s \in Managers /\ s.disk \in [PageIds -> Images] /\ s.dirty \subseteq Indexes(s)
  BY ManagerFields DEF Sound
<1>2. Commit(s) = t
  <2>1. Commit(s) =
          [s EXCEPT
             !.disk = [p \in PageIds |->
               IF \E i \in s.dirty : s.chain[i + 1] = p
               THEN LET i == CHOOSE k \in s.dirty : s.chain[k + 1] = p IN
                    [next |-> NextOf(s.chain, i), data |-> DataOf(s.bits, i)]
               ELSE s.disk[p]],
             !.dirty = {}]
    BY <1>1 DEF Commit, Managers, NextOf, DataOf
  <2> QED
    BY <2>1
<1>3. \A p \in PageIds : (\E i \in s.dirty : s.chain[i + 1] = p) => at(p) \in Indexes(s)
  BY <1>1
<1>4. d \in [PageIds -> Images]
  <2> HIDE DEF at
  <2> QED
    BY <1>1, <1>3, ImageTyped
<1>5. /\ t \in Managers /\ t.disk = d /\ t.dirty = {} /\ t.bits = s.bits
      /\ t.room = s.room /\ t.file = s.file /\ t.chain = s.chain /\ t.hung = s.hung
  <2> HIDE DEF d
  <2> QED
    BY <1>1, <1>4 DEF Managers
<1>6. Sound(t)
  <2> HIDE DEF t
  <2>1. \A p \in ChainOf(s) : t.bits[p] = Blocks
    BY <1>5, ChainMarked
  <2>2. \A p \in PageIds : p >= s.file => t.bits[p] = {}
    BY <1>5 DEF Sound
  <2> QED
    BY <1>5, <2>1, <2>2, BitsSound
<1>7. ASSUME NEW i \in Indexes(s)
      PROVE  d[s.chain[i + 1]] =
               IF i \in s.dirty
               THEN [next |-> NextOf(s.chain, i), data |-> DataOf(s.bits, i)]
               ELSE s.disk[s.chain[i + 1]]
  <2> DEFINE p == s.chain[i + 1]
  <2>1. i \in Nat /\ p \in PageIds /\ InfoOf(p) = i
    BY ChainFacts
  <2>2. \A k \in s.dirty : s.chain[k + 1] = p => k = i
    <3>1. \A k \in s.dirty : InfoOf(s.chain[k + 1]) = k
      BY <1>1, ChainFacts
    <3> QED
      BY <2>1, <3>1
  <2>3. CASE i \in s.dirty
    <3>1. at(p) = i
      BY <2>2, <2>3
    <3>2. \E k \in s.dirty : s.chain[k + 1] = p
      BY <2>3
    <3>3. d[p] = [next |-> NextOf(s.chain, at(p)), data |-> DataOf(s.bits, at(p))]
      <4> HIDE DEF at, p
      <4> QED
        BY <2>1, <3>2
    <3> QED
      BY <2>3, <3>1, <3>3
  <2>4. CASE i \notin s.dirty
    <3>1. ~\E k \in s.dirty : s.chain[k + 1] = p
      BY <2>2, <2>4
    <3>2. d[p] = s.disk[p]
      <4> HIDE DEF p
      <4> QED
        BY <2>1, <3>1
    <3> QED
      BY <2>4, <3>2
  <2> QED
    BY <2>3, <2>4
<1> HIDE DEF d, t
<1> QED
  BY <1>2, <1>5, <1>6, <1>7

-----------------------------------------------------------------------------
(* What a load reads.                                                        *)

LinksTrue(s) ==
  \A i \in Indexes(s) : s.disk[s.chain[i + 1]].next = NextOf(s.chain, i)

(* The first m pages of the chain. *)
Prefix(s, m) == [k \in 1 .. m |-> s.chain[k]]

LEMMA PrefixFacts ==
  ASSUME NEW s, Sound(s), NEW m \in 1 .. Len(s.chain)
  PROVE  /\ Prefix(s, m) \in Seq(PageIds) /\ Len(Prefix(s, m)) = m
         /\ Prefix(s, m)[m] = s.chain[m]
         /\ m = Len(s.chain) => Prefix(s, m) = s.chain
         /\ m < Len(s.chain) => Append(Prefix(s, m), s.chain[m + 1]) = Prefix(s, m + 1)
<1> DEFINE ch == s.chain
<1>1. /\ Len(ch) \in Nat /\ DOMAIN ch = 1 .. Len(ch) /\ ch \in Seq(PageIds)
      /\ \A k \in 1 .. Len(ch) : ch[k] \in PageIds
  <2>1. ch \in Seq(PageIds)
    BY ManagerFields DEF Sound
  <2> HIDE DEF ch
  <2> QED
    BY <2>1
<1> HIDE DEF ch
<1>2. m \in Nat /\ m \in 1 .. Len(ch) /\ \A k \in 1 .. m : ch[k] \in PageIds
  BY <1>1 DEF ch
<1> DEFINE pre(n) == [k \in 1 .. n |-> ch[k]]
<1>3. pre(m) \in Seq(PageIds) /\ Len(pre(m)) = m /\ pre(m)[m] = ch[m]
  BY <1>2
<1>4. ASSUME m = Len(ch) PROVE pre(m) = ch
  <2>1. ch = [k \in 1 .. Len(ch) |-> ch[k]]
    BY <1>1
  <2> QED
    BY <1>4, <2>1
<1>5. ASSUME m < Len(ch) PROVE Append(pre(m), ch[m + 1]) = pre(m + 1)
  <2> DEFINE a == Append(pre(m), ch[m + 1])
  <2>1. ch[m + 1] \in PageIds
    BY <1>1, <1>2, <1>5
  <2>2. /\ a \in Seq(PageIds) /\ Len(a) = m + 1 /\ DOMAIN a = 1 .. m + 1
        /\ \A k \in 1 .. m : a[k] = pre(m)[k]
        /\ a[m + 1] = ch[m + 1]
    <3> HIDE DEF pre
    <3> QED
      BY <1>2, <1>3, <2>1
  <2> HIDE DEF a
  <2>3. \A k \in 1 .. m + 1 : a[k] = ch[k]
    BY <1>2, <2>2
  <2>4. a = [k \in 1 .. m + 1 |-> a[k]]
    BY <2>2
  <2>5. a = pre(m + 1)
    BY <2>3, <2>4
  <2> QED
    BY <2>5 DEF a
<1>6. \A n : Prefix(s, n) = pre(n)
  BY DEF Prefix, ch
<1> HIDE DEF pre
<1> QED
  BY <1>3, <1>4, <1>5, <1>6 DEF ch

(* The walk over the links, as Load defines it. *)
IsWalk(w, d) ==
  w = [n \in 0 .. MaxPages |->
         IF n = 0 THEN <<InfoPage>>
         ELSE LET ch == w[n - 1]
                  nx == d[ch[Len(ch)]].next
              IN IF nx = NoId THEN ch ELSE Append(ch, nx)]

Reached(s, n) == IF n + 1 <= Len(s.chain) THEN n + 1 ELSE Len(s.chain)

LEMMA ReachedFacts ==
  ASSUME NEW s, Sound(s), NEW n \in Nat
  PROVE  /\ Reached(s, n) \in 1 .. Len(s.chain)
         /\ Reached(s, 0) = 1
         /\ n >= Len(s.chain) => Reached(s, n) = Len(s.chain)
         /\ n # 0 =>
              /\ Reached(s, n - 1) < Len(s.chain) => Reached(s, n) = Reached(s, n - 1) + 1
              /\ Reached(s, n - 1) = Len(s.chain) => Reached(s, n) = Len(s.chain)
<1>1. Len(s.chain) \in Nat \ {0}
  BY ChainFacts
<1> QED
  BY <1>1 DEF Reached

(* A step of the walk. *)
LEMMA WalkStep ==
  ASSUME NEW s, Sound(s), LinksTrue(s), NEW n \in Nat \ {0}
  PROVE  LET ch == Prefix(s, Reached(s, n - 1))
             nx == s.disk[ch[Len(ch)]].next
         IN Prefix(s, Reached(s, n)) = IF nx = NoId THEN ch ELSE Append(ch, nx)
<1> DEFINE m == Reached(s, n - 1)
           ch == Prefix(s, m)
           l == Len(s.chain)
<1>1. /\ l \in Nat /\ n - 1 \in Nat /\ m \in 1 .. l /\ m \in Nat
      /\ m < l => Reached(s, n) = m + 1
      /\ m = l => Reached(s, n) = l
  <2>1. n - 1 \in Nat /\ n \in Nat /\ n # 0 /\ l \in Nat
    BY ChainFacts
  <2> QED
    BY <2>1, ReachedFacts
<1> HIDE DEF m
<1>2. /\ Len(ch) = m /\ ch[m] = s.chain[m]
      /\ m < l => Append(ch, s.chain[m + 1]) = Prefix(s, m + 1)
  BY <1>1, PrefixFacts
<1>3. s.disk[s.chain[m]].next = IF m < l THEN s.chain[m + 1] ELSE NoId
  <2>1. m - 1 \in Indexes(s) /\ (m - 1) + 1 = m /\ (m - 1) + 2 = m + 1
    BY <1>1 DEF Indexes
  <2>2. s.disk[s.chain[(m - 1) + 1]].next = NextOf(s.chain, m - 1)
    BY <2>1 DEF LinksTrue
  <2> QED
    BY <2>1, <2>2 DEF NextOf
<1> HIDE DEF ch
<1>4. CASE m < l
  <2>1. m + 1 \in 1 .. l
    BY <1>1, <1>4
  <2>2. s.chain[m + 1] \in PageIds
    BY <2>1, ManagerFields DEF Sound
  <2>3. s.chain[m + 1] # NoId
    BY <2>2, SetFacts
  <2> QED
    BY <1>1, <1>2, <1>3, <1>4, <2>3 DEF ch, m
<1>5. CASE m = l
  BY <1>1, <1>2, <1>3, <1>5 DEF ch, m
<1> QED
  BY <1>1, <1>4, <1>5

(* Every walk over true links visits the pages of the chain one after the
   other. *)
LEMMA WalkIsPrefix ==
  ASSUME NEW s, Sound(s), LinksTrue(s), NEW w, IsWalk(w, s.disk)
  PROVE  \A n \in 0 .. MaxPages : w[n] = Prefix(s, Reached(s, n))
<1> DEFINE Bad == {n \in 0 .. MaxPages : w[n] # Prefix(s, Reached(s, n))}
           f == [n \in Bad |-> n]
<1>1. SUFFICES ASSUME Bad # {} PROVE FALSE
  OBVIOUS
<1>2. MaxPages \in Nat
  BY SetFacts
<1>3. f \in [Bad -> Nat]
  BY <1>2
<1>4. PICK n \in Bad : \A q \in Bad : f[n] <= f[q]
  <2> HIDE DEF f, Bad
  <2> QED
    BY <1>1, <1>3, LeastExists
<1>5. n \in 0 .. MaxPages /\ n \in Nat /\ \A q \in Bad : n <= q
  <2>1. n \in 0 .. MaxPages
    OBVIOUS
  <2>2. ASSUME NEW q \in Bad PROVE n <= q
    <3>1. f[n] <= f[q]
      BY <1>4
    <3>2. f[n] = n /\ f[q] = q
      <4> HIDE DEF Bad
      <4> QED
        OBVIOUS
    <3> HIDE DEF f, Bad
    <3> QED
      BY <3>1, <3>2
  <2> HIDE DEF f, Bad
  <2> QED
    BY <1>2, <2>1, <2>2
<1>6. w[n] = IF n = 0 THEN <<InfoPage>>
             ELSE LET ch == w[n - 1]
                      nx == s.disk[ch[Len(ch)]].next
                  IN IF nx = NoId THEN ch ELSE Append(ch, nx)
  BY <1>5 DEF IsWalk
<1>7. CASE n = 0
  <2>1. Reached(s, 0) = 1 /\ 1 \in 1 .. Len(s.chain) /\ s.chain[1] = InfoPage
    BY ReachedFacts, ChainFacts DEF Sound
  <2>2. Prefix(s, 1) \in Seq(PageIds) /\ Len(Prefix(s, 1)) = 1 /\ Prefix(s, 1)[1] = InfoPage
    BY <2>1, PrefixFacts
  <2>3. Prefix(s, 1) = <<InfoPage>>
    BY <2>2
  <2> QED
    BY <1>4, <1>6, <1>7, <2>1, <2>3
<1>8. CASE n # 0
  <2>1. n - 1 \in 0 .. MaxPages /\ n - 1 \notin Bad /\ n \in Nat \ {0}
    BY <1>2, <1>5, <1>8
  <2>2. w[n - 1] = Prefix(s, Reached(s, n - 1))
    BY <2>1
  <2>3. w[n] = Prefix(s, Reached(s, n))
    BY <1>6, <1>8, <2>1, <2>2, WalkStep
  <2> QED
    BY <1>4, <2>3
<1> QED
  BY <1>7, <1>8

(* There is such a walk. *)
LEMMA WalkExists ==
  ASSUME NEW s, Sound(s), LinksTrue(s)
  PROVE  IsWalk([n \in 0 .. MaxPages |-> Prefix(s, Reached(s, n))], s.disk)
<1> DEFINE w == [n \in 0 .. MaxPages |-> Prefix(s, Reached(s, n))]
<1>1. ASSUME NEW n \in 0 .. MaxPages
      PROVE  w[n] = IF n = 0 THEN <<InfoPage>>
                    ELSE LET ch == w[n - 1]
                             nx == s.disk[ch[Len(ch)]].next
                         IN IF nx = NoId THEN ch ELSE Append(ch, nx)
  <2>1. CASE n = 0
    <3>1. Reached(s, 0) = 1 /\ 1 \in 1 .. Len(s.chain) /\ s.chain[1] = InfoPage
      BY ReachedFacts, ChainFacts DEF Sound
    <3>2. Prefix(s, 1) \in Seq(PageIds) /\ Len(Prefix(s, 1)) = 1
          /\ Prefix(s, 1)[1] = InfoPage
      BY <3>1, PrefixFacts
    <3>3. Prefix(s, 1) = <<InfoPage>>
      BY <3>2
    <3> QED
      BY <2>1, <3>1, <3>3
  <2>2. CASE n # 0
    <3>1. n - 1 \in 0 .. MaxPages /\ n \in Nat \ {0}
      BY <2>2, SetFacts
    <3>2. w[n - 1] = Prefix(s, Reached(s, n - 1)) /\ w[n] = Prefix(s, Reached(s, n))
      BY <3>1
    <3> HIDE DEF w
    <3> QED
      BY <2>2, <3>1, <3>2, WalkStep
  <2> QED
    BY <2>1, <2>2
<1>2. w = [n \in 0 .. MaxPages |-> w[n]]
  OBVIOUS
<1>3. w = [n \in 0 .. MaxPages |->
             IF n = 0 THEN <<InfoPage>>
             ELSE LET ch == w[n - 1]
                      nx == s.disk[ch[Len(ch)]].next
                  IN IF nx = NoId THEN ch ELSE Append(ch, nx)]
  <2> HIDE DEF w
  <2> QED
    BY <1>1, <1>2
<1> QED
  BY <1>3 DEF IsWalk

(* With true links and true contents, a load gets back what it is a load of. *)
LEMMA LoadSame ==
  ASSUME NEW s, Sound(s), s.dirty = {}, LinksTrue(s),
         \A i \in Indexes(s) : s.disk[s.chain[i + 1]].data = DataOf(s.bits, i)
  PROVE  Load(s) = s
<1> DEFINE w == CHOOSE x : IsWalk(x, s.disk)
           b == [p \in PageIds |->
                   IF InfoOf(p) < Len(s.chain)
                   THEN s.disk[s.chain[InfoOf(p) + 1]].data[p % PerPage]
                   ELSE {}]
<1>1. Load(s) =
        LET chain == w[MaxPages] IN
        [s EXCEPT
           !.chain = chain,
           !.bits  = [p \in PageIds |->
                        IF InfoOf(p) < Len(chain)
                        THEN s.disk[chain[InfoOf(p) + 1]].data[p % PerPage]
                        ELSE {}],
           !.dirty = {}]
  BY DEF Load, IsWalk
<1>2. IsWalk(w, s.disk)
  BY WalkExists
<1> HIDE DEF w
<1>3. w[MaxPages] = Prefix(s, Reached(s, MaxPages))
  <2>1. MaxPages \in 0 .. MaxPages
    BY SetFacts
  <2> QED
    BY <1>2, <2>1, WalkIsPrefix
<1>4. Reached(s, MaxPages) = Len(s.chain) /\ Len(s.chain) \in 1 .. Len(s.chain)
  BY SetFacts, ChainFacts, ReachedFacts
<1>5. w[MaxPages] = s.chain
  BY <1>3, <1>4, PrefixFacts
<1>6. Load(s) = [s EXCEPT !.chain = s.chain, !.bits = b, !.dirty = {}]
  BY <1>1, <1>5
<1>7. ASSUME NEW p \in PageIds
      PROVE  s.bits[p] = IF InfoOf(p) < Len(s.chain)
                         THEN s.disk[s.chain[InfoOf(p) + 1]].data[p % PerPage]
                         ELSE {}
  <2>1. /\ p \in Nat /\ InfoOf(p) \in Nat /\ p % PerPage \in 0 .. PerPage - 1
        /\ PerPage * InfoOf(p) + (p % PerPage) = p /\ Len(s.chain) \in Nat
    BY SetFacts, PlaceOf, ChainFacts
  <2>2. CASE InfoOf(p) < Len(s.chain)
    <3>1. InfoOf(p) \in Indexes(s)
      BY <2>1, <2>2 DEF Indexes
    <3>2. DataOf(s.bits, InfoOf(p))[p % PerPage] = s.bits[p]
      BY <2>1 DEF DataOf
    <3> QED
      BY <2>2, <3>1, <3>2
  <2>3. CASE ~(InfoOf(p) < Len(s.chain))
    <3>1. p >= s.file
      <4>1. s.file \in Nat
        BY ManagerFields DEF Sound
      <4>2. ~(p < s.file)
        BY <2>1, <2>3, PageIndex DEF Indexes
      <4> QED
        BY <2>1, <4>1, <4>2
    <3> QED
      BY <2>3, <3>1 DEF Sound
  <2> QED
    BY <2>2, <2>3
<1>8. s \in Managers /\ s.bits = [p \in PageIds |-> s.bits[p]]
  BY ManagerFields DEF Sound
<1>9. b = s.bits
  BY <1>7, <1>8
<1> HIDE DEF b
<1> QED
  BY <1>6, <1>8, <1>9 DEF Managers

-----------------------------------------------------------------------------
(* The invariant.                                                            *)

Typed ==
  /\ Sound(sm) /\ CP!IInv
  /\ given \subseteq PageIds
  /\ usage \in [Records -> [PageIds -> SUBSET Blocks]]
  /\ len \in [Records -> Nat]
  /\ failed \subseteq Records
  /\ sm.hung <=> call = Hung

(* A page is held for one reason and lies, like every page of a record, in
   the file; what a record has is marked, and nobody else's. *)
Owners ==
  /\ given \cap (System \cup ChainPages) = {}
  /\ \A p \in Held : p < sm.file /\ sm.bits[p] = Blocks
  /\ \A r \in Records, p \in PageIds : usage[r][p] # {} =>
       p < sm.file /\ p \notin Held /\ usage[r][p] \subseteq sm.bits[p]
  /\ \A r, q \in Records, p \in PageIds : r # q => usage[r][p] \cap usage[q][p] = {}
  /\ \A r \in Records : len[r] = 0 => usage[r] = NoUsage

Sizes == \A r \in Records : BytesOf(usage[r]) = BlockSize * BlocksFor(len[r])

(* The blocks of a page that the call in progress has reserved and not yet
   marked. *)
Pending(p) == IF InRecord THEN call.usage[p] ELSE {}

(* The space a page was last said to have is of whole blocks, which are there. *)
Roomy(p) ==
  \E n \in Nat : /\ space[p] = BlockSize * n
                 /\ n <= Cardinality(Blocks \ (sm.bits[p] \cup Pending(p)))

Offered == \A p \in Listed : p < sm.file /\ p \notin Held /\ Roomy(p)

(* The call in progress. *)
RecordCalls ==
  [mode : {"record"}, rec : Records, len : Nat, left : Nat, chunks : Nat,
   spare : 0 .. PageSize - 1, usage : [PageIds -> SUBSET Blocks]]

Afters == {Idle} \cup {Begin(r, l) : r \in {q \in Records : len[q] = 0}, l \in Lengths}

ReleaseCalls == [mode : {"release"}, todo : SUBSET PageIds, after : Afters]
TrimCalls    == [mode : {"trim"}, id : Int, after : Afters]

(* Until its last chunk a record takes whole pages of the cache out of it, and
   their whole space, so that it has reserved what it has no more to reserve;
   the last chunk rounds up to a block. *)
Reserved(c) ==
  /\ c.len # 0 /\ c.left = c.chunks * PageSize - c.spare
  /\ BytesOf(c.usage) = IF c.chunks > 0 THEN c.len - c.left
                        ELSE BlockSize * BlocksFor(c.len)

RecordOK ==
  /\ call \in RecordCalls /\ len[call.rec] = 0 /\ Reserved(call)
  /\ \A p \in PageIds : call.usage[p] # {} =>
       /\ p < sm.file /\ p \notin Held /\ call.usage[p] \cap sm.bits[p] = {}
       /\ call.chunks > 0 => p \notin Listed

ReleaseOK ==
  /\ call \in ReleaseCalls
  /\ \A p \in call.todo : p < sm.file /\ p \notin Held

TrimOK ==
  /\ call \in TrimCalls
  /\ call.id \in MinPages - 1 .. sm.file - 1
  /\ \A p \in PageIds : p > call.id => sm.bits[p] = {} /\ p \notin Listed

CallOK == call = Idle \/ call = Hung \/ RecordOK \/ ReleaseOK \/ TrimOK

(* An info page that is not dirty is on disk as it would be written now,
   unless a page has joined the chain after it during the call in progress:
   then the call marks it dirty at its end, if it ends well. *)
Unlinked ==
  {i \in Indexes(sm) :
     /\ i + 1 \in sm.dirty
     /\ \/ call = Hung
        \/ InRecord /\ \E p \in PageIds : call.usage[p] # {} /\ InfoOf(p) = i}

Image ==
  /\ \A i \in Indexes(sm) \ sm.dirty :
       sm.disk[sm.chain[i + 1]].data = DataOf(sm.bits, i)
  /\ failed = {} =>
       \A i \in Indexes(sm) \ (sm.dirty \cup Unlinked) :
         sm.disk[sm.chain[i + 1]].next = NextOf(sm.chain, i)

IInv == Typed /\ Owners /\ Sizes /\ Offered /\ CallOK /\ Image

-----------------------------------------------------------------------------
(* What the parts of the invariant say together.                             *)

LEMMA ModeFacts ==
  /\ Idle # Hung /\ Idle.mode = "idle" /\ Hung.mode = "hung"
  /\ \A c \in RecordCalls : c.mode = "record"
  /\ \A c \in ReleaseCalls : c.mode = "release"
  /\ \A c \in TrimCalls : c.mode = "trim"
<1>1. Idle.mode = "idle" /\ Hung.mode = "hung"
  BY DEF Idle, Hung
<1>2. Idle # Hung
  BY <1>1
<1> QED
  BY <1>1, <1>2 DEF RecordCalls, ReleaseCalls, TrimCalls

(* The mode tells which call is in progress. *)
LEMMA CallFacts ==
  ASSUME CallOK
  PROVE  /\ call = Idle => call # Hung /\ ~InRecord
         /\ call = Hung => call # Idle /\ ~InRecord
         /\ InRecord => RecordOK /\ call # Idle /\ call # Hung
         /\ call.mode = "release" => ReleaseOK /\ ~InRecord /\ call # Hung
         /\ call.mode = "trim" => TrimOK /\ ~InRecord /\ call # Hung
BY ModeFacts DEF CallOK, InRecord, RecordOK, ReleaseOK, TrimOK

LEMMA HeldFacts ==
  ASSUME Typed
  PROVE  /\ ChainPages = ChainOf(sm) /\ InfoPage \in ChainPages
         /\ Held \subseteq PageIds /\ Held \subseteq Nat
         /\ sm.file \in Nat /\ sm.room \in Nat /\ sm.dirty \subseteq Indexes(sm)
         /\ sm.bits \in [PageIds -> SUBSET Blocks]
         /\ sm.file <= MaxPages /\ MinPages <= sm.file
<1>1. ChainPages = ChainOf(sm)
  BY DEF ChainPages, ChainOf
<1>2. ChainOf(sm) \subseteq PageIds
  BY ChainMarked DEF Typed
<1>3. InfoPage \in ChainOf(sm)
  <2>1. sm.chain[1] = InfoPage /\ 1 \in DOMAIN sm.chain
    BY ChainFacts DEF Typed, Sound
  <2> QED
    BY <2>1 DEF ChainOf
<1>4. Held \subseteq PageIds
  BY <1>1, <1>2, SetFacts DEF Held, Typed
<1>5. /\ sm.file \in Nat /\ sm.room \in Nat /\ sm.dirty \subseteq Indexes(sm)
      /\ sm.bits \in [PageIds -> SUBSET Blocks]
      /\ MinPages <= sm.file /\ sm.file <= sm.room /\ sm.room <= MaxPages
  BY ManagerFields DEF Typed, Sound
<1> QED
  BY <1>1, <1>3, <1>4, <1>5, SetFacts

(* Off a record's call nothing is pending and every link is true. *)
LEMMA QuietFacts ==
  ASSUME ~InRecord
  PROVE  /\ \A p : Pending(p) = {}
         /\ call # Hung => Unlinked = {}
  BY DEF Pending, Unlinked

LEMMA QuietFactsNext ==
  ASSUME ~InRecord'
  PROVE  /\ \A p : Pending(p)' = {}
         /\ call' # Hung => Unlinked' = {}
  BY DEF Pending, Unlinked

-----------------------------------------------------------------------------
(* The image on disk.                                                        *)

(* A step that writes nothing keeps the image if whatever it changes is dirty
   or will be. *)
LEMMA ImageKept ==
  ASSUME Image, sm'.disk = sm.disk,
         \A i \in Indexes(sm') \ sm'.dirty :
           /\ i \in Indexes(sm) \ sm.dirty
           /\ sm'.chain[i + 1] = sm.chain[i + 1]
           /\ DataOf(sm'.bits, i) = DataOf(sm.bits, i),
         failed' = {} =>
           /\ failed = {}
           /\ \A i \in Indexes(sm') \ (sm'.dirty \cup Unlinked') :
                i \notin Unlinked /\ NextOf(sm'.chain, i) = NextOf(sm.chain, i)
  PROVE  Image'
<1>1. ASSUME NEW i \in Indexes(sm') \ sm'.dirty
      PROVE  sm'.disk[sm'.chain[i + 1]].data = DataOf(sm'.bits, i)
  BY DEF Image
<1>2. ASSUME failed' = {}, NEW i \in Indexes(sm') \ (sm'.dirty \cup Unlinked')
      PROVE  sm'.disk[sm'.chain[i + 1]].next = NextOf(sm'.chain, i)
  <2>1. i \notin Unlinked /\ NextOf(sm'.chain, i) = NextOf(sm.chain, i) /\ failed = {}
    BY <1>2
  <2>2. i \in Indexes(sm) \ sm.dirty /\ sm'.chain[i + 1] = sm.chain[i + 1]
    OBVIOUS
  <2> QED
    BY <2>1, <2>2 DEF Image
<1> QED
  BY <1>1, <1>2 DEF Image

(* Bits of a page show in the info page that describes it only. *)
LEMMA DataKept ==
  ASSUME NEW b, NEW c, NEW i \in Nat, \A p \in PageIds : InfoOf(p) = i => b[p] = c[p]
  PROVE  DataOf(b, i) = DataOf(c, i)
<1>1. ASSUME NEW o \in 0 .. PerPage - 1, PerPage * i + o \in PageIds
      PROVE  b[PerPage * i + o] = c[PerPage * i + o]
  BY <1>1, PlaceFacts
<1> QED
  BY <1>1 DEF DataOf

(* A step under which the chain stays, and which marks the info page of every
   page whose bits it changes. *)
LEMMA ImageMarked ==
  ASSUME Typed, Image,
         sm'.disk = sm.disk, sm'.chain = sm.chain, sm.dirty \subseteq sm'.dirty,
         \A p \in PageIds : sm'.bits[p] # sm.bits[p] => InfoOf(p) \in sm'.dirty,
         failed' = {} => failed = {} /\ Unlinked \subseteq Unlinked' \cup sm'.dirty
  PROVE  Image'
<1>1. Indexes(sm') = Indexes(sm) /\ \A i \in Indexes(sm) : i \in Nat
  BY ChainFacts DEF Indexes, Typed
<1>2. ASSUME NEW i \in Indexes(sm') \ sm'.dirty
      PROVE  DataOf(sm'.bits, i) = DataOf(sm.bits, i)
  <2>1. \A p \in PageIds : InfoOf(p) = i => sm'.bits[p] = sm.bits[p]
    OBVIOUS
  <2> QED
    BY <1>1, <2>1, DataKept
<1> QED
  BY <1>1, <1>2, ImageKept

-----------------------------------------------------------------------------
(* Growth of the file.                                                       *)

LEMMA GrownKeeps ==
  ASSUME Typed, ~sm.hung, sm.file < sm.room
  PROVE  /\ Sound(Grown) /\ Grown.disk = sm.disk
         /\ Grown.file \in Nat /\ sm.file < Grown.file
         /\ sm.file \in PageIds /\ sm.file \notin ChainOf(Grown)
         /\ Grown.bits[sm.file] = {}
         /\ \A p \in PageIds : p < sm.file => Grown.bits[p] = sm.bits[p]
         /\ ChainOf(sm) \subseteq ChainOf(Grown)
         /\ \A p \in ChainOf(Grown) : p \in ChainOf(sm) \/ p > sm.file
         /\ sm.dirty \subseteq Grown.dirty
         /\ \A i \in Indexes(Grown) \ Grown.dirty :
              /\ i \in Indexes(sm) /\ Grown.chain[i + 1] = sm.chain[i + 1]
              /\ DataOf(Grown.bits, i) = DataOf(sm.bits, i)
              /\ \/ NextOf(Grown.chain, i) = NextOf(sm.chain, i)
                 \/ ~Grown.hung /\ i = InfoOf(sm.file) /\ i + 1 \in Grown.dirty
<1> DEFINE n == Len(sm.chain)
           f == sm.file + 1
           t == Grown
<1>1. /\ Sound(t) /\ t.disk = sm.disk
      /\ \/ /\ t.file = sm.file + 1 /\ t.chain = sm.chain
            /\ t.bits = sm.bits /\ t.dirty = sm.dirty
         \/ /\ ~t.hung /\ t.file = sm.file + 2
            /\ f \in PageIds
            /\ t.chain = Append(sm.chain, f)
            /\ t.bits = [sm.bits EXCEPT ![f] = Blocks]
            /\ t.dirty = sm.dirty \cup {n}
            /\ InfoOf(f) = n /\ InfoOf(sm.file) = n - 1
  BY GrownFacts DEF Grown, Typed
<1> HIDE DEF t
<1>2. /\ sm.file \in Nat /\ sm.room \in Nat /\ sm.room <= MaxPages
      /\ sm.bits \in [PageIds -> SUBSET Blocks] /\ sm.chain \in Seq(PageIds)
  BY ManagerFields DEF Typed, Sound
<1>3. sm.file \in PageIds /\ f \in Nat
  BY <1>2, SetFacts DEF PageIds
<1>4. sm.bits[sm.file] = {}
  BY <1>2, <1>3 DEF Typed, Sound
<1>5. \A p \in ChainOf(sm) : p < sm.file /\ p \in Nat
  BY ChainMarked DEF Typed
<1>6. n \in Nat \ {0} /\ \A i \in Indexes(sm) : i \in Nat /\ i < n
  BY ChainFacts DEF Typed, Indexes
<1>7. CASE t.file = sm.file + 1 /\ t.chain = sm.chain /\ t.bits = sm.bits /\ t.dirty = sm.dirty
  <2>1. Indexes(t) = Indexes(sm) /\ ChainOf(t) = ChainOf(sm)
    BY <1>7 DEF Indexes, ChainOf
  <2>2. t.file \in Nat /\ sm.file < t.file
    BY <1>2, <1>7
  <2>3. sm.file \notin ChainOf(t)
    BY <1>2, <1>5, <2>1
  <2> QED
    BY <1>1, <1>3, <1>4, <1>7, <2>1, <2>2, <2>3 DEF t
<1>8. CASE /\ ~t.hung /\ t.file = sm.file + 2 /\ f \in PageIds
           /\ t.chain = Append(sm.chain, f)
           /\ t.bits = [sm.bits EXCEPT ![f] = Blocks]
           /\ t.dirty = sm.dirty \cup {n}
           /\ InfoOf(f) = n /\ InfoOf(sm.file) = n - 1
  <2>1. /\ Len(t.chain) = n + 1 /\ DOMAIN t.chain = 1 .. n + 1
        /\ DOMAIN sm.chain = 1 .. n
        /\ \A k \in 1 .. n : t.chain[k] = sm.chain[k]
        /\ t.chain[n + 1] = f
    BY <1>2, <1>6, <1>8
  <2>2. ChainOf(t) = ChainOf(sm) \cup {f}
    <3>1. \A k \in 1 .. n : k \in 1 .. n + 1
      BY <1>6
    <3>2. n + 1 \in 1 .. n + 1 /\ \A k \in 1 .. n + 1 : k = n + 1 \/ k \in 1 .. n
      BY <1>6
    <3>3. ChainOf(t) = {t.chain[k] : k \in 1 .. n + 1} /\ ChainOf(sm) = {sm.chain[k] : k \in 1 .. n}
      BY <2>1 DEF ChainOf
    <3> HIDE DEF n, f
    <3> QED
      BY <2>1, <3>1, <3>2, <3>3
  <2>3. f > sm.file /\ t.file \in Nat /\ sm.file < t.file /\ f # sm.file
    BY <1>2, <1>8
  <2>4. sm.file \notin ChainOf(t)
    BY <1>2, <1>5, <2>2, <2>3
  <2>5. t.bits[sm.file] = {} /\ \A p \in PageIds : p < sm.file => t.bits[p] = sm.bits[p]
    <3>1. \A p \in PageIds : p # f => t.bits[p] = sm.bits[p]
      BY <1>2, <1>8
    <3>2. \A p \in PageIds : p < sm.file => p # f
      BY <1>2, SetFacts
    <3> QED
      BY <1>3, <1>4, <2>3, <3>1, <3>2
  <2>6. ASSUME NEW i \in Indexes(t) \ t.dirty
        PROVE  /\ i \in Indexes(sm) /\ t.chain[i + 1] = sm.chain[i + 1]
               /\ DataOf(t.bits, i) = DataOf(sm.bits, i)
               /\ \/ NextOf(t.chain, i) = NextOf(sm.chain, i)
                  \/ ~t.hung /\ i = InfoOf(sm.file) /\ i + 1 \in t.dirty
    <3>1. i \in 0 .. n /\ i # n
      BY <1>6, <1>8, <2>1 DEF Indexes
    <3>2. i \in Indexes(sm) /\ i + 1 \in 1 .. n /\ i \in Nat
      BY <1>6, <3>1 DEF Indexes
    <3>3. DataOf(t.bits, i) = DataOf(sm.bits, i)
      <4>1. \A p \in PageIds : InfoOf(p) = i => t.bits[p] = sm.bits[p]
        BY <1>2, <1>8, <3>1
      <4> QED
        BY <3>2, <4>1, DataKept
    <3>4. CASE i + 1 < n
      <4>1. i + 2 \in 1 .. n /\ i + 1 < n + 1
        BY <1>6, <3>2, <3>4
      <4>2. NextOf(t.chain, i) = sm.chain[i + 2] /\ NextOf(sm.chain, i) = sm.chain[i + 2]
        BY <2>1, <3>4, <4>1 DEF NextOf
      <4> QED
        BY <2>1, <3>2, <3>3, <4>2
    <3>5. CASE ~(i + 1 < n)
      <4>1. i = n - 1 /\ i + 1 = n
        BY <1>6, <3>2, <3>5
      <4> QED
        BY <1>8, <2>1, <3>2, <3>3, <4>1
    <3> QED
      BY <3>4, <3>5
  <2> QED
    BY <1>1, <1>3, <1>8, <2>2, <2>3, <2>4, <2>5, <2>6 DEF t
<1> QED
  BY <1>1, <1>7, <1>8

-----------------------------------------------------------------------------
(* The space on offer.                                                       *)

LEMMA ListedFacts ==
  ASSUME CP!IInv
  PROVE  Listed \subseteq PageIds
<1>1. \A k \in DOMAIN cache : cache[k].id \in PageIds
  BY CacheConstants, CP!ListFacts DEF CP!IInv, CP!TypeOK
<1> QED
  BY <1>1 DEF Listed

LEMMA RoomyKept ==
  ASSUME NEW p, Roomy(p), space'[p] = space[p],
         sm'.bits[p] \cup Pending(p)' \subseteq sm.bits[p] \cup Pending(p)
  PROVE  Roomy(p)'
<1> DEFINE a == Blocks \ (sm.bits[p] \cup Pending(p))
           b == Blocks \ (sm'.bits[p] \cup Pending(p)')
<1>1. PICK n \in Nat : space[p] = BlockSize * n /\ n <= Cardinality(a)
  BY DEF Roomy
<1>2. a \subseteq b /\ IsFiniteSet(b)
  BY BlocksFacts, FS_Subset
<1>3. Cardinality(a) \in Nat /\ Cardinality(b) \in Nat /\ Cardinality(a) <= Cardinality(b)
  BY <1>2, FS_Subset, FS_CardinalityType
<1>4. n <= Cardinality(b)
  <2> HIDE DEF a, b
  <2> QED
    BY <1>1, <1>3
<1> QED
  BY <1>1, <1>4 DEF Roomy

(* A step that leaves the cache alone. *)
LEMMA OfferedSame ==
  ASSUME Offered, UNCHANGED cacheVars,
         \A p \in Listed :
           /\ p < sm'.file /\ p \notin Held'
           /\ sm'.bits[p] \cup Pending(p)' \subseteq sm.bits[p] \cup Pending(p)
  PROVE  Offered'
<1>1. Listed' = Listed /\ space' = space
  BY DEF Listed, cacheVars
<1> QED
  BY <1>1, RoomyKept DEF Offered

LEMMA CacheSame ==
  ASSUME CP!IInv, UNCHANGED cacheVars
  PROVE  CP!IInv'
  BY DEF cacheVars, CP!IInv, CP!TypeOK, CP!CacheBounded, CP!CacheTrue

(* A step that updates it with one page. *)
LEMMA OfferedUpdate ==
  ASSUME CP!IInv, Offered, NEW id \in PageIds, NEW f \in 0 .. PageSize,
         Cache!Update(id, f),
         \A p \in Listed \ {id} :
           /\ p < sm'.file /\ p \notin Held'
           /\ sm'.bits[p] \cup Pending(p)' \subseteq sm.bits[p] \cup Pending(p),
         f # 0 => /\ id < sm'.file /\ id \notin Held'
                  /\ \E n \in Nat :
                       /\ f = BlockSize * n
                       /\ n <= Cardinality(Blocks \ (sm'.bits[id] \cup Pending(id)'))
  PROVE  Offered'
<1>1. /\ space'[id] = f /\ \A p \in PageIds \ {id} : space'[p] = space[p]
      /\ Listed' \subseteq Listed \cup {id}
      /\ f = 0 => id \notin Listed'
  BY CacheUpdate
<1>2. Listed \subseteq PageIds
  BY ListedFacts
<1>3. ASSUME NEW p \in Listed'
      PROVE  p < sm'.file /\ p \notin Held' /\ Roomy(p)'
  <2>1. CASE p = id
    BY <1>1, <2>1 DEF Roomy
  <2>2. CASE p # id
    <3>1. p \in Listed \ {id} /\ p \in PageIds \ {id}
      BY <1>1, <1>2, <2>2
    <3>2. Roomy(p) /\ space'[p] = space[p]
      BY <1>1, <3>1 DEF Offered
    <3>3. Roomy(p)'
      BY <3>1, <3>2, RoomyKept
    <3> QED
      BY <3>1, <3>3
  <2> QED
    BY <2>1, <2>2
<1> QED
  BY <1>3 DEF Offered

(* A page without used blocks has the space of a page. *)
LEMMA EmptyPage ==
  /\ PageSize = BlockSize * BlocksPerPage /\ BlocksPerPage \in Nat
  /\ BlocksPerPage <= Cardinality(Blocks \ ({} \cup {}))
  /\ BlocksPerPage <= Cardinality(Blocks \ {})
<1>1. Blocks \ {} = Blocks /\ Blocks \ ({} \cup {}) = Blocks
  OBVIOUS
<1> QED
  BY <1>1, BlocksFacts

(* A page on offer with the space of a page has no used block. *)
LEMMA FullOffer ==
  ASSUME Typed, Offered, NEW id \in Listed, id \in PageIds, space[id] >= PageSize
  PROVE  sm.bits[id] = {}
<1> DEFINE b == sm.bits[id] \cup Pending(id)
<1>1. PICK n \in Nat : space[id] = BlockSize * n /\ n <= Cardinality(Blocks \ b)
  BY DEF Offered, Roomy
<1>2. b \cap Blocks \in SUBSET Blocks /\ Blocks \ b = Blocks \ (b \cap Blocks)
  OBVIOUS
<1>3. sm.bits[id] \subseteq Blocks
  BY HeldFacts
<1> HIDE DEF b
<1>4. /\ Cardinality(Blocks \ b) \in Nat /\ Cardinality(Blocks \ b) <= BlocksPerPage
      /\ Cardinality(Blocks \ b) = BlocksPerPage => b \cap Blocks = {}
  BY <1>2, FreeFacts
<1>5. BlocksPerPage <= n
  <2> SUFFICES ASSUME n < BlocksPerPage PROVE FALSE
    BY <1>1, BlocksFacts
  <2>1. n + 1 <= BlocksPerPage /\ n + 1 \in Nat /\ BlocksPerPage \in Nat /\ BlockSize \in Nat \ {0}
    BY <1>1, BlocksFacts, SetFacts
  <2>2. BlockSize * (n + 1) <= BlockSize * BlocksPerPage
    BY <2>1, TimesMonotone
  <2>3. BlockSize * (n + 1) = BlockSize * n + BlockSize /\ BlockSize * n \in Nat
    BY <2>1, <1>1
  <2> QED
    BY <1>1, <2>1, <2>2, <2>3, BlocksFacts, SetFacts
<1>6. b \cap Blocks = {}
  BY <1>1, <1>4, <1>5, BlocksFacts
<1> QED
  BY <1>3, <1>6 DEF b

-----------------------------------------------------------------------------
(* acquirePage and releasePage.                                              *)

(* A step that leaves the records alone. *)
LEMMA OwnersKept ==
  ASSUME Owners, usage' = usage, len' = len,
         given' \cap (System \cup ChainPages') = {},
         \A p \in Held' : p < sm'.file /\ sm'.bits[p] = Blocks,
         \A r \in Records, p \in PageIds : usage[r][p] # {} =>
           p < sm'.file /\ p \notin Held' /\ sm.bits[p] \subseteq sm'.bits[p]
  PROVE  Owners'
<1>1. \A r \in Records, p \in PageIds : usage[r][p] # {} => usage[r][p] \subseteq sm'.bits[p]
  BY DEF Owners
<1> QED
  BY <1>1 DEF Owners

LEMMA SizesKept ==
  ASSUME Sizes, usage' = usage, len' = len
  PROVE  Sizes'
  BY DEF Sizes, BytesOf

(* A step that leaves the manager and everything held alone. *)
LEMMA OwnersSame ==
  ASSUME Typed, Owners, Sizes, UNCHANGED <<sm, heldVars>>
  PROVE  Owners' /\ Sizes' /\ Held' = Held /\ Sound(sm')
  BY DEF Owners, Sizes, BytesOf, Held, ChainPages, heldVars, Typed

LEMMA PageMarked ==
  ASSUME NEW s, Sound(s), NEW id \in PageIds, id < s.file
  PROVE  LET t == SetPageUsed(s, id, TRUE) IN
         /\ Sound(t) /\ t.bits = [s.bits EXCEPT ![id] = Blocks]
         /\ t.dirty = s.dirty \cup {InfoOf(id)}
         /\ t.room = s.room /\ t.file = s.file /\ t.chain = s.chain
         /\ t.disk = s.disk /\ t.hung = s.hung
<1>1. TRUE \in BOOLEAN
  OBVIOUS
<1> QED
  BY <1>1, SetPageSound

LEMMA PageCleared ==
  ASSUME NEW s, Sound(s), NEW id \in PageIds, id < s.file, id \notin ChainOf(s)
  PROVE  LET t == SetPageUsed(s, id, FALSE) IN
         /\ Sound(t) /\ t.bits = [s.bits EXCEPT ![id] = {}]
         /\ t.dirty = s.dirty \cup {InfoOf(id)}
         /\ t.room = s.room /\ t.file = s.file /\ t.chain = s.chain
         /\ t.disk = s.disk /\ t.hung = s.hung
<1>1. FALSE \in BOOLEAN
  OBVIOUS
<1> QED
  BY <1>1, SetPageSound

LEMMA AcquireCachedPageInv ==
  ASSUME IInv, AcquireCachedPage
  PROVE  IInv'
<1> DEFINE id == Cache!GetBestId(PageSize)
<1>1. /\ call = Idle /\ call' = Idle /\ id # Cache!NoPage
      /\ sm' = SetPageUsed(sm, id, TRUE) /\ Cache!Update(id, 0)
      /\ given' = given \cup {id}
      /\ usage' = usage /\ len' = len /\ failed' = failed
  BY DEF AcquireCachedPage
<1>2. PageSize \in 1 .. PageSize /\ 0 \in 0 .. PageSize
  BY SetFacts
<1>3. id \in PageIds /\ id \in Listed /\ space[id] >= PageSize
  BY <1>1, <1>2, CacheOffer DEF IInv, Typed
<1> HIDE DEF id
<1>4. /\ id < sm.file /\ id \notin Held /\ sm.bits[id] = {}
      /\ id \notin System /\ id \notin ChainPages
  BY <1>3, FullOffer DEF IInv, Offered, Held
<1>5. /\ Sound(sm') /\ sm'.bits = [sm.bits EXCEPT ![id] = Blocks]
      /\ sm'.dirty = sm.dirty \cup {InfoOf(id)}
      /\ sm'.room = sm.room /\ sm'.file = sm.file /\ sm'.chain = sm.chain
      /\ sm'.disk = sm.disk /\ sm'.hung = sm.hung
  BY <1>1, <1>3, <1>4, PageMarked DEF IInv, Typed
<1>6. sm'.bits[id] = Blocks /\ \A p \in PageIds \ {id} : sm'.bits[p] = sm.bits[p]
  BY <1>3, <1>5, HeldFacts DEF IInv
<1>7. ChainPages' = ChainPages /\ Held' = Held \cup {id}
  <2>1. ChainPages' = ChainPages
    BY <1>5 DEF ChainPages
  <2> QED
    BY <1>1, <2>1 DEF Held
<1>8. ~InRecord /\ ~InRecord' /\ call # Hung /\ call' # Hung
  BY <1>1, ModeFacts DEF InRecord
<1>9. Typed'
  <2>1. CP!IInv'
    BY <1>1, <1>2, <1>3, CacheUpdate DEF IInv, Typed
  <2> QED
    BY <1>1, <1>3, <1>5, <1>8, <2>1 DEF IInv, Typed
<1>10. Owners'
  <2>1. \A p \in Held' : p < sm'.file /\ sm'.bits[p] = Blocks
    BY <1>4, <1>5, <1>6, <1>7, HeldFacts DEF IInv, Owners
  <2>2. ASSUME NEW r \in Records, NEW p \in PageIds, usage[r][p] # {}
        PROVE  p < sm'.file /\ p \notin Held' /\ sm.bits[p] \subseteq sm'.bits[p]
    <3>1. p < sm.file /\ p \notin Held /\ usage[r][p] \subseteq sm.bits[p]
      BY <2>2 DEF IInv, Owners
    <3>2. p # id
      BY <1>4, <2>2, <3>1
    <3> QED
      BY <1>5, <1>6, <1>7, <3>1, <3>2
  <2>3. given' \cap (System \cup ChainPages') = {}
    BY <1>1, <1>4, <1>7 DEF IInv, Owners
  <2> QED
    BY <1>1, <2>1, <2>2, <2>3, OwnersKept DEF IInv
<1>11. Offered'
  <2>1. \A p \in Listed \ {id} :
          /\ p < sm'.file /\ p \notin Held'
          /\ sm'.bits[p] \cup Pending(p)' \subseteq sm.bits[p] \cup Pending(p)
    <3>1. Listed \subseteq PageIds
      BY ListedFacts DEF IInv, Typed
    <3> QED
      BY <1>5, <1>6, <1>7, <1>8, <3>1, QuietFacts, QuietFactsNext DEF IInv, Offered
  <2> QED
    BY <1>1, <1>2, <1>3, <2>1, OfferedUpdate DEF IInv, Typed
<1>12. Image'
  <2>1. \A p \in PageIds : sm'.bits[p] # sm.bits[p] => InfoOf(p) \in sm'.dirty
    BY <1>5, <1>6
  <2>2. failed' = {} => failed = {} /\ Unlinked \subseteq Unlinked' \cup sm'.dirty
    BY <1>1, <1>8, QuietFacts
  <2> QED
    BY <1>5, <2>1, <2>2, ImageMarked DEF IInv
<1> QED
  BY <1>1, <1>9, <1>10, <1>11, <1>12, SizesKept DEF IInv, CallOK

LEMMA AcquireNewPageInv ==
  ASSUME IInv, AcquireNewPage
  PROVE  IInv'
<1> DEFINE t == Grown
<1>1. /\ call = Idle /\ sm.file < sm.room /\ UNCHANGED cacheVars
      /\ usage' = usage /\ len' = len /\ failed' = failed
      /\ IF t.hung THEN sm' = t /\ call' = Hung /\ given' = given
         ELSE /\ sm' = SetPageUsed(t, sm.file, TRUE)
              /\ given' = given \cup {sm.file} /\ call' = call
  BY DEF AcquireNewPage
<1>2. ~InRecord /\ call # Hung /\ ~sm.hung
  BY <1>1, ModeFacts DEF InRecord, IInv, Typed
<1>3. /\ Sound(t) /\ t.disk = sm.disk /\ t.file \in Nat /\ sm.file < t.file
      /\ sm.file \in PageIds /\ sm.file \notin ChainOf(t)
      /\ \A p \in PageIds : p < sm.file => t.bits[p] = sm.bits[p]
      /\ \A p \in ChainOf(t) : p \in ChainOf(sm) \/ p > sm.file
      /\ sm.dirty \subseteq t.dirty
      /\ \A i \in Indexes(t) \ t.dirty :
           /\ i \in Indexes(sm) /\ t.chain[i + 1] = sm.chain[i + 1]
           /\ DataOf(t.bits, i) = DataOf(sm.bits, i)
           /\ \/ NextOf(t.chain, i) = NextOf(sm.chain, i)
              \/ ~t.hung /\ i = InfoOf(sm.file)
  BY <1>1, <1>2, GrownKeeps DEF IInv
<1> HIDE DEF t
<1>4. CP!IInv' /\ ~InRecord' /\ call' \in {Idle, Hung}
  <2>1. call' \in {Idle, Hung}
    BY <1>1
  <2> QED
    BY <1>1, <2>1, CacheSame, ModeFacts DEF IInv, Typed, InRecord
(* What the new manager has, hung or not. *)
<1>5. /\ Sound(sm') /\ sm'.disk = sm.disk /\ sm'.chain = t.chain /\ sm'.file = t.file
      /\ sm'.hung = t.hung /\ t.dirty \subseteq sm'.dirty
      /\ \A p \in PageIds \ {sm.file} : sm'.bits[p] = t.bits[p]
      /\ given' \ given \subseteq {sm.file}
      /\ sm.file \in given' => given' = given \/ sm'.bits[sm.file] = Blocks
      /\ ~t.hung => InfoOf(sm.file) \in sm'.dirty
      /\ \A p \in PageIds : sm'.bits[p] # t.bits[p] => InfoOf(p) \in sm'.dirty
      /\ \A p \in given' \ given : sm'.bits[p] = Blocks
  <2>1. CASE t.hung
    BY <1>1, <1>3, <2>1
  <2>2. CASE ~t.hung
    <3>1. LET u == SetPageUsed(t, sm.file, TRUE) IN
          /\ Sound(u)
          /\ u.bits = [t.bits EXCEPT ![sm.file] = Blocks]
          /\ u.dirty = t.dirty \cup {InfoOf(sm.file)}
          /\ u.file = t.file /\ u.chain = t.chain /\ u.disk = t.disk /\ u.hung = t.hung
      <4>1. Sound(t) /\ sm.file \in PageIds /\ sm.file < t.file
        BY <1>3
      <4> QED
        BY <4>1, PageMarked
    <3>2. t.bits \in [PageIds -> SUBSET Blocks]
      BY <1>3, ManagerFields DEF Sound
    <3>3. /\ sm'.bits[sm.file] = Blocks
          /\ \A p \in PageIds \ {sm.file} : sm'.bits[p] = t.bits[p]
      BY <1>1, <1>3, <2>2, <3>1, <3>2
    <3> QED
      BY <1>1, <1>3, <2>2, <3>1, <3>3
  <2> QED
    BY <2>1, <2>2
<1>6. sm.file \in Nat /\ sm.file \notin given /\ given \subseteq PageIds /\ sm.file \notin System
  <2>1. \A p \in given \cup System : p < sm.file
    BY DEF IInv, Owners, Held
  <2> QED
    BY <2>1, HeldFacts DEF IInv, Typed
<1>7. Typed'
  <2>1. given' \subseteq PageIds
    BY <1>3, <1>5, <1>6
  <2>2. sm'.hung <=> call' = Hung
    BY <1>1, <1>2, <1>5
  <2> QED
    BY <1>1, <1>4, <1>5, <2>1, <2>2 DEF IInv, Typed
<1>8. ChainPages = ChainOf(sm) /\ ChainPages' = ChainOf(t)
  BY <1>5 DEF ChainPages, ChainOf
<1>9. \A p \in PageIds : p \in Held' => p \in Held \/ p >= sm.file
  <2>1. \A p \in PageIds : p > sm.file \/ p = sm.file => p >= sm.file
    BY <1>6, SetFacts
  <2>2. given' \subseteq given \cup {sm.file}
    BY <1>5
  <2> QED
    BY <1>3, <1>8, <2>1, <2>2 DEF Held
<1>10. \A p \in PageIds : p < sm.file => p < sm'.file /\ sm'.bits[p] = sm.bits[p]
  <2>1. \A p \in PageIds : p < sm.file => p < t.file /\ p # sm.file
    BY <1>3, <1>6, SetFacts
  <2> QED
    BY <1>3, <1>5, <2>1
<1>11. \A p \in PageIds : p < sm.file => ~(p >= sm.file)
  BY <1>6, SetFacts
<1>12. Owners'
  <2>1. ASSUME NEW p \in Held' PROVE p < sm'.file /\ sm'.bits[p] = Blocks
    <3>1. CASE p \in ChainOf(t)
      BY <3>1, <1>5, <1>8, ChainMarked DEF ChainOf
    <3>2. CASE p \in System \cup given
      <4>1. p \in PageIds /\ p < sm.file /\ sm.bits[p] = Blocks
        BY <3>2, HeldFacts DEF IInv, Owners, Held
      <4> QED
        BY <4>1, <1>10
    <3>3. CASE p \in given' \ given
      BY <3>3, <1>3, <1>5
    <3> QED
      BY <3>1, <3>2, <3>3, <1>8 DEF Held
  <2>2. ASSUME NEW r \in Records, NEW p \in PageIds, usage[r][p] # {}
        PROVE  p < sm'.file /\ p \notin Held' /\ sm.bits[p] \subseteq sm'.bits[p]
    <3>1. p < sm.file /\ p \notin Held
      BY <2>2 DEF IInv, Owners
    <3> QED
      BY <1>9, <1>10, <1>11, <3>1
  <2>3. given' \cap (System \cup ChainPages') = {}
    <3>1. \A p \in given : p \notin System /\ p \notin ChainOf(sm) /\ p < sm.file /\ p \in PageIds
      BY <1>6, <1>8 DEF IInv, Owners, Held
    <3>2. \A p \in given : ~(p > sm.file)
      BY <3>1, <1>6, SetFacts
    <3>3. \A p \in given : p \notin ChainOf(t)
      BY <1>3, <3>1, <3>2
    <3> QED
      BY <1>3, <1>5, <1>6, <1>8, <3>1, <3>3
  <2> QED
    BY <1>1, <2>1, <2>2, <2>3, OwnersKept DEF IInv
<1>13. Offered'
  <2>1. Listed \subseteq PageIds
    BY ListedFacts DEF IInv, Typed
  <2>2. \A p \in Listed :
          /\ p < sm'.file /\ p \notin Held'
          /\ sm'.bits[p] \cup Pending(p)' \subseteq sm.bits[p] \cup Pending(p)
    BY <1>2, <1>4, <1>9, <1>10, <1>11, <2>1, QuietFacts, QuietFactsNext DEF IInv, Offered
  <2> QED
    BY <1>1, <2>2, OfferedSame DEF IInv
<1>14. Image'
  <2>1. Indexes(sm') = Indexes(t) /\ Unlinked = {}
    BY <1>2, <1>5, QuietFacts DEF Indexes
  <2>2. ASSUME NEW i \in Indexes(sm') \ sm'.dirty
        PROVE  /\ i \in Indexes(sm) \ sm.dirty
               /\ sm'.chain[i + 1] = sm.chain[i + 1]
               /\ DataOf(sm'.bits, i) = DataOf(sm.bits, i)
               /\ NextOf(sm'.chain, i) = NextOf(sm.chain, i)
    <3>1. i \in Indexes(t) \ t.dirty
      BY <1>5, <2>1
    <3>2. i \in Nat
      BY <1>3, <3>1, ChainFacts
    <3>3. \A p \in PageIds : InfoOf(p) = i => sm'.bits[p] = t.bits[p]
      BY <1>5, <2>2
    <3>4. DataOf(sm'.bits, i) = DataOf(t.bits, i)
      BY <3>2, <3>3, DataKept
    <3> QED
      BY <1>3, <1>5, <3>1, <3>4
  <2> QED
    BY <1>1, <1>5, <2>1, <2>2, ImageKept DEF IInv
<1> QED
  BY <1>1, <1>4, <1>7, <1>12, <1>13, <1>14, SizesKept DEF IInv, CallOK

LEMMA ReleasePageInv ==
  ASSUME IInv, NEW id \in PageIds, ReleasePage(id)
  PROVE  IInv'
<1>1. /\ call = Idle /\ id \in given /\ given' = given \ {id}
      /\ sm' = SetPageUsed(sm, id, FALSE) /\ Cache!Update(id, PageSize)
      /\ call' = [mode |-> "trim", id |-> sm.file - 1, after |-> Idle]
      /\ usage' = usage /\ len' = len /\ failed' = failed
  BY DEF ReleasePage, Trim
<1>2. id \in Held /\ id \notin System \cup ChainPages /\ id < sm.file
  BY <1>1 DEF IInv, Owners, Held
<1>3. /\ Sound(sm') /\ sm'.bits = [sm.bits EXCEPT ![id] = {}]
      /\ sm'.dirty = sm.dirty \cup {InfoOf(id)}
      /\ sm'.room = sm.room /\ sm'.file = sm.file /\ sm'.chain = sm.chain
      /\ sm'.disk = sm.disk /\ sm'.hung = sm.hung
  BY <1>1, <1>2, HeldFacts, PageCleared DEF IInv, Typed
<1>4. sm'.bits[id] = {} /\ \A p \in PageIds \ {id} : sm'.bits[p] = sm.bits[p]
  BY <1>3, HeldFacts DEF IInv
<1>5. ChainPages' = ChainPages /\ Held' = Held \ {id}
  <2>1. ChainPages' = ChainPages
    BY <1>3 DEF ChainPages
  <2> QED
    BY <1>1, <1>2, <2>1 DEF Held
<1>6. ~InRecord /\ ~InRecord' /\ call # Hung /\ call' # Hung
  BY <1>1, ModeFacts DEF InRecord
<1>7. PageSize \in 0 .. PageSize
  BY SetFacts
<1>8. Typed'
  <2>1. CP!IInv'
    BY <1>1, <1>7, CacheUpdate DEF IInv, Typed
  <2> QED
    BY <1>1, <1>3, <1>6, <2>1 DEF IInv, Typed
<1>9. Owners'
  <2>1. \A p \in Held' : p < sm'.file /\ sm'.bits[p] = Blocks
    BY <1>3, <1>4, <1>5, HeldFacts DEF IInv, Owners
  <2>2. \A r \in Records, p \in PageIds : usage[r][p] # {} =>
          p < sm'.file /\ p \notin Held' /\ sm.bits[p] \subseteq sm'.bits[p]
    BY <1>2, <1>3, <1>4, <1>5 DEF IInv, Owners
  <2>3. given' \cap (System \cup ChainPages') = {}
    BY <1>1, <1>5 DEF IInv, Owners
  <2> QED
    BY <1>1, <2>1, <2>2, <2>3, OwnersKept DEF IInv
<1>10. Offered'
  <2>1. \A p \in Listed \ {id} :
          /\ p < sm'.file /\ p \notin Held'
          /\ sm'.bits[p] \cup Pending(p)' \subseteq sm.bits[p] \cup Pending(p)
    <3>1. Listed \subseteq PageIds
      BY ListedFacts DEF IInv, Typed
    <3> QED
      BY <1>3, <1>4, <1>5, <1>6, <3>1, QuietFacts, QuietFactsNext DEF IInv, Offered
  <2>2. /\ id < sm'.file /\ id \notin Held'
        /\ \E n \in Nat : /\ PageSize = BlockSize * n
                          /\ n <= Cardinality(Blocks \ (sm'.bits[id] \cup Pending(id)'))
    BY <1>2, <1>3, <1>4, <1>5, <1>6, QuietFactsNext, EmptyPage
  <2> QED
    BY <1>1, <1>7, <2>1, <2>2, OfferedUpdate DEF IInv, Typed
<1>11. CallOK'
  <2>1. sm.file - 1 \in Int /\ sm.file - 1 \in MinPages - 1 .. sm'.file - 1
    BY <1>3, HeldFacts, SetFacts DEF IInv
  <2>2. Idle \in Afters'
    BY DEF Afters
  <2>3. call' \in TrimCalls' /\ call'.id = sm.file - 1
    BY <1>1, <2>1, <2>2 DEF TrimCalls
  <2>4. ASSUME NEW p \in PageIds, p > sm.file - 1
        PROVE  sm'.bits[p] = {} /\ p \notin Listed'
    <3>1. p \in Nat /\ sm.file \in Nat
      BY HeldFacts, SetFacts DEF IInv
    <3>2. p >= sm.file /\ ~(p < sm.file)
      BY <2>4, <3>1
    <3> QED
      BY <1>3, <1>10, <3>2 DEF Sound, Offered
  <2> QED
    BY <2>1, <2>3, <2>4 DEF CallOK, TrimOK
<1>12. Image'
  <2>1. \A p \in PageIds : sm'.bits[p] # sm.bits[p] => InfoOf(p) \in sm'.dirty
    BY <1>3, <1>4
  <2>2. failed' = {} => failed = {} /\ Unlinked \subseteq Unlinked' \cup sm'.dirty
    BY <1>1, <1>6, QuietFacts
  <2> QED
    BY <1>3, <2>1, <2>2, ImageMarked DEF IInv
<1> QED
  BY <1>1, <1>8, <1>9, <1>10, <1>11, <1>12, SizesKept DEF IInv

-----------------------------------------------------------------------------
(* The beginning of acquireRecord.                                           *)

LEMMA BeginFacts ==
  ASSUME NEW r \in Records, NEW l \in Lengths
  PROVE  /\ Begin(r, l) \in RecordCalls /\ Begin(r, l).rec = r
         /\ Begin(r, l).usage = NoUsage /\ Reserved(Begin(r, l))
<1> DEFINE n == (l + PageSize - 1) \div PageSize
<1>1. l \in Nat /\ l # 0 /\ PageSize \in Nat \ {0}
  BY RequestAssumption, SetFacts
<1>2. n \in Nat /\ l <= PageSize * n /\ PageSize * n < l + PageSize
  BY <1>1, CeilFacts
<1> HIDE DEF n
<1>3. PageSize * n = n * PageSize /\ n * PageSize \in Nat
  BY <1>1, <1>2
<1>4. n > 0
  <2>1. n = 0 => PageSize * n = 0
    BY <1>1
  <2> QED
    BY <1>1, <1>2, <2>1
<1>5. n * PageSize - l \in 0 .. PageSize - 1 /\ l = n * PageSize - (n * PageSize - l)
  BY <1>1, <1>2, <1>3
<1>6. Begin(r, l) = [mode |-> "record", rec |-> r, len |-> l, left |-> l, chunks |-> n,
                     spare |-> n * PageSize - l, usage |-> NoUsage]
  BY DEF Begin, n
<1>7. NoUsage \in [PageIds -> SUBSET Blocks]
  BY DEF NoUsage
<1>8. Begin(r, l) \in RecordCalls
  BY <1>1, <1>2, <1>5, <1>6, <1>7 DEF RecordCalls
<1>9. l - l = 0
  BY <1>1
<1>10. Reserved(Begin(r, l))
  <2>1. /\ Begin(r, l).len = l /\ Begin(r, l).left = l /\ Begin(r, l).chunks = n
        /\ Begin(r, l).spare = n * PageSize - l /\ Begin(r, l).usage = NoUsage
    BY <1>6
  <2> QED
    BY <1>1, <1>4, <1>5, <1>9, <2>1, BytesNone DEF Reserved
<1> QED
  BY <1>6, <1>8, <1>10

(* What a call may go on with after it has released something. *)
LEMMA AfterFacts ==
  ASSUME call' \in Afters'
  PROVE  CallOK' /\ (\A p \in PageIds : Pending(p)' = {}) /\ Unlinked' = {} /\ call' # Hung
<1>1. CASE call' = Idle
  <2>1. ~InRecord' /\ call' # Hung
    BY <1>1, ModeFacts DEF InRecord
  <2> QED
    BY <1>1, <2>1, QuietFactsNext DEF CallOK
<1>2. ASSUME NEW r \in Records, NEW l \in Lengths, len'[r] = 0, call' = Begin(r, l)
      PROVE  CallOK' /\ (\A p \in PageIds : Pending(p)' = {}) /\ Unlinked' = {} /\ call' # Hung
  <2>1. /\ call' \in RecordCalls /\ call'.rec = r /\ call'.usage = NoUsage
        /\ Reserved(call')
    BY <1>2, BeginFacts
  <2>2. \A p \in PageIds : call'.usage[p] = {}
    BY <2>1 DEF NoUsage
  <2>3. RecordOK'
    BY <1>2, <2>1, <2>2 DEF RecordOK
  <2>4. call' # Hung
    BY <2>1, ModeFacts
  <2>5. Unlinked' = {}
    BY <2>2, <2>4 DEF Unlinked
  <2>6. \A p \in PageIds : Pending(p)' = {}
    BY <2>2 DEF Pending
  <2> QED
    BY <2>3, <2>4, <2>5, <2>6 DEF CallOK
<1> QED
  BY <1>1, <1>2 DEF Afters

(* A step of a call that leaves the manager and everything held alone. *)
LEMMA QuietStep ==
  ASSUME IInv, UNCHANGED <<sm, heldVars>>, call # Hung, call' # Hung, CP!IInv'
  PROVE  /\ Typed' /\ Owners' /\ Sizes' /\ Held' = Held
         /\ sm'.file = sm.file /\ sm'.bits = sm.bits /\ len' = len
         /\ Unlinked \subseteq Unlinked' => Image'
<1>1. Owners' /\ Sizes' /\ Held' = Held
  BY OwnersSame DEF IInv
<1>2. sm' = sm /\ failed' = failed /\ given' = given /\ usage' = usage /\ len' = len
  BY DEF heldVars
<1>3. Typed'
  BY <1>2 DEF IInv, Typed
<1>4. ASSUME Unlinked \subseteq Unlinked' PROVE Image'
  BY <1>2, <1>4, ImageMarked DEF IInv
<1> QED
  BY <1>1, <1>2, <1>3, <1>4

LEMMA StartRecordInv ==
  ASSUME IInv, NEW r \in Records, NEW l \in Lengths, StartRecord(r, l)
  PROVE  IInv'
<1>1. /\ call = Idle /\ len[r] = 0 /\ call' = Begin(r, l)
      /\ UNCHANGED <<sm, cacheVars, heldVars>>
  BY DEF StartRecord
<1>2. ~InRecord /\ call # Hung
  BY <1>1, ModeFacts DEF InRecord
<1>3. call' \in Afters'
  BY <1>1 DEF Afters, heldVars
<1>4. CP!IInv'
  BY <1>1, CacheSame DEF IInv, Typed
<1>5. /\ Typed' /\ Owners' /\ Sizes' /\ Held' = Held
      /\ sm'.file = sm.file /\ sm'.bits = sm.bits /\ Image'
  BY <1>1, <1>2, <1>3, <1>4, AfterFacts, QuietFacts, QuietStep
<1>6. Listed \subseteq PageIds
  BY ListedFacts DEF IInv, Typed
<1>7. Offered'
  BY <1>1, <1>2, <1>3, <1>5, <1>6, AfterFacts, QuietFacts, OfferedSame DEF IInv, Offered
<1> QED
  BY <1>3, <1>5, <1>7, AfterFacts DEF IInv

(* The storage is full: what was reserved is pending no more. *)
LEMMA RecordFailsInv ==
  ASSUME IInv, RecordFails
  PROVE  IInv'
<1>1. /\ InRecord /\ call' = Idle /\ failed' = failed \cup {call.rec}
      /\ UNCHANGED cacheVars
      /\ sm' = sm /\ given' = given /\ usage' = usage /\ len' = len
  BY DEF RecordFails
<1>2. ~InRecord' /\ call # Hung /\ call' # Hung /\ call.rec \in Records
  BY <1>1, ModeFacts, CallFacts DEF InRecord, IInv, RecordOK, RecordCalls
<1>3. CP!IInv'
  BY <1>1, CacheSame DEF IInv, Typed
<1>4. Typed'
  BY <1>1, <1>2, <1>3 DEF IInv, Typed
<1>5. Held' = Held
  BY <1>1 DEF Held, ChainPages
<1>6. Owners'
  BY <1>1, <1>5 DEF IInv, Owners, ChainPages
<1>7. Offered'
  BY <1>1, <1>2, <1>5, QuietFactsNext, OfferedSame DEF IInv, Offered
<1>8. Image'
  BY <1>1, ImageMarked DEF IInv
<1> QED
  BY <1>1, <1>4, <1>6, <1>7, <1>8, SizesKept DEF IInv, CallOK

-----------------------------------------------------------------------------
(* The cut of the tail.                                                      *)

LEMMA IsUsedFacts ==
  ASSUME NEW s, Sound(s), NEW id \in PageIds, id < s.file
  PROVE  IsPageUsed(s, id) <=> s.bits[id] # {}
<1>1. InfoOf(id) < Len(s.chain)
  <2>1. InfoOf(id) \in Indexes(s) /\ Len(s.chain) \in Nat
    BY PageIndex, ChainFacts
  <2> QED
    BY <2>1 DEF Indexes
<1> QED
  BY <1>1 DEF IsPageUsed

(* The loop ends at a page that is used: the system pages are. *)
LEMMA TrimFacts ==
  ASSUME IInv, call.mode = "trim"
  PROVE  /\ call \in TrimCalls /\ call.id \in PageIds /\ call.id \in Nat
         /\ call.id < sm.file /\ MinPages <= call.id + 1
         /\ \A p \in PageIds : p > call.id => sm.bits[p] = {} /\ p \notin Listed
         /\ IsPageUsed(sm, call.id) <=> sm.bits[call.id] # {}
         /\ ~IsPageUsed(sm, call.id) => MinPages <= call.id
         /\ ~InRecord /\ call # Hung /\ call.after \in Afters
<1>1. /\ TrimOK /\ ~InRecord /\ call # Hung
  BY CallFacts DEF IInv
<1>2. /\ call \in TrimCalls /\ call.after \in Afters /\ call.id \in Int
      /\ call.id \in MinPages - 1 .. sm.file - 1
  BY <1>1 DEF TrimOK, TrimCalls
<1>3. /\ sm.file \in Nat /\ sm.file <= MaxPages /\ MinPages \in Nat \ {0} /\ MaxPages \in Nat
  BY HeldFacts, SetFacts DEF IInv
<1>4. /\ call.id \in Nat /\ call.id < sm.file /\ MinPages <= call.id + 1
      /\ call.id < MaxPages
  BY <1>2, <1>3
<1>5. call.id \in PageIds
  BY <1>3, <1>4 DEF PageIds
<1>6. IsPageUsed(sm, call.id) <=> sm.bits[call.id] # {}
  BY <1>4, <1>5, IsUsedFacts DEF IInv, Typed
<1>7. ASSUME ~(MinPages <= call.id) PROVE sm.bits[call.id] # {}
  <2>1. call.id \in System
    BY <1>3, <1>4, <1>7 DEF System
  <2> QED
    BY <2>1, BlocksFacts DEF IInv, Owners, Held
<1> QED
  BY <1>1, <1>2, <1>4, <1>5, <1>6, <1>7 DEF TrimOK

LEMMA TrimPageInv ==
  ASSUME IInv, TrimPage
  PROVE  IInv'
<1> DEFINE id == call.id
<1>1. /\ call.mode = "trim" /\ ~IsPageUsed(sm, id) /\ Cache!Update(id, 0)
      /\ call' = [call EXCEPT !.id = id - 1]
      /\ UNCHANGED <<sm, heldVars>>
  BY DEF TrimPage
<1>2. /\ call \in TrimCalls /\ id \in PageIds /\ id \in Nat /\ id < sm.file
      /\ \A p \in PageIds : p > id => sm.bits[p] = {} /\ p \notin Listed
      /\ sm.bits[id] = {} /\ MinPages <= id
      /\ ~InRecord /\ call # Hung
  BY <1>1, TrimFacts
<1>3. 0 \in 0 .. PageSize
  BY SetFacts
<1>4. CP!IInv' /\ Listed' \subseteq Listed \ {id}
  <2>1. CP!IInv' /\ Listed' \subseteq Listed \cup {id} /\ id \notin Listed'
    BY <1>1, <1>2, <1>3, CacheUpdate DEF IInv, Typed
  <2> QED
    BY <2>1
<1>5. call' \in TrimCalls' /\ call'.id = id - 1
  <2>1. Afters' = Afters
    BY <1>1 DEF Afters, heldVars
  <2> QED
    BY <1>1, <1>2, <2>1 DEF TrimCalls
<1>6. ~InRecord' /\ call' # Hung
  BY <1>5, ModeFacts DEF InRecord, TrimCalls
<1>7. /\ Typed' /\ Owners' /\ Sizes' /\ Held' = Held
      /\ sm'.file = sm.file /\ sm'.bits = sm.bits /\ Image'
  BY <1>1, <1>2, <1>4, <1>6, QuietFacts, QuietStep
<1>8. Offered'
  <2>1. \A p \in Listed \ {id} :
          /\ p < sm'.file /\ p \notin Held'
          /\ sm'.bits[p] \cup Pending(p)' \subseteq sm.bits[p] \cup Pending(p)
    BY <1>2, <1>6, <1>7, QuietFacts, QuietFactsNext DEF IInv, Offered
  <2> QED
    BY <1>1, <1>2, <1>3, <2>1, OfferedUpdate DEF IInv, Typed
<1>9. CallOK'
  <2>1. id - 1 \in MinPages - 1 .. sm'.file - 1
    BY <1>2, <1>7, HeldFacts, SetFacts DEF IInv
  <2>2. ASSUME NEW p \in PageIds, p > id - 1 PROVE sm'.bits[p] = {} /\ p \notin Listed'
    <3>1. p = id \/ p > id
      BY <1>2, <2>2, SetFacts
    <3> QED
      BY <1>2, <1>4, <1>7, <3>1
  <2> QED
    BY <1>5, <2>1, <2>2 DEF CallOK, TrimOK
<1> QED
  BY <1>7, <1>8, <1>9 DEF IInv

(* The cut of the tail moves the end of the file and nothing else. *)
LEMMA CutKeeps ==
  ASSUME IInv, CutTail
  PROVE  /\ Sound(sm') /\ sm'.file = call.id + 1 /\ sm'.chain = sm.chain
         /\ sm'.bits = sm.bits /\ sm'.dirty = sm.dirty /\ sm'.disk = sm.disk
         /\ sm'.hung = sm.hung
<1> DEFINE id == call.id
<1>1. /\ call.mode = "trim" /\ IsPageUsed(sm, id)
      /\ sm' = IF id = sm.file - 1 THEN sm ELSE Update([sm EXCEPT !.file = id + 1])
      /\ call' = call.after
      /\ UNCHANGED <<cacheVars, heldVars>>
  BY DEF CutTail
<1>2. /\ id \in PageIds /\ id \in Nat /\ id < sm.file /\ MinPages <= id + 1
      /\ \A p \in PageIds : p > id => sm.bits[p] = {} /\ p \notin Listed
      /\ ~InRecord /\ call # Hung /\ call.after \in Afters
  BY <1>1, TrimFacts
<1> HIDE DEF id
<1>3. /\ Sound(sm') /\ sm'.file = id + 1 /\ sm'.chain = sm.chain
      /\ sm'.bits = sm.bits /\ sm'.dirty = sm.dirty /\ sm'.disk = sm.disk
      /\ sm'.hung = sm.hung
  <2>1. CASE id = sm.file - 1
    <3>1. sm' = sm /\ sm.file = id + 1
      BY <1>1, <1>2, <2>1, HeldFacts DEF IInv
    <3> QED
      BY <3>1 DEF IInv, Typed
  <2>2. CASE id # sm.file - 1
    <3>1. ~sm.hung
      BY <1>2 DEF IInv, Typed
    <3> DEFINE t == [sm EXCEPT !.file = id + 1]
    <3>2. /\ Update(t) = t /\ Sound(t) /\ t.file = id + 1 /\ t.chain = sm.chain
          /\ t.bits = sm.bits /\ t.dirty = sm.dirty /\ t.disk = sm.disk
          /\ t.hung = sm.hung
      <4>1. Sound(sm) /\ \A p \in PageIds : p > id => sm.bits[p] = {}
        BY <1>2 DEF IInv, Typed
      <4> QED
        BY <1>2, <3>1, <4>1, CutFacts
    <3>3. sm' = t
      BY <1>1, <2>2, <3>2
    <3> HIDE DEF t
    <3> QED
      BY <3>2, <3>3
  <2> QED
    BY <2>1, <2>2
<1> QED
  BY <1>3 DEF id

LEMMA CutTailInv ==
  ASSUME IInv, CutTail
  PROVE  IInv'
<1> DEFINE id == call.id
<1>1. /\ call.mode = "trim" /\ IsPageUsed(sm, id)
      /\ sm' = IF id = sm.file - 1 THEN sm ELSE Update([sm EXCEPT !.file = id + 1])
      /\ call' = call.after
      /\ UNCHANGED <<cacheVars, heldVars>>
  BY DEF CutTail
<1>2. /\ id \in PageIds /\ id \in Nat /\ id < sm.file /\ MinPages <= id + 1
      /\ \A p \in PageIds : p > id => sm.bits[p] = {} /\ p \notin Listed
      /\ ~InRecord /\ call # Hung /\ call.after \in Afters
  BY <1>1, TrimFacts
<1>3. /\ Sound(sm') /\ sm'.file = id + 1 /\ sm'.chain = sm.chain
      /\ sm'.bits = sm.bits /\ sm'.dirty = sm.dirty /\ sm'.disk = sm.disk
      /\ sm'.hung = sm.hung
  BY CutKeeps
<1> HIDE DEF id
<1>4. /\ given' = given /\ usage' = usage /\ len' = len /\ failed' = failed
      /\ Afters' = Afters
  BY <1>1 DEF heldVars, Afters
<1>5. /\ CallOK' /\ (\A p \in PageIds : Pending(p)' = {}) /\ Unlinked' = {} /\ call' # Hung
  BY <1>1, <1>2, <1>4, AfterFacts
<1>6. CP!IInv'
  BY <1>1, CacheSame DEF IInv, Typed
<1>7. Typed'
  BY <1>2, <1>3, <1>4, <1>5, <1>6 DEF IInv, Typed
<1>8. ChainPages' = ChainPages /\ Held' = Held
  <2>1. ChainPages' = ChainPages
    BY <1>3 DEF ChainPages
  <2> QED
    BY <1>4, <2>1 DEF Held
(* Nothing in use lies behind the page the file is cut after. *)
<1>9. \A p \in PageIds : (sm.bits[p] # {} \/ p \in Listed) => p < sm'.file
  <2>1. \A p \in PageIds : p > id \/ p < id + 1
    BY <1>2, SetFacts
  <2> QED
    BY <1>2, <1>3, <2>1
<1>10. Owners'
  <2>1. \A p \in Held' : p < sm'.file /\ sm'.bits[p] = Blocks
    BY <1>3, <1>8, <1>9, HeldFacts, BlocksFacts DEF IInv, Owners
  <2>2. \A r \in Records, p \in PageIds : usage[r][p] # {} =>
          p < sm'.file /\ p \notin Held' /\ sm.bits[p] \subseteq sm'.bits[p]
    BY <1>3, <1>8, <1>9 DEF IInv, Owners
  <2>3. given' \cap (System \cup ChainPages') = {}
    BY <1>4, <1>8 DEF IInv, Owners
  <2> QED
    BY <1>4, <2>1, <2>2, <2>3, OwnersKept DEF IInv
<1>11. Offered'
  <2>1. Listed \subseteq PageIds
    BY ListedFacts DEF IInv, Typed
  <2> QED
    BY <1>1, <1>2, <1>3, <1>5, <1>8, <1>9, <2>1, QuietFacts, OfferedSame
    DEF IInv, Offered
<1>12. Image'
  BY <1>2, <1>3, <1>4, QuietFacts, ImageMarked DEF IInv
<1> QED
  BY <1>4, <1>5, <1>7, <1>10, <1>11, <1>12, SizesKept DEF IInv

-----------------------------------------------------------------------------
(* The end of acquireRecord, and releaseRecord.                              *)

LEMMA RecordMarked ==
  ASSUME NEW s, Sound(s), NEW u \in [PageIds -> SUBSET Blocks],
         \A p \in PageIds : u[p] # {} => p < s.file /\ p \notin ChainOf(s)
  PROVE  LET t == SetRecordUsed(s, u, TRUE) IN
         /\ Sound(t) /\ \A p \in PageIds : t.bits[p] = s.bits[p] \cup u[p]
         /\ s.dirty \subseteq t.dirty
         /\ \A p \in PageIds : u[p] # {} => InfoOf(p) \in t.dirty
         /\ t.room = s.room /\ t.file = s.file /\ t.chain = s.chain
         /\ t.disk = s.disk /\ t.hung = s.hung
<1> DEFINE t == SetRecordUsed(s, u, TRUE)
<1>1. TRUE \in BOOLEAN
  OBVIOUS
<1>2. /\ Sound(t)
      /\ t.bits = [p \in PageIds |-> IF TRUE THEN s.bits[p] \cup u[p] ELSE s.bits[p] \ u[p]]
      /\ t.dirty = s.dirty \cup {InfoOf(p) : p \in {q \in PageIds : u[q] # {}}}
      /\ t.room = s.room /\ t.file = s.file /\ t.chain = s.chain
      /\ t.disk = s.disk /\ t.hung = s.hung
  BY <1>1, SetRecordSound
<1> HIDE DEF t
<1>3. \A p \in PageIds : t.bits[p] = s.bits[p] \cup u[p]
  BY <1>2
<1>4. s.dirty \subseteq t.dirty /\ \A p \in PageIds : u[p] # {} => InfoOf(p) \in t.dirty
  BY <1>2
<1> QED
  BY <1>2, <1>3, <1>4 DEF t

LEMMA RecordCleared ==
  ASSUME NEW s, Sound(s), NEW u \in [PageIds -> SUBSET Blocks],
         \A p \in PageIds : u[p] # {} => p < s.file /\ p \notin ChainOf(s)
  PROVE  LET t == SetRecordUsed(s, u, FALSE) IN
         /\ Sound(t) /\ \A p \in PageIds : t.bits[p] = s.bits[p] \ u[p]
         /\ s.dirty \subseteq t.dirty
         /\ \A p \in PageIds : u[p] # {} => InfoOf(p) \in t.dirty
         /\ t.room = s.room /\ t.file = s.file /\ t.chain = s.chain
         /\ t.disk = s.disk /\ t.hung = s.hung
<1> DEFINE t == SetRecordUsed(s, u, FALSE)
<1>1. FALSE \in BOOLEAN
  OBVIOUS
<1>2. /\ Sound(t)
      /\ t.bits = [p \in PageIds |-> IF FALSE THEN s.bits[p] \cup u[p] ELSE s.bits[p] \ u[p]]
      /\ t.dirty = s.dirty \cup {InfoOf(p) : p \in {q \in PageIds : u[q] # {}}}
      /\ t.room = s.room /\ t.file = s.file /\ t.chain = s.chain
      /\ t.disk = s.disk /\ t.hung = s.hung
  BY <1>1, SetRecordSound
<1> HIDE DEF t
<1>3. \A p \in PageIds : t.bits[p] = s.bits[p] \ u[p]
  BY <1>2
<1>4. s.dirty \subseteq t.dirty /\ \A p \in PageIds : u[p] # {} => InfoOf(p) \in t.dirty
  BY <1>2
<1> QED
  BY <1>2, <1>3, <1>4 DEF t

LEMMA FinishRecordInv ==
  ASSUME IInv, FinishRecord
  PROVE  IInv'
<1> DEFINE u == call.usage
           r == call.rec
<1>1. /\ InRecord /\ call.chunks = 0 /\ sm' = SetRecordUsed(sm, u, TRUE)
      /\ usage' = [usage EXCEPT ![r] = u] /\ len' = [len EXCEPT ![r] = call.len]
      /\ call' = Idle /\ UNCHANGED cacheVars
      /\ given' = given /\ failed' = failed
  BY DEF FinishRecord
<1>2. /\ call \in RecordCalls /\ Reserved(call) /\ call # Hung
      /\ r \in Records /\ u \in [PageIds -> SUBSET Blocks]
      /\ call.len \in Nat \ {0}
      /\ \A p \in PageIds : u[p] # {} =>
           p < sm.file /\ p \notin Held /\ u[p] \cap sm.bits[p] = {}
  BY <1>1, CallFacts DEF IInv, RecordOK, RecordCalls, Reserved
<1>3. BytesOf(u) = BlockSize * BlocksFor(call.len)
  BY <1>1, <1>2 DEF Reserved
<1>4. ~InRecord' /\ call' # Hung
  BY <1>1, ModeFacts DEF InRecord
<1>5. \A p : Pending(p) = u[p]
  BY <1>1 DEF Pending
<1> HIDE DEF u, r
<1>6. /\ Sound(sm') /\ \A p \in PageIds : sm'.bits[p] = sm.bits[p] \cup u[p]
      /\ sm.dirty \subseteq sm'.dirty
      /\ \A p \in PageIds : u[p] # {} => InfoOf(p) \in sm'.dirty
      /\ sm'.room = sm.room /\ sm'.file = sm.file /\ sm'.chain = sm.chain
      /\ sm'.disk = sm.disk /\ sm'.hung = sm.hung
  <2>1. \A p \in PageIds : u[p] # {} => p < sm.file /\ p \notin ChainOf(sm)
    BY <1>2, HeldFacts DEF IInv, Held
  <2>2. Sound(sm) /\ u \in [PageIds -> SUBSET Blocks]
    BY <1>2 DEF IInv, Typed
  <2> DEFINE t == SetRecordUsed(sm, u, TRUE)
  <2>3. /\ Sound(t) /\ \A p \in PageIds : t.bits[p] = sm.bits[p] \cup u[p]
        /\ sm.dirty \subseteq t.dirty
        /\ \A p \in PageIds : u[p] # {} => InfoOf(p) \in t.dirty
        /\ t.room = sm.room /\ t.file = sm.file /\ t.chain = sm.chain
        /\ t.disk = sm.disk /\ t.hung = sm.hung
    BY <2>1, <2>2, RecordMarked
  <2>4. sm' = t
    BY <1>1
  <2> HIDE DEF t
  <2> QED
    BY <2>3, <2>4
<1>7. /\ usage \in [Records -> [PageIds -> SUBSET Blocks]] /\ len \in [Records -> Nat]
      /\ usage'[r] = u /\ len'[r] = call.len
      /\ \A q \in Records : q # r => usage'[q] = usage[q] /\ len'[q] = len[q]
  BY <1>1, <1>2 DEF IInv, Typed
<1>8. CP!IInv'
  BY <1>1, CacheSame DEF IInv, Typed
<1>9. Typed'
  <2>1. /\ usage' \in [Records -> [PageIds -> SUBSET Blocks]] /\ len' \in [Records -> Nat]
    BY <1>1, <1>2, <1>7
  <2> QED
    BY <1>1, <1>2, <1>4, <1>6, <1>8, <2>1 DEF IInv, Typed
<1>10. ChainPages' = ChainPages /\ Held' = Held
  <2>1. ChainPages' = ChainPages
    BY <1>6 DEF ChainPages
  <2> QED
    BY <1>1, <2>1 DEF Held
<1>11. Owners'
  <2>1. \A p \in Held' : p < sm'.file /\ sm'.bits[p] = Blocks
    <3>1. \A p \in Held : p \in PageIds /\ p < sm.file /\ sm.bits[p] = Blocks
      BY HeldFacts DEF IInv, Owners
    <3>2. \A p \in Held : u[p] = {}
      BY <1>2, <3>1
    <3> QED
      BY <1>6, <1>10, <3>1, <3>2
  <2>2. \A q \in Records, p \in PageIds : usage[q][p] # {} =>
          p < sm.file /\ p \notin Held /\ usage[q][p] \subseteq sm.bits[p]
    BY DEF IInv, Owners
  <2>3. ASSUME NEW q \in Records, NEW p \in PageIds, usage'[q][p] # {}
        PROVE  p < sm'.file /\ p \notin Held' /\ usage'[q][p] \subseteq sm'.bits[p]
    <3>1. CASE q = r
      BY <3>1, <1>2, <1>6, <1>7, <1>10, <2>3
    <3>2. CASE q # r
      BY <3>2, <1>6, <1>7, <1>10, <2>2, <2>3
    <3> QED
      BY <3>1, <3>2
  <2>4. ASSUME NEW q \in Records, NEW k \in Records, NEW p \in PageIds, q # k
        PROVE  usage'[q][p] \cap usage'[k][p] = {}
    <3>1. ASSUME NEW x \in Records, x # r PROVE usage[x][p] \cap u[p] = {}
      <4>1. usage[x][p] = {} \/ usage[x][p] \subseteq sm.bits[p]
        BY <2>2
      <4>2. u[p] = {} \/ u[p] \cap sm.bits[p] = {}
        BY <1>2
      <4> QED
        BY <4>1, <4>2
    <3>2. usage[q][p] \cap usage[k][p] = {}
      BY <2>4 DEF IInv, Owners
    <3> QED
      BY <1>7, <2>4, <3>1, <3>2
  <2>5. \A q \in Records : len'[q] = 0 => usage'[q] = NoUsage
    BY <1>2, <1>7 DEF IInv, Owners
  <2>6. given' \cap (System \cup ChainPages') = {}
    BY <1>1, <1>10 DEF IInv, Owners
  <2> QED
    BY <2>1, <2>3, <2>4, <2>5, <2>6 DEF Owners
<1>12. Sizes'
  <2>1. ASSUME NEW q \in Records
        PROVE  BytesOf(usage'[q]) = BlockSize * BlocksFor(len'[q])
    BY <1>3, <1>7 DEF IInv, Sizes, u
  <2> QED
    BY <2>1 DEF Sizes
<1>13. Offered'
  <2>1. Listed \subseteq PageIds
    BY ListedFacts DEF IInv, Typed
  <2> QED
    BY <1>1, <1>4, <1>5, <1>6, <1>10, <2>1, QuietFactsNext, OfferedSame
    DEF IInv, Offered
<1>14. Image'
  <2>1. \A p \in PageIds : u[p] # {} => InfoOf(p) \in sm'.dirty
    BY <1>6
  <2>2. \A p \in PageIds : sm'.bits[p] # sm.bits[p] => u[p] # {}
    BY <1>6
  <2>3. Unlinked \subseteq sm'.dirty
    BY <1>2, <2>1 DEF Unlinked, u
  <2> QED
    BY <1>1, <1>6, <2>1, <2>2, <2>3, ImageMarked DEF IInv
<1> QED
  BY <1>1, <1>9, <1>11, <1>12, <1>13, <1>14 DEF IInv, CallOK

LEMMA DropRecordInv ==
  ASSUME IInv, NEW r \in Records, NEW after, DropRecord(r, after),
         after = Idle \/ \E l \in Lengths : after = Begin(r, l)
  PROVE  IInv'
<1> DEFINE u == usage[r]
           todo == {p \in PageIds : u[p] # {}}
<1>1. /\ call = Idle /\ sm' = SetRecordUsed(sm, u, FALSE)
      /\ usage' = [usage EXCEPT ![r] = NoUsage] /\ len' = [len EXCEPT ![r] = 0]
      /\ call' = [mode |-> "release", todo |-> todo, after |-> after]
      /\ UNCHANGED cacheVars /\ given' = given /\ failed' = failed
  BY DEF DropRecord
<1>2. /\ u \in [PageIds -> SUBSET Blocks]
      /\ \A p \in PageIds : u[p] # {} => p < sm.file /\ p \notin Held
  BY DEF IInv, Typed, Owners
<1>3. ~InRecord /\ call # Hung /\ ~InRecord' /\ call' # Hung
  BY <1>1, ModeFacts DEF InRecord
<1> HIDE DEF u
<1>4. /\ Sound(sm') /\ \A p \in PageIds : sm'.bits[p] = sm.bits[p] \ u[p]
      /\ sm.dirty \subseteq sm'.dirty
      /\ \A p \in PageIds : u[p] # {} => InfoOf(p) \in sm'.dirty
      /\ sm'.room = sm.room /\ sm'.file = sm.file /\ sm'.chain = sm.chain
      /\ sm'.disk = sm.disk /\ sm'.hung = sm.hung
  <2>1. \A p \in PageIds : u[p] # {} => p < sm.file /\ p \notin ChainOf(sm)
    BY <1>2, HeldFacts DEF IInv, Held
  <2>2. Sound(sm) /\ u \in [PageIds -> SUBSET Blocks]
    BY <1>2 DEF IInv, Typed
  <2> DEFINE t == SetRecordUsed(sm, u, FALSE)
  <2>3. /\ Sound(t) /\ \A p \in PageIds : t.bits[p] = sm.bits[p] \ u[p]
        /\ sm.dirty \subseteq t.dirty
        /\ \A p \in PageIds : u[p] # {} => InfoOf(p) \in t.dirty
        /\ t.room = sm.room /\ t.file = sm.file /\ t.chain = sm.chain
        /\ t.disk = sm.disk /\ t.hung = sm.hung
    BY <2>1, <2>2, RecordCleared
  <2>4. sm' = t
    BY <1>1
  <2> HIDE DEF t
  <2> QED
    BY <2>3, <2>4
<1>5. /\ usage \in [Records -> [PageIds -> SUBSET Blocks]] /\ len \in [Records -> Nat]
      /\ usage'[r] = NoUsage /\ len'[r] = 0
      /\ \A q \in Records : q # r => usage'[q] = usage[q] /\ len'[q] = len[q]
  BY <1>1 DEF IInv, Typed
<1>6. CP!IInv'
  BY <1>1, CacheSame DEF IInv, Typed
<1>7. NoUsage \in [PageIds -> SUBSET Blocks] /\ \A p \in PageIds : NoUsage[p] = {}
  BY DEF NoUsage
<1>8. Typed'
  <2>1. /\ usage' \in [Records -> [PageIds -> SUBSET Blocks]] /\ len' \in [Records -> Nat]
    BY <1>1, <1>5, <1>7
  <2> QED
    BY <1>1, <1>3, <1>4, <1>6, <2>1 DEF IInv, Typed
<1>9. ChainPages' = ChainPages /\ Held' = Held
  <2>1. ChainPages' = ChainPages
    BY <1>4 DEF ChainPages
  <2> QED
    BY <1>1, <2>1 DEF Held
<1>10. Owners'
  <2>1. \A p \in Held' : p < sm'.file /\ sm'.bits[p] = Blocks
    <3>1. \A p \in Held : p \in PageIds /\ p < sm.file /\ sm.bits[p] = Blocks
      BY HeldFacts DEF IInv, Owners
    <3>2. \A p \in Held : u[p] = {}
      BY <1>2, <3>1
    <3> QED
      BY <1>4, <1>9, <3>1, <3>2
  <2>2. ASSUME NEW q \in Records, NEW p \in PageIds, usage'[q][p] # {}
        PROVE  p < sm'.file /\ p \notin Held' /\ usage'[q][p] \subseteq sm'.bits[p]
    <3>1. q # r /\ usage'[q][p] = usage[q][p]
      BY <1>5, <1>7, <2>2
    <3>2. p < sm.file /\ p \notin Held /\ usage[q][p] \subseteq sm.bits[p]
          /\ usage[q][p] \cap u[p] = {}
      BY <2>2, <3>1 DEF IInv, Owners, u
    <3> QED
      BY <1>4, <1>9, <3>1, <3>2
  <2>3. \A q, k \in Records, p \in PageIds : q # k => usage'[q][p] \cap usage'[k][p] = {}
    BY <1>5, <1>7 DEF IInv, Owners
  <2>4. \A q \in Records : len'[q] = 0 => usage'[q] = NoUsage
    BY <1>5 DEF IInv, Owners
  <2>5. given' \cap (System \cup ChainPages') = {}
    BY <1>1, <1>9 DEF IInv, Owners
  <2> QED
    BY <2>1, <2>2, <2>3, <2>4, <2>5 DEF Owners
<1>11. Sizes'
  <2>1. BlockSize * BlocksFor(0) = 0
    <3>1. 0 \in Nat /\ BlockSize \in Nat \ {0}
      BY SetFacts
    <3>2. /\ BlocksFor(0) \in Nat /\ BlockSize * BlocksFor(0) < 0 + BlockSize
          /\ \A m \in Nat : BlockSize * m < 0 <=> m < BlocksFor(0)
      BY <3>1, CeilFacts DEF BlocksFor
    <3>3. BlocksFor(0) = 0
      BY <3>1, <3>2
    <3> QED
      BY <3>1, <3>3
  <2>2. ASSUME NEW q \in Records
        PROVE  BytesOf(usage'[q]) = BlockSize * BlocksFor(len'[q])
    BY <1>5, <2>1, BytesNone DEF IInv, Sizes
  <2> QED
    BY <2>2 DEF Sizes
<1>12. Offered'
  <2>1. Listed \subseteq PageIds
    BY ListedFacts DEF IInv, Typed
  <2> QED
    BY <1>1, <1>3, <1>4, <1>9, <2>1, QuietFacts, QuietFactsNext, OfferedSame
    DEF IInv, Offered
<1>13. CallOK'
  <2>1. after \in Afters'
    BY <1>5 DEF Afters
  <2>2. todo \in SUBSET PageIds /\ \A p \in todo : p < sm.file /\ p \notin Held
    BY <1>2
  <2> HIDE DEF todo
  <2>3. call' \in ReleaseCalls' /\ call'.todo = todo
    BY <1>1, <2>1, <2>2 DEF ReleaseCalls
  <2> QED
    BY <1>4, <1>9, <2>2, <2>3 DEF CallOK, ReleaseOK
<1>14. Image'
  <2>1. \A p \in PageIds : sm'.bits[p] # sm.bits[p] => InfoOf(p) \in sm'.dirty
    <3>1. \A p \in PageIds : u[p] # {} => InfoOf(p) \in sm'.dirty
      BY <1>4
    <3>2. \A p \in PageIds : sm'.bits[p] # sm.bits[p] => u[p] # {}
      BY <1>4
    <3> QED
      BY <3>1, <3>2
  <2> QED
    BY <1>1, <1>3, <1>4, <2>1, QuietFacts, ImageMarked DEF IInv
<1> QED
  BY <1>8, <1>10, <1>11, <1>12, <1>13, <1>14 DEF IInv

LEMMA ReleaseSpaceInv ==
  ASSUME IInv, NEW p \in PageIds, ReleaseSpace(p)
  PROVE  IInv'
<1> DEFINE f == FreeSpaceOnPage(sm, p)
           n == Cardinality(Blocks \ sm.bits[p])
<1>1. /\ call.mode = "release" /\ p \in call.todo /\ Cache!Update(p, f)
      /\ call' = IF call.todo = {p} THEN Trim(call.after)
                 ELSE [call EXCEPT !.todo = call.todo \ {p}]
      /\ UNCHANGED <<sm, heldVars>>
  BY DEF ReleaseSpace
<1>2. /\ call \in ReleaseCalls /\ ~InRecord /\ call # Hung
      /\ \A q \in call.todo : q < sm.file /\ q \notin Held
  BY <1>1, CallFacts DEF IInv, ReleaseOK
<1>3. f = BlockSize * n /\ n \in Nat /\ f \in 0 .. PageSize
  BY HeldFacts, FreeFacts DEF FreeSpaceOnPage, IInv
<1> HIDE DEF f
<1>4. Afters' = Afters
  BY <1>1 DEF Afters, heldVars
<1>5. CP!IInv'
  BY <1>1, <1>3, CacheUpdate DEF IInv, Typed
<1>6. /\ call.after \in Afters' /\ call.todo \in SUBSET PageIds
      /\ \/ call' = [mode |-> "trim", id |-> sm.file - 1, after |-> call.after]
         \/ call' = [call EXCEPT !.todo = call.todo \ {p}]
  BY <1>1, <1>2, <1>4 DEF ReleaseCalls, Trim
<1>7. \/ /\ call' \in TrimCalls' /\ call'.id = sm.file - 1
      \/ /\ call' \in ReleaseCalls' /\ call'.todo \subseteq call.todo
  <2>1. CASE call' = [mode |-> "trim", id |-> sm.file - 1, after |-> call.after]
    BY <1>6, <2>1, HeldFacts DEF TrimCalls, IInv
  <2>2. CASE call' = [call EXCEPT !.todo = call.todo \ {p}]
    <3> DEFINE d == call.todo \ {p}
    <3>1. d \in SUBSET PageIds /\ d \subseteq call.todo
      BY <1>6
    <3> HIDE DEF d
    <3>2. call' = [call EXCEPT !.todo = d]
      BY <2>2 DEF d
    <3>3. call \in [mode : {"release"}, todo : SUBSET PageIds, after : Afters']
      BY <1>2, <1>4 DEF ReleaseCalls
    <3>4. call' \in ReleaseCalls' /\ call'.todo = d
      BY <3>1, <3>2, <3>3 DEF ReleaseCalls
    <3> QED
      BY <3>1, <3>4
  <2> QED
    BY <1>6, <2>1, <2>2
<1>8. ~InRecord' /\ call' # Hung
  BY <1>7, ModeFacts DEF InRecord, TrimCalls, ReleaseCalls
<1>9. /\ Typed' /\ Owners' /\ Sizes' /\ Held' = Held
      /\ sm'.file = sm.file /\ sm'.bits = sm.bits /\ Image'
  BY <1>1, <1>2, <1>5, <1>8, QuietFacts, QuietStep
<1>10. Offered'
  <2>1. \A q \in Listed \ {p} :
          /\ q < sm'.file /\ q \notin Held'
          /\ sm'.bits[q] \cup Pending(q)' \subseteq sm.bits[q] \cup Pending(q)
    BY <1>2, <1>8, <1>9, QuietFacts, QuietFactsNext DEF IInv, Offered
  <2>2. n <= Cardinality(Blocks \ (sm'.bits[p] \cup Pending(p)'))
    <3>1. sm'.bits[p] \cup Pending(p)' = sm.bits[p]
      BY <1>8, <1>9, QuietFactsNext
    <3>2. n \in Nat /\ n = Cardinality(Blocks \ (sm'.bits[p] \cup Pending(p)'))
      BY <1>3, <3>1
    <3> QED
      BY <3>2
  <2> HIDE DEF n
  <2> QED
    BY <1>1, <1>2, <1>3, <1>9, <2>1, <2>2, OfferedUpdate DEF IInv, Typed
<1>11. CallOK'
  <2>1. CASE call' \in ReleaseCalls' /\ call'.todo \subseteq call.todo
    BY <1>2, <1>9, <2>1 DEF CallOK, ReleaseOK
  <2>2. CASE call' \in TrimCalls' /\ call'.id = sm.file - 1
    <3>1. sm.file - 1 \in MinPages - 1 .. sm'.file - 1
      BY <1>9, HeldFacts, SetFacts DEF IInv
    <3>2. ASSUME NEW q \in PageIds, q > sm.file - 1
          PROVE  sm'.bits[q] = {} /\ q \notin Listed'
      <4>1. q \in Nat /\ sm.file \in Nat
        BY HeldFacts, SetFacts DEF IInv
      <4>2. q >= sm'.file /\ ~(q < sm'.file)
        BY <1>9, <3>2, <4>1
      <4> QED
        BY <1>9, <1>10, <4>2 DEF Typed, Sound, Offered
    <3> QED
      BY <2>2, <3>1, <3>2 DEF CallOK, TrimOK
  <2> QED
    BY <1>7, <2>1, <2>2
<1> QED
  BY <1>9, <1>10, <1>11 DEF IInv

-----------------------------------------------------------------------------
(* commit and load.                                                          *)

LEMMA CommitSpaceInv ==
  ASSUME IInv, CommitSpace
  PROVE  IInv'
<1>1. /\ call = Idle /\ sm' = Commit(sm) /\ UNCHANGED <<cacheVars, call>>
      /\ given' = given /\ usage' = usage /\ len' = len /\ failed' = failed
  BY DEF CommitSpace, heldVars
<1>2. ~InRecord /\ call # Hung /\ ~InRecord' /\ call' # Hung
  BY <1>1, ModeFacts DEF InRecord
<1>3. /\ Sound(sm') /\ sm'.dirty = {} /\ sm'.bits = sm.bits
      /\ sm'.room = sm.room /\ sm'.file = sm.file /\ sm'.chain = sm.chain /\ sm'.hung = sm.hung
      /\ \A i \in Indexes(sm) :
           sm'.disk[sm.chain[i + 1]] =
             IF i \in sm.dirty
             THEN [next |-> NextOf(sm.chain, i), data |-> DataOf(sm.bits, i)]
             ELSE sm.disk[sm.chain[i + 1]]
  BY <1>1, CommitFacts DEF IInv, Typed
<1>4. CP!IInv'
  BY <1>1, CacheSame DEF IInv, Typed
<1>5. Typed'
  BY <1>1, <1>2, <1>3, <1>4 DEF IInv, Typed
<1>6. ChainPages' = ChainPages /\ Held' = Held
  <2>1. ChainPages' = ChainPages
    BY <1>3 DEF ChainPages
  <2> QED
    BY <1>1, <2>1 DEF Held
<1>7. Owners'
  BY <1>1, <1>3, <1>6 DEF IInv, Owners
<1>8. Offered'
  BY <1>1, <1>2, <1>3, <1>6, QuietFacts, QuietFactsNext, OfferedSame DEF IInv, Offered
<1>9. Image'
  <2>1. Indexes(sm') = Indexes(sm) /\ Unlinked = {}
    BY <1>2, <1>3, QuietFacts DEF Indexes
  <2>2. ASSUME NEW i \in Indexes(sm)
        PROVE  /\ sm'.disk[sm.chain[i + 1]].data = DataOf(sm.bits, i)
               /\ failed = {} => sm'.disk[sm.chain[i + 1]].next = NextOf(sm.chain, i)
    <3>1. CASE i \in sm.dirty
      <4> DEFINE nx == NextOf(sm.chain, i)
                 dt == DataOf(sm.bits, i)
      <4>1. sm'.disk[sm.chain[i + 1]] = [next |-> nx, data |-> dt]
        BY <1>3, <3>1
      <4> HIDE DEF nx, dt
      <4> QED
        BY <4>1 DEF nx, dt
    <3>2. CASE i \notin sm.dirty
      BY <1>3, <2>1, <3>2 DEF IInv, Image
    <3> QED
      BY <3>1, <3>2
  <2> QED
    BY <1>1, <1>3, <2>1, <2>2 DEF Image
<1> QED
  BY <1>1, <1>5, <1>7, <1>8, <1>9, SizesKept DEF IInv, CallOK

(* What is on disk once nothing is dirty. *)
LEMMA LoadBack ==
  ASSUME IInv, sm.dirty = {}, failed = {}
  PROVE  Load(sm) = sm
<1>1. Sound(sm) /\ Image
  BY DEF IInv, Typed
<1>2. Unlinked = {}
  BY DEF Unlinked
<1>3. \A i \in Indexes(sm) :
        /\ sm.disk[sm.chain[i + 1]].data = DataOf(sm.bits, i)
        /\ sm.disk[sm.chain[i + 1]].next = NextOf(sm.chain, i)
  BY <1>1, <1>2 DEF Image
<1>4. LinksTrue(sm)
  BY <1>3 DEF LinksTrue
<1> QED
  BY <1>1, <1>3, <1>4, LoadSame

LEMMA ReopenInv ==
  ASSUME IInv, Reopen
  PROVE  IInv'
<1>1. /\ call = Idle /\ sm' = sm
      /\ cache' = <<>> /\ minFreeSpace' = -1 /\ space' = [p \in PageIds |-> 0]
      /\ UNCHANGED <<call, heldVars>>
  BY LoadBack DEF Reopen
<1>2. ~InRecord /\ call # Hung /\ ~InRecord' /\ call' # Hung
  BY <1>1, ModeFacts DEF InRecord
<1>3. CP!IInv'
  BY <1>1, SetFacts, RequestAssumption
  DEF CP!IInv, CP!TypeOK, CP!CacheBounded, CP!CacheTrue
<1>4. Listed' = {}
  BY <1>1 DEF Listed
<1>5. /\ Typed' /\ Owners' /\ Sizes' /\ Image'
  BY <1>1, <1>2, <1>3, QuietFacts, QuietStep
<1> QED
  BY <1>1, <1>4, <1>5 DEF IInv, Offered, CallOK

-----------------------------------------------------------------------------
(* The chunks of a record.                                                   *)

LEMMA BytesWhole ==
  ASSUME NEW u \in [PageIds -> SUBSET Blocks]
  PROVE  \E j \in Nat : BytesOf(u) = BlockSize * j
<1> DEFINE S == {x \in PageIds \X Blocks : x[2] \in u[x[1]]}
<1>1. IsFiniteSet(PageIds) /\ IsFiniteSet(Blocks)
  BY FS_Interval, SetFacts, BlocksFacts DEF PageIds
<1>2. Cardinality(S) \in Nat
  BY <1>1, FS_Product, FS_Subset, FS_CardinalityType
<1> QED
  BY <1>2 DEF BytesOf

(* How much of a page a chunk takes: all that is cached, unless it is the
   last chunk, which takes what is left. *)
LEMMA ChunkSizes ==
  ASSUME NEW left \in Nat, NEW chunks \in Nat \ {0}, NEW spare \in 0 .. PageSize - 1,
         left = chunks * PageSize - spare,
         NEW free \in 0 .. PageSize, PageSize - spare <= free
  PROVE  LET reserved == Least(left, free) IN
         /\ reserved \in Nat \ {0} /\ reserved <= free /\ left - reserved \in Nat
         /\ chunks - 1 \in Nat
         /\ spare - (PageSize - reserved) \in 0 .. PageSize - 1
         /\ left - reserved = (chunks - 1) * PageSize - (spare - (PageSize - reserved))
         /\ chunks - 1 > 0 => reserved = free
         /\ ~(chunks - 1 > 0) => reserved = left
<1> DEFINE k == chunks - 1
           x == k * PageSize
<1>1. PageSize \in Nat \ {0} /\ k \in Nat /\ free \in Nat /\ spare \in Nat
  BY SetFacts
<1>2. x \in Nat /\ chunks * PageSize = x + PageSize
  BY <1>1
<1>3. k > 0 => x >= PageSize
  <2>1. ASSUME k > 0 PROVE PageSize * 1 <= PageSize * k
    BY <1>1, <2>1, TimesMonotone
  <2>2. PageSize * 1 = PageSize /\ PageSize * k = x
    BY <1>1
  <2> QED
    BY <2>1, <2>2
<1>4. ~(k > 0) => x = 0
  <2>1. ASSUME ~(k > 0) PROVE k = 0
    BY <1>1, <2>1
  <2> QED
    BY <1>1, <2>1
<1> HIDE DEF x
<1>5. CASE k > 0
  BY <1>1, <1>2, <1>3, <1>5 DEF Least, x
<1>6. CASE ~(k > 0)
  BY <1>1, <1>2, <1>4, <1>6 DEF Least, x
<1> QED
  BY <1>5, <1>6

(* The blocks for it are there, and the cache is told of what is left. *)
Taken(s, id, n, reserved) ==
  LET b == ReserveBlocks(s, id, reserved)
      m == BlocksFor(reserved)
  IN /\ b \in SUBSET (Blocks \ s.bits[id]) /\ b # {} /\ Cardinality(b) = m
     /\ m \in Nat /\ n - m \in Nat
     /\ BlockSize * n - BlockSize * m = BlockSize * (n - m)
     /\ BlockSize * (n - m) \in 0 .. PageSize
     /\ n - m <= Cardinality(Blocks \ (s.bits[id] \cup b))
     /\ reserved = BlockSize * n =>
          BlockSize * (n - m) = 0 /\ BlockSize * m = reserved

LEMMA ChunkBlocks ==
  ASSUME NEW s, NEW id, s.bits[id] \in SUBSET Blocks, NEW n \in Nat,
         n <= Cardinality(Blocks \ s.bits[id]),
         NEW reserved \in Nat \ {0}, reserved <= BlockSize * n,
         BlockSize * n <= PageSize
  PROVE  Taken(s, id, n, reserved)
<1> DEFINE free == Blocks \ s.bits[id]
           b == ReserveBlocks(s, id, reserved)
           m == BlocksFor(reserved)
<1>1. BlockSize \in Nat \ {0} /\ IsFiniteSet(free) /\ Cardinality(free) \in Nat
  BY SetFacts, FreeFacts
<1>2. BlockSize * n \in Nat /\ BlockSize * n <= BlockSize * Cardinality(free)
        /\ BlockSize * Cardinality(free) \in Nat
  <2> HIDE DEF free
  <2>1. n <= Cardinality(free)
    BY DEF free
  <2> QED
    BY <1>1, <2>1, TimesMonotone
<1>3. reserved <= BlockSize * Cardinality(free)
  <2> HIDE DEF free
  <2> QED
    BY <1>2
<1>4. b \in SUBSET free /\ Cardinality(b) = m
  BY <1>3, ReserveFacts
<1>5. /\ m \in Nat /\ reserved <= BlockSize * m
      /\ \A j \in Nat : BlockSize * j < reserved <=> j < m
  <2>1. reserved \in Nat
    OBVIOUS
  <2> QED
    BY <1>1, <2>1, CeilFacts DEF BlocksFor
<1>6. m <= n /\ m # 0
  <2>1. ~(n < m)
    BY <1>2, <1>5
  <2>2. BlockSize * 0 = 0 /\ 0 < reserved
    BY <1>1
  <2>3. 0 < m
    BY <1>5, <2>2
  <2> QED
    BY <1>5, <2>1, <2>3
<1> HIDE DEF b, m, free
<1>7. b # {}
  <2>1. Cardinality({}) = 0
    BY FS_EmptySet
  <2> QED
    BY <1>4, <1>6, <2>1
<1>8. /\ n - m \in Nat /\ BlockSize * m \in Nat /\ BlockSize * (n - m) \in Nat
      /\ BlockSize * n - BlockSize * m = BlockSize * (n - m)
  BY <1>1, <1>5, <1>6
<1>9. BlockSize * (n - m) \in 0 .. PageSize
  BY <1>2, <1>8, SetFacts
<1>10. Cardinality(free \ b) = Cardinality(free) - m /\ Cardinality(free \ b) \in Nat
  <2>1. IsFiniteSet(b) /\ IsFiniteSet(free \ b) /\ Cardinality(free \ b) \in Nat
    BY <1>1, <1>4, FS_Subset, FS_CardinalityType
  <2>2. free = b \cup (free \ b) /\ b \cap (free \ b) = {}
    BY <1>4
  <2>3. Cardinality(free) = Cardinality(b) + Cardinality(free \ b) - Cardinality({})
    BY <2>1, <2>2, FS_Union
  <2>4. Cardinality({}) = 0
    BY FS_EmptySet
  <2> QED
    BY <1>1, <1>4, <1>5, <2>1, <2>3, <2>4
<1>11. n - m <= Cardinality(Blocks \ (s.bits[id] \cup b))
  <2>1. Blocks \ (s.bits[id] \cup b) = free \ b
    BY DEF free
  <2>2. n <= Cardinality(free)
    BY DEF free
  <2>3. n - m <= Cardinality(free \ b)
    BY <1>1, <1>5, <1>10, <2>2
  <2> QED
    BY <2>1, <2>3
<1>12. reserved = BlockSize * n => BlockSize * (n - m) = 0 /\ BlockSize * m = reserved
  BY <1>2, <1>5, <1>8
<1> QED
  BY <1>4, <1>5, <1>7, <1>8, <1>9, <1>11, <1>12 DEF b, m, free, Taken

LEMMA ChunkFacts ==
  ASSUME call \in RecordCalls, Reserved(call), call.chunks > 0,
         NEW s, s.bits \in [PageIds -> SUBSET Blocks], NEW id \in PageIds,
         call.usage[id] = {}, NEW n \in Nat,
         n <= Cardinality(Blocks \ s.bits[id]),
         PageSize - call.spare <= BlockSize * n, BlockSize * n <= PageSize,
         Chunk(s, id, BlockSize * n)
  PROVE  /\ sm' = s /\ UNCHANGED heldVars
         /\ call' \in RecordCalls /\ Reserved(call') /\ call'.rec = call.rec
         /\ \E b \in SUBSET (Blocks \ s.bits[id]), m \in Nat :
              /\ b # {} /\ call'.usage = [call.usage EXCEPT ![id] = b]
              /\ m <= Cardinality(Blocks \ (s.bits[id] \cup b))
              /\ BlockSize * m \in 0 .. PageSize /\ Cache!Update(id, BlockSize * m)
              /\ call'.chunks > 0 => BlockSize * m = 0
<1> DEFINE free == BlockSize * n
           reserved == Least(call.left, free)
           b == ReserveBlocks(s, id, reserved)
           m == BlocksFor(reserved)
           u == [call.usage EXCEPT ![id] = call.usage[id] \cup b]
<1>1. /\ sm' = s /\ UNCHANGED heldVars
      /\ Cache!Update(id, free - BlockSize * Cardinality(b))
      /\ call' = [call EXCEPT !.chunks = @ - 1,
                              !.left   = @ - reserved,
                              !.spare  = @ - (PageSize - reserved),
                              !.usage[id] = @ \cup b]
  BY DEF Chunk
<1>2. /\ call.left \in Nat /\ call.chunks \in Nat \ {0} /\ call.spare \in 0 .. PageSize - 1
      /\ call.len \in Nat /\ call.usage \in [PageIds -> SUBSET Blocks]
      /\ call.left = call.chunks * PageSize - call.spare
      /\ BytesOf(call.usage) = call.len - call.left
  BY DEF RecordCalls, Reserved
<1>3. free \in 0 .. PageSize /\ free \in Nat
  BY SetFacts
<1>4. /\ reserved \in Nat \ {0} /\ reserved <= free /\ call.left - reserved \in Nat
      /\ call.chunks - 1 \in Nat
      /\ call.spare - (PageSize - reserved) \in 0 .. PageSize - 1
      /\ call.left - reserved =
           (call.chunks - 1) * PageSize - (call.spare - (PageSize - reserved))
      /\ call.chunks - 1 > 0 => reserved = free
      /\ ~(call.chunks - 1 > 0) => reserved = call.left
  <2> HIDE DEF free
  <2>1. PageSize - call.spare <= free
    BY DEF free
  <2> QED
    BY <1>2, <1>3, <2>1, ChunkSizes
<1> HIDE DEF reserved
<1>5. /\ b \in SUBSET (Blocks \ s.bits[id]) /\ b # {} /\ Cardinality(b) = m
      /\ m \in Nat /\ n - m \in Nat
      /\ free - BlockSize * m = BlockSize * (n - m)
      /\ BlockSize * (n - m) \in 0 .. PageSize
      /\ n - m <= Cardinality(Blocks \ (s.bits[id] \cup b))
      /\ reserved = free => BlockSize * (n - m) = 0 /\ BlockSize * m = reserved
  <2>1. s.bits[id] \in SUBSET Blocks
    OBVIOUS
  <2>2. reserved \in Nat \ {0} /\ reserved <= BlockSize * n
    BY <1>4
  <2>3. Taken(s, id, n, reserved)
    BY <2>1, <2>2, ChunkBlocks
  <2> QED
    BY <2>3 DEF Taken
<1> HIDE DEF b, m, free
<1>6. u = [call.usage EXCEPT ![id] = b] /\ u \in [PageIds -> SUBSET Blocks]
  BY <1>2, <1>5
<1>7. call' = [mode |-> "record", rec |-> call.rec, len |-> call.len,
               left |-> call.left - reserved, chunks |-> call.chunks - 1,
               spare |-> call.spare - (PageSize - reserved), usage |-> u]
  BY <1>1 DEF RecordCalls
<1>8. /\ call'.rec = call.rec /\ call'.len = call.len /\ call'.usage = u
      /\ call'.left = call.left - reserved /\ call'.chunks = call.chunks - 1
      /\ call'.spare = call.spare - (PageSize - reserved)
  BY <1>7
<1>9. call' \in RecordCalls
  <2>1. call.rec \in Records
    BY DEF RecordCalls
  <2> HIDE DEF u
  <2> QED
    BY <1>2, <1>4, <1>6, <1>7, <2>1 DEF RecordCalls
<1>10. BytesOf(u) = call.len - call.left + BlockSize * m
  <2>1. BytesOf(u) = BytesOf(call.usage) + BlockSize * Cardinality(b)
    BY <1>2, <1>5, BytesMore
  <2> QED
    BY <1>2, <1>5, <2>1
<1> HIDE DEF u
<1>11. BytesOf(u) = IF call.chunks - 1 > 0 THEN call.len - (call.left - reserved)
                    ELSE BlockSize * BlocksFor(call.len)
  <2>1. CASE call.chunks - 1 > 0
    BY <1>2, <1>4, <1>5, <1>10, <2>1, SetFacts
  <2>2. CASE ~(call.chunks - 1 > 0)
    <3>1. PICK j \in Nat : BytesOf(call.usage) = BlockSize * j
      BY <1>2, BytesWhole
    <3>2. reserved = call.left /\ BlockSize \in Nat \ {0} /\ BlockSize * j \in Nat
      BY <1>4, <2>2, <3>1, SetFacts
    <3>3. call.len = BlockSize * j + reserved
      BY <1>2, <3>1, <3>2
    <3>4. (BlockSize * j + reserved + BlockSize - 1) \div BlockSize = j + m
      <4>1. reserved \in Nat
        BY <1>4
      <4> QED
        BY <3>2, <4>1, CeilFacts DEF m, BlocksFor
    <3>5. BlocksFor(call.len) = j + m
      BY <3>3, <3>4 DEF BlocksFor
    <3>6. BlockSize * (j + m) = BlockSize * j + BlockSize * m
      BY <1>5, <3>2
    <3> QED
      BY <1>2, <1>10, <2>2, <3>1, <3>5, <3>6
  <2> QED
    BY <2>1, <2>2
<1>12. Reserved(call')
  BY <1>4, <1>8, <1>11 DEF Reserved
<1>13. Cache!Update(id, BlockSize * (n - m))
  BY <1>1, <1>5
<1> QED
  BY <1>1, <1>4, <1>5, <1>6, <1>8, <1>9, <1>12, <1>13

(* The manager s has all that the manager has, and in its file page id, which
   is nobody's; if a page has joined the chain, page id is one of those that
   the info page before it describes. *)
Widens(s, id) ==
  /\ Sound(s) /\ ~s.hung /\ s.disk = sm.disk /\ id < s.file
  /\ id \notin System \cup ChainOf(s) \cup given
  /\ \A p \in PageIds : p < sm.file =>
       /\ p < s.file /\ s.bits[p] = sm.bits[p]
       /\ p \in ChainOf(s) => p \in ChainOf(sm)
  /\ ChainOf(sm) \subseteq ChainOf(s)
  /\ sm.dirty \subseteq s.dirty
  /\ \A i \in Indexes(s) \ s.dirty :
       /\ i \in Indexes(sm) /\ s.chain[i + 1] = sm.chain[i + 1]
       /\ DataOf(s.bits, i) = DataOf(sm.bits, i)
       /\ \/ NextOf(s.chain, i) = NextOf(sm.chain, i)
          \/ i = InfoOf(id) /\ i + 1 \in s.dirty

LEMMA ChunkInv ==
  ASSUME IInv, InRecord, call.chunks > 0,
         NEW s, NEW id \in PageIds, Widens(s, id), call.usage[id] = {}, NEW n \in Nat,
         n <= Cardinality(Blocks \ s.bits[id]),
         PageSize - call.spare <= BlockSize * n, BlockSize * n <= PageSize,
         Chunk(s, id, BlockSize * n)
  PROVE  IInv'
<1>1. RecordOK /\ call # Hung
  BY CallFacts DEF IInv
<1>2. /\ call \in RecordCalls /\ len[call.rec] = 0 /\ Reserved(call)
      /\ call.usage \in [PageIds -> SUBSET Blocks] /\ call.rec \in Records
      /\ \A p \in PageIds : call.usage[p] # {} =>
           /\ p < sm.file /\ p \notin Held /\ call.usage[p] \cap sm.bits[p] = {}
           /\ p \notin Listed
  BY <1>1 DEF RecordOK, RecordCalls
<1>3. s.bits \in [PageIds -> SUBSET Blocks] /\ Sound(s)
  BY ManagerFields DEF Widens, Sound
<1>4. /\ sm' = s /\ UNCHANGED heldVars
      /\ call' \in RecordCalls /\ Reserved(call') /\ call'.rec = call.rec
      /\ \E b \in SUBSET (Blocks \ s.bits[id]), m \in Nat :
           /\ b # {} /\ call'.usage = [call.usage EXCEPT ![id] = b]
           /\ m <= Cardinality(Blocks \ (s.bits[id] \cup b))
           /\ BlockSize * m \in 0 .. PageSize /\ Cache!Update(id, BlockSize * m)
           /\ call'.chunks > 0 => BlockSize * m = 0
  BY <1>2, <1>3, ChunkFacts
<1>5. PICK b \in SUBSET (Blocks \ s.bits[id]), m \in Nat :
        /\ b # {} /\ call'.usage = [call.usage EXCEPT ![id] = b]
        /\ m <= Cardinality(Blocks \ (s.bits[id] \cup b))
        /\ BlockSize * m \in 0 .. PageSize /\ Cache!Update(id, BlockSize * m)
        /\ call'.chunks > 0 => BlockSize * m = 0
  BY <1>4
<1>6. PICK f \in 0 .. PageSize :
        /\ f = BlockSize * m /\ Cache!Update(id, f)
        /\ call'.chunks > 0 => f = 0
  BY <1>5
<1>7. /\ given' = given /\ usage' = usage /\ len' = len /\ failed' = failed
      /\ call'.usage[id] = b /\ \A p \in PageIds \ {id} : call'.usage[p] = call.usage[p]
  BY <1>2, <1>4, <1>5 DEF heldVars
<1>8. InRecord' /\ call' # Hung
  BY <1>4, ModeFacts DEF InRecord
<1>9. \A p : Pending(p) = call.usage[p] /\ Pending(p)' = call'.usage[p]
  BY <1>8 DEF Pending
<1>10. /\ CP!IInv /\ CP!IInv' /\ Listed' \subseteq Listed \cup {id}
       /\ f = 0 => id \notin Listed'
  <2>1. CP!IInv
    BY DEF IInv, Typed
  <2> QED
    BY <1>6, <2>1, CacheUpdate
<1>11. Typed'
  BY <1>1, <1>4, <1>7, <1>8, <1>10 DEF IInv, Typed, Widens
<1>12. ChainPages = ChainOf(sm) /\ ChainPages' = ChainOf(s)
  BY <1>4 DEF ChainPages, ChainOf
<1>13. \A p \in PageIds : p < sm.file /\ p \notin Held => p < sm'.file /\ p \notin Held'
  BY <1>4, <1>7, <1>12 DEF Held, Widens
<1>14. id < sm'.file /\ id \notin Held'
  BY <1>4, <1>7, <1>12 DEF Held, Widens
<1>15. \A p \in PageIds : p < sm.file => sm'.bits[p] = sm.bits[p]
  BY <1>4 DEF Widens
<1>16. Owners'
  <2>1. ASSUME NEW p \in Held' PROVE p < sm'.file /\ sm'.bits[p] = Blocks
    <3>1. CASE p \in ChainOf(s)
      BY <3>1, <1>3, <1>4, ChainMarked
    <3>2. CASE p \in System \cup given
      <4>1. p \in PageIds /\ p < sm.file /\ sm.bits[p] = Blocks
        BY <3>2, HeldFacts DEF IInv, Owners, Held
      <4>2. p < sm'.file
        BY <1>4, <4>1 DEF Widens
      <4> QED
        BY <4>1, <4>2, <1>15
    <3> QED
      BY <3>1, <3>2, <1>7, <1>12 DEF Held
  <2>2. ASSUME NEW r \in Records, NEW p \in PageIds, usage[r][p] # {}
        PROVE  p < sm'.file /\ p \notin Held' /\ sm.bits[p] \subseteq sm'.bits[p]
    <3>1. p < sm.file /\ p \notin Held
      BY <2>2 DEF IInv, Owners
    <3> QED
      BY <1>13, <1>15, <3>1
  <2>3. given' \cap (System \cup ChainPages') = {}
    <3>1. \A p \in given : p \in PageIds /\ p < sm.file /\ p \notin System \cup ChainOf(sm)
      BY <1>12 DEF IInv, Typed, Owners, Held
    <3>2. \A p \in given : p \notin ChainOf(s)
      BY <3>1 DEF Widens
    <3> QED
      BY <1>7, <1>12, <3>1, <3>2
  <2> QED
    BY <1>7, <2>1, <2>2, <2>3, OwnersKept DEF IInv
<1>17. Offered'
  <2>1. ASSUME NEW p \in Listed \ {id}
        PROVE  /\ p < sm'.file /\ p \notin Held'
               /\ sm'.bits[p] \cup Pending(p)' \subseteq sm.bits[p] \cup Pending(p)
    <3>1. p \in PageIds /\ p < sm.file /\ p \notin Held
      BY ListedFacts DEF IInv, Typed, Offered
    <3>2. Pending(p)' = Pending(p)
      BY <1>7, <1>9, <3>1
    <3> QED
      BY <1>13, <1>15, <3>1, <3>2
  <2>2. m <= Cardinality(Blocks \ (sm'.bits[id] \cup Pending(id)'))
    <3>1. Pending(id)' = b /\ sm'.bits = s.bits
      BY <1>4, <1>7, <1>9
    <3> QED
      BY <1>5, <3>1
  <2>3. f # 0 => /\ id < sm'.file /\ id \notin Held'
                  /\ \E k \in Nat :
                       /\ f = BlockSize * k
                       /\ k <= Cardinality(Blocks \ (sm'.bits[id] \cup Pending(id)'))
    BY <1>6, <1>14, <2>2
  <2>4. CP!IInv /\ Offered
    BY <1>10 DEF IInv
  <2>5. Cache!Update(id, f)
    BY <1>6
  <2> QED
    BY <2>1, <2>3, <2>4, <2>5, OfferedUpdate
<1>18. CallOK'
  <2>1. ASSUME NEW p \in PageIds, call'.usage[p] # {}
        PROVE  /\ p < sm'.file /\ p \notin Held' /\ call'.usage[p] \cap sm'.bits[p] = {}
               /\ call'.chunks > 0 => p \notin Listed'
    <3>1. CASE p = id
      <4>1. call'.usage[id] \cap sm'.bits[id] = {}
        BY <1>4, <1>5, <1>7
      <4>2. call'.chunks > 0 => id \notin Listed'
        BY <1>6, <1>10
      <4> QED
        BY <1>14, <3>1, <4>1, <4>2
    <3>2. CASE p # id
      <4>1. /\ call'.usage[p] = call.usage[p]
            /\ p < sm.file /\ p \notin Held /\ call.usage[p] \cap sm.bits[p] = {}
            /\ p \notin Listed
        BY <1>2, <1>7, <2>1, <3>2
      <4> QED
        BY <1>10, <1>13, <1>15, <3>2, <4>1
    <3> QED
      BY <3>1, <3>2
  <2> QED
    BY <1>2, <1>4, <1>7, <2>1 DEF CallOK, RecordOK
<1>19. Image'
  <2>1. Indexes(sm') = Indexes(s)
    BY <1>4
  <2>2. ASSUME NEW i \in Indexes(sm'), i \notin Unlinked', i \notin sm'.dirty
        PROVE  i \notin Unlinked /\ NextOf(sm'.chain, i) = NextOf(sm.chain, i)
    <3>1. ~(i = InfoOf(id) /\ i + 1 \in s.dirty)
      BY <1>4, <1>5, <1>7, <1>8, <2>2 DEF Unlinked
    <3>2. i \in Indexes(s) \ s.dirty
      BY <1>4, <2>1, <2>2
    <3>3. NextOf(sm'.chain, i) = NextOf(sm.chain, i)
      BY <1>4, <3>1, <3>2 DEF Widens
    <3>4. ASSUME i \in Unlinked PROVE FALSE
      <4>1. PICK p \in PageIds : call.usage[p] # {} /\ InfoOf(p) = i
        BY <1>1, <3>4 DEF Unlinked
      <4>2. call'.usage[p] # {}
        BY <1>5, <1>7, <4>1
      <4>3. i + 1 \in sm'.dirty
        BY <1>4, <3>4 DEF Unlinked, Widens
      <4> QED
        BY <1>8, <2>2, <4>1, <4>2, <4>3 DEF Unlinked
    <3> QED
      BY <3>3, <3>4
  <2>3. ASSUME NEW i \in Indexes(sm') \ sm'.dirty
        PROVE  /\ i \in Indexes(sm) \ sm.dirty
               /\ sm'.chain[i + 1] = sm.chain[i + 1]
               /\ DataOf(sm'.bits, i) = DataOf(sm.bits, i)
    BY <1>4, <2>1 DEF Widens
  <2>4. sm'.disk = sm.disk
    BY <1>4 DEF Widens
  <2> QED
    BY <1>7, <2>2, <2>3, <2>4, ImageKept DEF IInv
<1> QED
  BY <1>7, <1>11, <1>16, <1>17, <1>18, <1>19, SizesKept DEF IInv

LEMMA ChunkFromCacheInv ==
  ASSUME IInv, ChunkFromCache
  PROVE  IInv'
<1> DEFINE need == PageSize - call.spare
           id == Cache!GetBestId(need)
<1>1. /\ InRecord /\ call.chunks > 0 /\ id # Cache!NoPage
      /\ Chunk(sm, id, SpaceOf(id))
  BY DEF ChunkFromCache, CachedFor
<1>2. RecordOK /\ call # Hung
  BY <1>1, CallFacts DEF IInv
<1>3. need \in 1 .. PageSize
  <2>1. call.spare \in 0 .. PageSize - 1
    BY <1>2 DEF RecordOK, RecordCalls
  <2> QED
    BY <2>1, SetFacts
<1> HIDE DEF need
<1>4. id \in PageIds /\ id \in Listed /\ space[id] >= need
  BY <1>1, <1>3, CacheOffer DEF IInv, Typed
<1> HIDE DEF id
<1>5. SpaceOf(id) = space[id] /\ space[id] \in 1 .. PageSize
  BY <1>4, CacheSpace DEF IInv, Typed
<1>6. id < sm.file /\ id \notin Held /\ Roomy(id)
  BY <1>4 DEF IInv, Offered
<1>7. call.usage[id] = {}
  BY <1>1, <1>2, <1>4 DEF RecordOK
<1>8. PICK n \in Nat : /\ space[id] = BlockSize * n
                       /\ n <= Cardinality(Blocks \ (sm.bits[id] \cup Pending(id)))
  BY <1>6 DEF Roomy
<1>9. n <= Cardinality(Blocks \ sm.bits[id])
  <2>1. sm.bits[id] \cup Pending(id) = sm.bits[id]
    BY <1>1, <1>7 DEF Pending
  <2> QED
    BY <1>8, <2>1
<1>10. Widens(sm, id)
  <2>1. Sound(sm) /\ ~sm.hung
    BY <1>2 DEF IInv, Typed
  <2>2. id \notin System \cup ChainOf(sm) \cup given
    BY <1>6, HeldFacts DEF IInv, Held
  <2> QED
    BY <1>6, <2>1, <2>2 DEF Widens
<1>11. need <= BlockSize * n /\ BlockSize * n <= PageSize
  BY <1>3, <1>4, <1>5, <1>8
<1> QED
  BY <1>1, <1>4, <1>5, <1>7, <1>8, <1>9, <1>10, <1>11, ChunkInv DEF need

LEMMA ChunkFromNewPageInv ==
  ASSUME IInv, ChunkFromNewPage
  PROVE  IInv'
<1> DEFINE t == Grown
           id == sm.file
<1>1. /\ InRecord /\ call.chunks > 0 /\ sm.file < sm.room
      /\ IF t.hung THEN sm' = t /\ call' = Hung /\ UNCHANGED <<cacheVars, heldVars>>
         ELSE Chunk(t, id, PageSize)
  BY DEF ChunkFromNewPage
<1>2. RecordOK /\ call # Hung /\ ~sm.hung
  BY <1>1, CallFacts DEF IInv, Typed
<1>3. /\ Sound(t) /\ t.disk = sm.disk /\ t.file \in Nat /\ sm.file < t.file
      /\ id \in PageIds /\ id \notin ChainOf(t) /\ t.bits[id] = {}
      /\ \A p \in PageIds : p < sm.file => t.bits[p] = sm.bits[p]
      /\ ChainOf(sm) \subseteq ChainOf(t)
      /\ \A p \in ChainOf(t) : p \in ChainOf(sm) \/ p > sm.file
      /\ sm.dirty \subseteq t.dirty
      /\ \A i \in Indexes(t) \ t.dirty :
           /\ i \in Indexes(sm) /\ t.chain[i + 1] = sm.chain[i + 1]
           /\ DataOf(t.bits, i) = DataOf(sm.bits, i)
           /\ \/ NextOf(t.chain, i) = NextOf(sm.chain, i)
              \/ ~t.hung /\ i = InfoOf(id) /\ i + 1 \in t.dirty
  BY <1>1, <1>2, GrownKeeps DEF IInv
<1> HIDE DEF t
<1>4. id \in Nat /\ \A p \in PageIds : p < sm.file => ~(p > sm.file) /\ p < t.file
  <2>1. id \in Nat /\ t.file \in Nat /\ id < t.file
    BY <1>3, SetFacts
  <2> QED
    BY <2>1, SetFacts
<1>5. \A p \in Held : p < sm.file
  BY DEF IInv, Owners
<1>6. CASE t.hung
  <2>1. /\ sm' = t /\ call' = Hung /\ UNCHANGED cacheVars
        /\ given' = given /\ usage' = usage /\ len' = len /\ failed' = failed
    BY <1>1, <1>6 DEF heldVars
  <2>2. ~InRecord' /\ CP!IInv'
    BY <2>1, ModeFacts, CacheSame DEF InRecord, IInv, Typed
  <2>3. Typed'
    BY <1>3, <1>6, <2>1, <2>2 DEF IInv, Typed
  <2>4. ChainPages = ChainOf(sm) /\ ChainPages' = ChainOf(t)
    BY <2>1 DEF ChainPages, ChainOf
  <2>5. \A p \in PageIds : p < sm.file /\ p \notin Held => p < sm'.file /\ p \notin Held'
    BY <1>3, <1>4, <2>1, <2>4 DEF Held
  <2>6. \A p \in PageIds : p < sm.file => sm'.bits[p] = sm.bits[p]
    BY <1>3, <2>1
  <2>7. Owners'
    <3>1. ASSUME NEW p \in Held' PROVE p < sm'.file /\ sm'.bits[p] = Blocks
      <4>1. CASE p \in ChainOf(t)
        BY <4>1, <1>3, <2>1, ChainMarked
      <4>2. CASE p \in System \cup given
        <5>1. p \in PageIds /\ p < sm.file /\ sm.bits[p] = Blocks
          BY <4>2, HeldFacts DEF IInv, Owners, Held
        <5> QED
          BY <1>4, <2>1, <2>6, <5>1
      <4> QED
        BY <4>1, <4>2, <2>1, <2>4 DEF Held
    <3>2. \A r \in Records, p \in PageIds : usage[r][p] # {} =>
            p < sm'.file /\ p \notin Held' /\ sm.bits[p] \subseteq sm'.bits[p]
      BY <2>5, <2>6 DEF IInv, Owners
    <3>3. given' \cap (System \cup ChainPages') = {}
      <4>1. \A p \in given : p \in PageIds /\ p < sm.file /\ p \notin System \cup ChainOf(sm)
        BY <2>4 DEF IInv, Typed, Owners, Held
      <4>2. \A p \in given : p \notin ChainOf(t)
        BY <1>3, <1>4, <4>1
      <4> QED
        BY <2>1, <2>4, <4>1, <4>2
    <3> QED
      BY <2>1, <3>1, <3>2, <3>3, OwnersKept DEF IInv
  <2>8. Offered'
    <3>1. Listed \subseteq PageIds /\ \A p \in PageIds : Pending(p)' = {}
      BY <2>2, ListedFacts, QuietFactsNext DEF IInv, Typed
    <3> QED
      BY <2>1, <2>5, <2>6, <3>1, OfferedSame DEF IInv, Offered
  <2>9. Image'
    <3>1. Unlinked \subseteq Unlinked' \cup sm'.dirty \cup {i \in Indexes(sm) : i \notin Indexes(t)}
      BY <1>3, <2>1 DEF Unlinked
    <3> QED
      BY <1>3, <1>6, <2>1, <3>1, ImageKept DEF IInv
  <2> QED
    BY <2>1, <2>3, <2>7, <2>8, <2>9, SizesKept DEF IInv, CallOK
<1>7. CASE ~t.hung
  <2>1. Chunk(t, id, BlockSize * BlocksPerPage)
    BY <1>1, <1>7, EmptyPage
  <2>2. BlocksPerPage <= Cardinality(Blocks \ t.bits[id]) /\ BlocksPerPage \in Nat
    BY <1>3, EmptyPage
  <2>3. /\ PageSize - call.spare <= BlockSize * BlocksPerPage
        /\ BlockSize * BlocksPerPage <= PageSize
    <3>1. call.spare \in 0 .. PageSize - 1
      BY <1>2 DEF RecordOK, RecordCalls
    <3>2. PageSize - call.spare <= PageSize /\ PageSize <= PageSize
      BY <3>1, SetFacts
    <3> QED
      BY <3>2, EmptyPage
  <2>4. call.usage[id] = {}
    <3>1. ~(id < sm.file)
      BY <1>4
    <3> QED
      BY <1>2, <1>3, <3>1 DEF RecordOK
  <2>5. Widens(t, id)
    <3>1. id \notin System \cup ChainOf(t) \cup given
      BY <1>3, <1>4, <1>5 DEF Held
    <3>2. \A p \in PageIds : p < sm.file /\ p \in ChainOf(t) => p \in ChainOf(sm)
      BY <1>3, <1>4
    <3> QED
      BY <1>3, <1>4, <1>7, <3>1, <3>2 DEF Widens
  <2> QED
    BY <1>1, <1>3, <2>1, <2>2, <2>3, <2>4, <2>5, ChunkInv
<1> QED
  BY <1>6, <1>7

-----------------------------------------------------------------------------
(* Init, and all steps together.                                             *)

(* The storage as created: a file of the system pages, all of them marked, and
   a first info page that is dirty. *)
LEMMA CreatedFacts ==
  ASSUME NEW room \in Rooms
  PROVE  LET t == Create(room) IN
         /\ Sound(t) /\ t.file = MinPages /\ t.chain = <<InfoPage>> /\ ~t.hung
         /\ \A p \in PageIds : p >= MinPages => t.bits[p] = {}
<1> DEFINE e == [p \in PageIds |-> {}]
           b == [e EXCEPT ![InfoPage] = Blocks]
           d == [p \in PageIds |-> ZeroImage]
           z == [room |-> room, file |-> MinPages, chain |-> <<InfoPage>>,
                 bits |-> e, dirty |-> {}, disk |-> d, hung |-> FALSE]
           s == [z EXCEPT !.bits = b, !.dirty = {0}]
           t == Commit(s)
<1>1. /\ room \in Nat /\ MinPages <= room /\ room <= MaxPages
      /\ InfoPage \in PageIds /\ InfoPage \in Nat /\ InfoPage < MinPages
      /\ MinPages \in Nat /\ MinPages < PerPage /\ PerPage \in Nat \ {0}
  BY SetFacts, RequestAssumption DEF System
<1>2. InfoOf(InfoPage) = 0
  BY <1>1 DEF InfoOf
<1>3. ZeroImage \in Images
  <2>1. 0 \in PageIds
    BY <1>1, SetFacts DEF PageIds
  <2> QED
    BY <2>1 DEF Images, ZeroImage
<1>4. /\ e \in [PageIds -> SUBSET Blocks] /\ b \in [PageIds -> SUBSET Blocks]
      /\ d \in [PageIds -> Images]
  BY <1>3
<1>5. b[InfoPage] = Blocks /\ \A p \in PageIds : p >= MinPages => b[p] = {}
  BY <1>1, SetFacts
<1> HIDE DEF b, d, e
<1>6. <<InfoPage>> \in Seq(PageIds) /\ Len(<<InfoPage>>) = 1
  BY <1>1
<1>7. z \in Managers
  BY <1>1, <1>4, <1>6 DEF Managers
<1>8. /\ z.room = room /\ z.file = MinPages /\ z.chain = <<InfoPage>> /\ ~z.hung
      /\ z.bits = e /\ z.dirty = {}
  OBVIOUS
<1> HIDE DEF z
<1>9. SetPageUsed(z, InfoPage, TRUE) = s
  BY <1>2, <1>8 DEF SetPageUsed, b
<1>10. /\ s \in Managers /\ s.room = room /\ s.file = MinPages
       /\ s.chain = <<InfoPage>> /\ ~s.hung /\ s.bits = b /\ s.dirty = {0}
  <2>1. {0} \in SUBSET Nat
    OBVIOUS
  <2> QED
    BY <1>4, <1>7, <1>8, <2>1 DEF Managers
<1> HIDE DEF s
<1>11. /\ Len(s.chain) = 1 /\ s.chain[1] = InfoPage /\ s.chain # <<>>
       /\ DOMAIN s.chain = {1} /\ Cover(s) = PerPage
  BY <1>1, <1>6, <1>10 DEF Cover
<1>12. Sound(s)
  <2>1. ChainOf(s) = {InfoPage} /\ Indexes(s) = {0}
    BY <1>11 DEF ChainOf, Indexes
  <2>2. \A k \in 2 .. Len(s.chain) : FALSE
    BY <1>11
  <2> QED
    BY <1>1, <1>5, <1>10, <1>11, <2>1, <2>2 DEF Sound
<1>13. Update(s) = s
  BY <1>1, <1>10, <1>11 DEF Update
<1>14. Create(room) = t
  BY <1>9, <1>13 DEF Create, z, d, e
<1>15. Sound(t) /\ t.bits = s.bits /\ t.file = s.file /\ t.chain = s.chain /\ t.hung = s.hung
  BY <1>12, CommitFacts
<1> HIDE DEF t
<1> QED
  BY <1>5, <1>10, <1>14, <1>15

LEMMA InitInv ==
  ASSUME Init
  PROVE  IInv
<1>1. PICK room \in Rooms :
        sm = [Create(room) EXCEPT
                !.bits = [p \in PageIds |-> IF p \in System THEN Blocks ELSE @[p]],
                !.dirty = {InfoOf(p) : p \in System}]
  BY DEF Init
<1> DEFINE t == Create(room)
<1>2. /\ Sound(t) /\ t.file = MinPages /\ t.chain = <<InfoPage>> /\ ~t.hung
      /\ \A p \in PageIds : p >= MinPages => t.bits[p] = {}
  BY CreatedFacts
<1>3. sm = [t EXCEPT
              !.bits = [p \in PageIds |-> IF p \in System THEN Blocks ELSE t.bits[p]],
              !.dirty = {InfoOf(p) : p \in System}]
  BY <1>1
<1> HIDE DEF t
<1> DEFINE b == [p \in PageIds |-> IF p \in System THEN Blocks ELSE t.bits[p]]
<1>4. {InfoOf(p) : p \in System} = {0}
  <2>1. ASSUME NEW p \in System PROVE InfoOf(p) = 0
    <3>1. p \in Nat /\ PerPage \in Nat \ {0} /\ p < PerPage
      BY SetFacts DEF System
    <3> QED
      BY <3>1 DEF InfoOf
  <2> QED
    BY <2>1, SetFacts
<1>5. /\ t \in Managers /\ t.bits \in [PageIds -> SUBSET Blocks]
  BY <1>2, ManagerFields DEF Sound
<1>6. b \in [PageIds -> SUBSET Blocks]
  BY <1>5
<1>7. \A p \in System : p \in PageIds /\ p < MinPages /\ b[p] = Blocks
  BY SetFacts DEF System
<1>8. \A p \in PageIds : p >= MinPages => b[p] = {}
  BY <1>2, SetFacts DEF System
<1> HIDE DEF b
<1>9. /\ sm \in Managers /\ sm.bits = b /\ sm.dirty = {0} /\ sm.room = t.room
      /\ sm.file = MinPages /\ sm.chain = <<InfoPage>> /\ sm.chain = t.chain
      /\ sm.file = t.file /\ sm.disk = t.disk /\ sm.hung = t.hung /\ ~sm.hung
  <2>1. sm = [t EXCEPT !.bits = b, !.dirty = {0}]
    BY <1>3, <1>4 DEF b
  <2>2. {0} \in SUBSET Nat
    OBVIOUS
  <2>3. /\ sm \in Managers /\ sm.bits = b /\ sm.dirty = {0} /\ sm.room = t.room
        /\ sm.chain = t.chain /\ sm.file = t.file /\ sm.disk = t.disk
        /\ sm.hung = t.hung
    BY <1>5, <1>6, <2>1, <2>2 DEF Managers
  <2> QED
    BY <1>2, <2>3
<1>10. ChainOf(t) = {InfoPage} /\ Indexes(t) = {0}
  BY <1>2 DEF ChainOf, Indexes
<1>11. Sound(sm)
  <2>1. \A p \in ChainOf(t) : sm.bits[p] = Blocks
    BY <1>7, <1>9, <1>10, SetFacts
  <2>2. \A p \in PageIds : p >= t.file => sm.bits[p] = {}
    BY <1>2, <1>8, <1>9
  <2>3. sm.dirty \subseteq Indexes(t)
    BY <1>9, <1>10
  <2> QED
    BY <1>2, <1>9, <2>1, <2>2, <2>3, BitsSound
<1>12. /\ cache = <<>> /\ minFreeSpace = -1 /\ space = [p \in PageIds |-> 0]
       /\ call = Idle /\ given = {} /\ usage = [r \in Records |-> NoUsage]
       /\ len = [r \in Records |-> 0] /\ failed = {}
  BY DEF Init
<1>13. CP!IInv
  BY <1>12, SetFacts, RequestAssumption
  DEF CP!IInv, CP!TypeOK, CP!CacheBounded, CP!CacheTrue
<1>14. NoUsage \in [PageIds -> SUBSET Blocks] /\ \A p \in PageIds : NoUsage[p] = {}
  BY DEF NoUsage
<1>15. Typed
  BY <1>9, <1>11, <1>12, <1>13, <1>14, ModeFacts DEF Typed
<1>16. Held = System
  BY <1>9, <1>12, SetFacts DEF Held, ChainPages
<1>17. Owners
  BY <1>7, <1>9, <1>12, <1>14, <1>16 DEF Owners
<1>18. Sizes
  <2>1. BlockSize * BlocksFor(0) = 0
    <3>1. 0 \in Nat /\ BlockSize \in Nat \ {0}
      BY SetFacts
    <3>2. /\ BlocksFor(0) \in Nat
          /\ \A m \in Nat : BlockSize * m < 0 <=> m < BlocksFor(0)
      BY <3>1, CeilFacts DEF BlocksFor
    <3>3. BlocksFor(0) = 0
      BY <3>1, <3>2
    <3> QED
      BY <3>1, <3>3
  <2> QED
    BY <1>12, <2>1, BytesNone DEF Sizes
<1>19. Offered
  BY <1>12 DEF Offered, Listed
<1>20. Image
  <2>1. Indexes(sm) \ sm.dirty = {}
    BY <1>9, <1>10 DEF Indexes
  <2> QED
    BY <2>1 DEF Image
<1> QED
  BY <1>12, <1>15, <1>17, <1>18, <1>19, <1>20 DEF IInv, CallOK

LEMMA StutterInv ==
  ASSUME IInv, UNCHANGED vars
  PROVE  IInv'
<1>1. UNCHANGED <<sm, cacheVars, heldVars, call>>
  BY DEF vars, cacheVars, heldVars
<1>2. CP!IInv'
  BY <1>1, CacheSame DEF IInv, Typed
<1>3. Typed' /\ Owners' /\ Sizes'
  BY <1>1, <1>2, OwnersSame DEF IInv, Typed, heldVars
<1>4. Offered' /\ CallOK' /\ Image'
  <2>1. /\ sm' = sm /\ cache' = cache /\ space' = space /\ call' = call
        /\ given' = given /\ len' = len /\ failed' = failed
    BY <1>1 DEF cacheVars, heldVars
  <2>2. Listed' = Listed /\ InRecord' = InRecord /\ ChainPages' = ChainPages
    BY <2>1 DEF Listed, InRecord, ChainPages
  <2>3. Held' = Held /\ \A p : Pending(p)' = Pending(p)
    BY <2>1, <2>2 DEF Held, Pending
  <2>4. Offered'
    BY <2>1, <2>2, <2>3 DEF IInv, Offered, Roomy
  <2>5. Afters' = Afters
    BY <2>1 DEF Afters
  <2>6. CallOK'
    BY <2>1, <2>2, <2>3, <2>5
    DEF IInv, CallOK, RecordOK, ReleaseOK, TrimOK, ReleaseCalls, TrimCalls
  <2>7. Unlinked' = Unlinked
    BY <2>1, <2>2 DEF Unlinked
  <2>8. Image'
    BY <2>1, <2>7 DEF IInv, Image
  <2> QED
    BY <2>4, <2>6, <2>8
<1> QED
  BY <1>3, <1>4 DEF IInv

LEMMA NextInv ==
  ASSUME IInv, [Next]_vars
  PROVE  IInv'
<1>1. ASSUME NEW r \in Records, ReleaseRecord(r)
      PROVE  IInv'
  BY <1>1, DropRecordInv DEF ReleaseRecord
<1>2. ASSUME NEW r \in Records, NEW l \in Lengths, ReacquireRecord(r, l)
      PROVE  IInv'
  BY <1>2, DropRecordInv DEF ReacquireRecord
<1> QED
  BY <1>1, <1>2, StutterInv, AcquireCachedPageInv, AcquireNewPageInv, ReleasePageInv,
     TrimPageInv, CutTailInv, StartRecordInv, ChunkFromCacheInv, ChunkFromNewPageInv,
     RecordFailsInv, FinishRecordInv, ReleaseSpaceInv, CommitSpaceInv, ReopenInv
  DEF Next

-----------------------------------------------------------------------------
(* The implementation of BlockAllocator.                                     *)

LEMMA InitImplements == Init => Allocator!Init
<1> SUFFICES ASSUME Init PROVE Allocator!Init
  OBVIOUS
<1>1. PICK room \in Rooms :
        sm = [Create(room) EXCEPT
                !.bits = [p \in PageIds |-> IF p \in System THEN Blocks ELSE @[p]],
                !.dirty = {InfoOf(p) : p \in System}]
  BY DEF Init
<1>2. Sound(Create(room)) /\ Create(room).chain = <<InfoPage>>
  BY CreatedFacts
<1>3. sm.chain = <<InfoPage>>
  BY <1>1, <1>2 DEF Sound, Managers
<1>4. given = {} /\ usage = [r \in Records |-> NoUsage]
  BY DEF Init
<1>5. Held = System \cup {InfoPage}
  BY <1>3, <1>4 DEF Held, ChainPages
<1> QED
  BY <1>4, <1>5 DEF Allocator!Init, Allocator!Nothing, NoUsage

(* A step that takes no block from a record and no page from a holder takes
   pages for holders and the chain: in the next state they are nobody else's. *)
LEMMA TakesPages ==
  ASSUME IInv', usage' = usage, Held \subseteq Held'
  PROVE  Allocator!TakePages(Held' \ Held)
<1>1. ASSUME NEW p \in Held' \ Held PROVE Allocator!Free(p) = Blocks
  <2>1. Held' \subseteq PageIds
    <3>1. ChainPages' = ChainOf(sm')
      BY DEF ChainPages, ChainOf
    <3>2. ChainOf(sm') \subseteq PageIds
      BY ChainMarked DEF IInv, Typed
    <3> QED
      BY <3>1, <3>2, SetFacts DEF Held, IInv, Typed
  <2>2. \A r \in Records : usage[r][p] = {}
    BY <2>1 DEF IInv, Owners
  <2> QED
    BY <2>2 DEF Allocator!Free
<1>2. Held' = Held \cup (Held' \ Held)
  OBVIOUS
<1> QED
  BY <1>1, <1>2 DEF Allocator!TakePages

LEMMA HeldGrows ==
  ASSUME ChainOf(sm) \subseteq ChainOf(sm'), given \subseteq given'
  PROVE  Held \subseteq Held'
  BY DEF Held, ChainPages, ChainOf

LEMMA AcquireCachedPageImplements ==
  ASSUME IInv', AcquireCachedPage
  PROVE  Allocator!TakePages(Held' \ Held)
<1>1. /\ sm' = SetPageUsed(sm, Cache!GetBestId(PageSize), TRUE)
      /\ given \subseteq given' /\ usage' = usage
  BY DEF AcquireCachedPage
<1>2. ChainOf(sm') = ChainOf(sm)
  BY <1>1 DEF SetPageUsed, ChainOf
<1> QED
  BY <1>1, <1>2, HeldGrows, TakesPages

(* The page joins the chain, if one does, before its holder gets another. *)
LEMMA AcquireNewPageImplements ==
  ASSUME IInv, IInv', AcquireNewPage
  PROVE  Allocator!TakePages(Held' \ Held)
<1>1. /\ call = Idle /\ sm.file < sm.room /\ usage' = usage /\ given \subseteq given'
      /\ sm' = Grown \/ sm' = SetPageUsed(Grown, sm.file, TRUE)
  BY DEF AcquireNewPage
<1>2. ~sm.hung
  BY <1>1, ModeFacts DEF IInv, Typed
<1>3. ChainOf(sm) \subseteq ChainOf(Grown)
  BY <1>1, <1>2, GrownKeeps DEF IInv
<1>4. ChainOf(SetPageUsed(Grown, sm.file, TRUE)) = ChainOf(Grown)
  BY DEF SetPageUsed, ChainOf
<1> QED
  BY <1>1, <1>3, <1>4, HeldGrows, TakesPages

LEMMA ChunkFromNewPageImplements ==
  ASSUME IInv, IInv', ChunkFromNewPage
  PROVE  Allocator!TakePages(Held' \ Held)
<1>1. /\ InRecord /\ sm.file < sm.room /\ sm' = Grown /\ UNCHANGED heldVars
  BY DEF ChunkFromNewPage, Chunk
<1>2. ~sm.hung
  BY <1>1, CallFacts DEF IInv, Typed
<1>3. ChainOf(sm) \subseteq ChainOf(Grown)
  BY <1>1, <1>2, GrownKeeps DEF IInv
<1> QED
  BY <1>1, <1>3, HeldGrows, TakesPages DEF heldVars

LEMMA ReleasePageImplements ==
  ASSUME IInv, NEW id \in PageIds, ReleasePage(id)
  PROVE  Allocator!DropPage(id)
<1>1. /\ id \in given /\ given' = given \ {id} /\ usage' = usage
      /\ sm' = SetPageUsed(sm, id, FALSE)
  BY DEF ReleasePage
<1>2. id \notin System \cup ChainPages
  BY <1>1 DEF IInv, Owners
<1>3. ChainPages' = ChainPages
  BY <1>1 DEF ChainPages, SetPageUsed
<1>4. Held' = Held \ {id}
  BY <1>1, <1>2, <1>3 DEF Held
<1>5. id \in Held \ (System \cup {InfoPage})
  BY <1>1, <1>2, SetFacts DEF Held
<1> QED
  BY <1>1, <1>4, <1>5 DEF Allocator!DropPage

(* The blocks of the finished record are nobody's in the next state but its
   own, and it had none. *)
LEMMA FinishImplements ==
  ASSUME IInv, IInv', FinishRecord
  PROVE  \E r \in Records : Allocator!TakeBlocks(r)
<1> DEFINE r == call.rec
<1>1. RecordOK
  BY CallFacts DEF FinishRecord, IInv
<1>2. /\ r \in Records /\ call.usage \in [PageIds -> SUBSET Blocks] /\ len[r] = 0
  BY <1>1 DEF RecordOK, RecordCalls
<1>3. /\ usage' = [usage EXCEPT ![r] = call.usage] /\ given' = given
      /\ sm' = SetRecordUsed(sm, call.usage, TRUE)
  BY DEF FinishRecord
<1>4. usage \in [Records -> [PageIds -> SUBSET Blocks]] /\ usage[r] = NoUsage
  BY <1>2 DEF IInv, Typed, Owners
<1>5. /\ usage'[r] = call.usage
      /\ \A s \in Records : s # r => usage'[s] = usage[s]
      /\ usage' = [usage EXCEPT ![r] = usage'[r]]
  BY <1>2, <1>3, <1>4
<1>6. ChainPages' = ChainPages
  BY <1>3 DEF ChainPages, SetRecordUsed
<1>7. Held' = Held
  BY <1>3, <1>6 DEF Held
<1> HIDE DEF r
<1>8. ASSUME NEW p \in PageIds PROVE usage'[r][p] \subseteq Allocator!Free(p)
  <2>1. CASE usage'[r][p] = {}
    BY <2>1
  <2>2. CASE usage'[r][p] # {}
    <3>1. p \notin Held'
      BY <1>2, <2>2 DEF IInv, Owners
    <3>2. \A s \in Records : s # r => usage'[r][p] \cap usage[s][p] = {}
      BY <1>2, <1>5 DEF IInv, Owners
    <3>3. usage[r][p] = {}
      BY <1>4 DEF NoUsage
    <3>4. usage'[r][p] \subseteq Blocks
      BY <1>2, <1>5
    <3> QED
      BY <1>7, <3>1, <3>2, <3>3, <3>4 DEF Allocator!Free
  <2> QED
    BY <2>1, <2>2
<1>9. usage[r] = Allocator!Nothing
  BY <1>4 DEF Allocator!Nothing, NoUsage
<1>10. usage'[r] \in [PageIds -> SUBSET Blocks]
  BY <1>2, <1>5
<1>11. Allocator!TakeBlocks(r)
  BY <1>5, <1>7, <1>8, <1>9, <1>10 DEF Allocator!TakeBlocks
<1> QED
  BY <1>2, <1>11

LEMMA DropRecordImplements ==
  ASSUME NEW r \in Records, NEW after, DropRecord(r, after)
  PROVE  Allocator!DropBlocks(r)
<1>1. /\ usage' = [usage EXCEPT ![r] = NoUsage] /\ given' = given
      /\ sm' = SetRecordUsed(sm, usage[r], FALSE)
  BY DEF DropRecord
<1>2. ChainPages' = ChainPages
  BY <1>1 DEF ChainPages, SetRecordUsed
<1>3. Held' = Held
  BY <1>1, <1>2 DEF Held
<1> QED
  BY <1>1, <1>3 DEF Allocator!DropBlocks, Allocator!Nothing, NoUsage

(* The other steps leave what is held and owned alone. *)
LEMMA QuietImplements ==
  ASSUME IInv,
         \/ TrimPage \/ CutTail \/ ChunkFromCache \/ RecordFails
         \/ CommitSpace \/ Reopen \/ UNCHANGED vars
         \/ \E r \in Records, l \in Lengths : StartRecord(r, l)
         \/ \E p \in PageIds : ReleaseSpace(p)
  PROVE  UNCHANGED <<Held, usage>>
<1>1. given' = given /\ usage' = usage
  BY DEF TrimPage, CutTail, ChunkFromCache, Chunk, RecordFails, CommitSpace, Reopen,
         StartRecord, ReleaseSpace, vars, heldVars
<1>2. sm'.chain = sm.chain
  <2>1. CASE CutTail
    BY <2>1, CutKeeps
  <2>2. CASE Reopen
    BY <2>2, LoadBack DEF Reopen
  <2>3. CASE CommitSpace
    BY <2>3 DEF CommitSpace, Commit
  <2>4. CASE ~(CutTail \/ Reopen \/ CommitSpace)
    <3>1. sm' = sm
      BY <2>4 DEF TrimPage, ChunkFromCache, Chunk, RecordFails, StartRecord,
                  ReleaseSpace, vars
    <3> QED
      BY <3>1
  <2> QED
    BY <2>1, <2>2, <2>3, <2>4
<1>3. ChainPages' = ChainPages
  BY <1>2 DEF ChainPages
<1> QED
  BY <1>1, <1>3 DEF Held

LEMMA NextImplements ==
  ASSUME IInv, IInv', [Next]_vars
  PROVE  [Allocator!Next]_<<Held, usage>>
<1>1. CASE AcquireCachedPage \/ AcquireNewPage \/ ChunkFromNewPage
  BY <1>1, AcquireCachedPageImplements, AcquireNewPageImplements,
     ChunkFromNewPageImplements DEF Allocator!Next
<1>2. ASSUME NEW p \in PageIds, ReleasePage(p)
      PROVE  [Allocator!Next]_<<Held, usage>>
  BY <1>2, ReleasePageImplements DEF Allocator!Next
<1>3. CASE FinishRecord
  BY <1>3, FinishImplements DEF Allocator!Next
<1>4. ASSUME NEW r \in Records, NEW after, DropRecord(r, after)
      PROVE  [Allocator!Next]_<<Held, usage>>
  BY <1>4, DropRecordImplements DEF Allocator!Next
<1> QED
  BY <1>1, <1>2, <1>3, <1>4, QuietImplements DEF Next, ReleaseRecord, ReacquireRecord

-----------------------------------------------------------------------------
(* The theorems: for pages, blocks, layouts, storages and caches of any size, *)
(* and records of any length, of one page or of several.                      *)

(* IInv holds in every session with the policy, between calls and within. *)
THEOREM Invariance == Spec => []IInv
<1>1. Init => IInv
  BY InitInv
<1>2. IInv /\ [Next]_vars => IInv'
  BY NextInv
<1> QED
  BY <1>1, <1>2, PTL DEF Spec

(* Every variable keeps its type; among them, the chain always describes the
   whole file and never more than it must, so that update() never shrinks it
   and, unless the storage is full, one growth is enough. *)
THEOREM TypeCorrect == Spec => []TypeOK
<1>1. IInv => TypeOK
  <2> SUFFICES ASSUME IInv PROVE TypeOK
    OBVIOUS
  <2>1. Typed /\ Sound(sm) /\ CP!IInv
    BY DEF IInv, Typed
  <2>2. /\ sm.bits \in [PageIds -> SUBSET Blocks] /\ sm.chain \in Seq(PageIds)
        /\ sm.file \in Nat /\ sm.room \in Nat
    BY <2>1, ManagerFields DEF Sound
  <2>3. sm.dirty \subseteq 0 .. Len(sm.chain) - 1
    BY <2>1 DEF Sound, Indexes
  <2>4. sm.file \in MinPages .. sm.room
    BY <2>1, <2>2, SetFacts DEF Sound
  <2>5. ~sm.hung => Cover(sm) - PerPage < sm.file /\ sm.file < Cover(sm)
    BY <2>1, ChainFacts DEF Sound
  <2>6. Cache!TypeOK
    BY <2>1 DEF CP!IInv, CP!TypeOK, Cache!TypeOK, CP!Elements, Cache!Elements,
                CP!Spaces, Cache!Spaces
  <2>7. call.mode \in {"idle", "hung", "record", "release", "trim"}
    BY ModeFacts DEF IInv, CallOK, RecordOK, ReleaseOK, TrimOK
  <2> QED
    BY <2>1, <2>2, <2>3, <2>4, <2>5, <2>6, <2>7 DEF TypeOK, Typed
<1> QED
  BY <1>1, Invariance, PTL

(* Neither a search nor the cut of the tail takes away what a holder, the chain
   or a record has: it lies in the file and is marked.  And a record has exactly
   the blocks its length needs, whichever pages its chunks went to. *)
THEOREM Marked == Spec => []OwnedAreUsed
<1>1. IInv => OwnedAreUsed
  BY DEF IInv, Owners, Sizes, BlocksFor, OwnedAreUsed
<1> QED
  BY <1>1, Invariance, PTL

(* The space a page is cached with is there, beside what the acquireRecord in
   progress has reserved on the page and not yet marked: reserveBlocks never
   runs past the end of a page. *)
THEOREM SpaceIsThere == Spec => []CachedSpaceIsThere
<1>1. IInv => CachedSpaceIsThere
  <2> SUFFICES ASSUME IInv, NEW i \in DOMAIN cache
               PROVE  /\ cache[i].id < sm.file /\ cache[i].id \notin Held
                      /\ cache[i].freeSpace <=
                           BlockSize * Cardinality(
                             Blocks \ (sm.bits[cache[i].id] \cup Pending(cache[i].id)))
    BY DEF CachedSpaceIsThere, Pending
  <2> DEFINE p == cache[i].id
             left == Blocks \ (sm.bits[p] \cup Pending(p))
  <2>1. p \in Listed
    BY DEF Listed
  <2>2. cache[i].freeSpace = space[p]
    BY DEF IInv, Typed, CP!IInv, CP!CacheTrue
  <2> HIDE DEF p
  <2>3. p < sm.file /\ p \notin Held /\ Roomy(p)
    BY <2>1 DEF IInv, Offered
  <2>4. PICK n \in Nat : space[p] = BlockSize * n /\ n <= Cardinality(left)
    BY <2>3 DEF Roomy
  <2>5. Cardinality(left) \in Nat
    <3>1. IsFiniteSet(Blocks)
      BY BlocksFacts
    <3>2. IsFiniteSet(left)
      BY <3>1, FS_Subset
    <3> QED
      BY <3>2, FS_CardinalityType
  <2> HIDE DEF left
  <2>6. BlockSize * n <= BlockSize * Cardinality(left)
    BY <2>4, <2>5, SetFacts, TimesMonotone
  <2> QED
    BY <2>2, <2>3, <2>4, <2>6 DEF p, left
<1> QED
  BY <1>1, Invariance, PTL

(* Although commit writes only the dirty info pages, each with the link to the
   next one, load gets back the chain and the bitmaps from what is on disk when
   nothing is dirty, unless an acquireRecord has failed. *)
THEOREM CleanImage == Spec => []CommittedImage
<1>1. IInv => CommittedImage
  BY LoadBack DEF CommittedImage
<1> QED
  BY <1>1, Invariance, PTL

(* Every step of a call does what the abstract allocator may do: pages and
   blocks that nobody has are handed out, also when the file and the chain grow
   on the way, and exactly what its owner had is taken back. *)
THEOREM Refinement == Spec => AllocatorSpec
<1>1. Init => Allocator!Init
  BY InitImplements
<1>2. IInv /\ IInv' /\ [Next]_vars => [Allocator!Next]_<<Held, usage>>
  BY NextImplements
<1> QED
  BY <1>1, <1>2, Invariance, PTL DEF Spec, AllocatorSpec, Allocator!Spec

==============================================================================
