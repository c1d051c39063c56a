------------------------ MODULE HybridReopen_proofs -------------------------
(***************************************************************************)
(* Sessions on one file, one killed after the other: what a load can find  *)
(* on disk, and that the session it starts keeps the invariants of Hybrid. *)
(* For every value of the constants with which a record fits in a page and *)
(* the first session is not killed before its first commit.                *)
(***************************************************************************)
EXTENDS HybridReopen, Hybrid_image

(* The used blocks of file page p as the disk content d has them. *)
OnDisk(d, p) == d[chain[InfoOf(p) + 1]].data[p % PerPage]

(* An info page is as the file was extended by it, or has been written: with
   itself marked used, and with the link to the next page of the chain unless
   the chain had no next page then. *)
WellWritten(d) ==
  \A i \in Indexes(chain) :
    \/ d[chain[i + 1]] = ZeroImage /\ i # 0
    \/ /\ d[chain[i + 1]].next \in {NoId, NextOf(chain, i)}
       /\ OnDisk(d, chain[i + 1]) = Blocks

(* Only info pages are written. *)
Untouched(d) == \A p \in PageIds \ ChainPages : d[p] = ZeroImage

(* What d says of a file page has become false only by the page getting more
   blocks used, or none or all of them were used when it was written: b has the
   bitmaps, and n is the number of pages of the file. *)
Older(d, b, n) ==
  \A p \in PageIds :
    p < Cover(chain) =>
      \/ OnDisk(d, p) \in {{}, Blocks}
      \/ holders[p] = 0 /\ p < n /\ OnDisk(d, p) \subseteq b[p]

Readable(d, b, n) == WellWritten(d) /\ Untouched(d) /\ Older(d, b, n)

(* A page that is linked to has been written. *)
Linked ==
  \A i \in Indexes(chain) :
    i + 1 < Len(chain) /\ disk[chain[i + 1]].next = chain[i + 2]
      => disk[chain[i + 2]] # ZeroImage

(* What is durable is marked in d, the pages of createStructure too. *)
Keeps(d) ==
  /\ \A p \in PageIds :
       durable.holders[p] # 0 => p < Cover(chain) /\ OnDisk(d, p) = Blocks
  /\ \A r \in Records, p \in PageIds :
       durable.usage[r][p] # {} =>
         p < Cover(chain) /\ durable.usage[r][p] \subseteq OnDisk(d, p)
  /\ committed => \A p \in System : OnDisk(d, p) = Blocks

(* The chain describes every page that has an owner. *)
OwnedCovered ==
  /\ \A p \in PageIds : holders[p] # 0 => p < Cover(chain)
  /\ \A r \in Records, p \in PageIds : usage[r][p] # {} => p < Cover(chain)

(* An info page whose content on disk is not that in memory is dirty. *)
Dirtied ==
  /\ \A i \in Indexes(chain) : disk[chain[i + 1]] = ZeroImage => i \in dirty
  /\ \A p \in PageIds :
       p < Cover(chain) /\ InfoOf(p) \notin dirty => OnDisk(disk, p) = bits[p]

(* The owners still have what is durable. *)
Durable ==
  /\ durable.holders \in [PageIds -> Nat]
  /\ durable.usage \in [Records -> [PageIds -> SUBSET Blocks]]
  /\ durable.len \in [Records -> Nat]
  /\ \A p \in PageIds : durable.holders[p] <= holders[p]
  /\ \A r \in Records : durable.usage[r] \in {NoUsage, usage[r]}
  /\ \A r \in Records : durable.len[r] = 0 => durable.usage[r] = NoUsage

DiskInv ==
  /\ ChainShape
  /\ Readable(disk, bits, file)
  /\ Linked
  /\ Keeps(disk)
  /\ OwnedCovered
  /\ Dirtied
  /\ Durable

(* The inductive invariant of the sessions. *)
SessionInv == FileInv /\ Counted /\ RecordsClear /\ DiskInv

-----------------------------------------------------------------------------
(* What the disk holds.                                                      *)

LEMMA CoverFacts ==
  ASSUME ChainShape
  PROVE  /\ Cover(chain) \in Nat /\ PerPage <= Cover(chain)
         /\ \A p \in PageIds : p < Cover(chain) <=> InfoOf(p) \in Indexes(chain)
         /\ \A p \in ChainPages : p \in PageIds /\ p < Cover(chain)
         /\ \A p \in System : p \in PageIds /\ p < Cover(chain) /\ InfoOf(p) = 0
<1>1. /\ Len(chain) \in Nat \ {0} /\ PerPage \in Nat \ {0}
      /\ Cover(chain) = PerPage * Len(chain)
  BY ChainFacts, SetFacts DEF Cover
<1>2. Cover(chain) \in Nat /\ PerPage <= Cover(chain)
  <2>1. 1 \in Nat /\ Len(chain) \in Nat /\ PerPage \in Nat /\ 1 <= Len(chain)
    BY <1>1
  <2>2. 1 * PerPage <= Len(chain) * PerPage
    BY <2>1, TimesMonotone
  <2>3. 1 * PerPage = PerPage /\ Len(chain) * PerPage = PerPage * Len(chain)
    BY <2>1
  <2>4. PerPage * Len(chain) \in Nat
    BY <2>1
  <2> QED
    BY <1>1, <2>2, <2>3, <2>4
<1>3. ASSUME NEW p \in PageIds
      PROVE  p < Cover(chain) <=> InfoOf(p) \in Indexes(chain)
  <2>1. p \in Nat /\ Len(chain) \in Nat
    BY <1>1, SetFacts
  <2>2. ASSUME p < Cover(chain) PROVE InfoOf(p) \in Indexes(chain)
    BY <1>1, <2>1, <2>2, InfoOfFacts DEF Indexes
  <2>3. ASSUME InfoOf(p) \in Indexes(chain) PROVE p < Cover(chain)
    <3> DEFINE q == InfoOf(p)
    <3>1. q \in Nat /\ q + 1 <= Len(chain) /\ q + 1 \in Nat
      BY <1>1, <2>3 DEF Indexes
    <3>2. p < PerPage * q + PerPage
      BY <1>1, <2>1, DivFacts DEF InfoOf
    <3> HIDE DEF q
    <3>3. (q + 1) * PerPage <= Len(chain) * PerPage
      BY <1>1, <3>1, TimesMonotone
    <3>4. /\ (q + 1) * PerPage = PerPage * q + PerPage
          /\ Len(chain) * PerPage = Cover(chain)
      BY <1>1, <3>1
    <3>5. PerPage * q + PerPage \in Nat
      BY <1>1, <3>1
    <3> QED
      BY <1>2, <2>1, <3>2, <3>3, <3>4, <3>5
  <2> QED
    BY <2>2, <2>3
<1>4. ASSUME NEW p \in ChainPages PROVE p \in PageIds /\ p < Cover(chain)
  <2>1. PICK k \in DOMAIN chain : p = chain[k]
    BY DEF ChainPages
  <2>2. k - 1 \in Indexes(chain) /\ (k - 1) + 1 = k
    BY <1>1, <2>1, ChainFacts DEF Indexes
  <2>3. chain[(k - 1) + 1] \in PageIds /\ InfoOf(chain[(k - 1) + 1]) = k - 1
    BY <2>2, ChainFacts
  <2> QED
    BY <1>3, <2>1, <2>2, <2>3
<1>5. ASSUME NEW p \in System
      PROVE  p \in PageIds /\ p < Cover(chain) /\ InfoOf(p) = 0
  <2>1. p \in PageIds /\ p \in Nat /\ p < PerPage
    BY SetFacts, LayoutAssumption DEF System
  <2>2. p \div PerPage = 0
    BY <1>1, <2>1
  <2> QED
    BY <1>1, <1>2, <2>1, <2>2 DEF InfoOf
<1> QED
  BY <1>2, <1>3, <1>4, <1>5

(* An info page as the file was extended by it marks nothing. *)
LEMMA ZeroMarks ==
  ASSUME ChainShape, NEW d, NEW p \in PageIds, p < Cover(chain),
         d[chain[InfoOf(p) + 1]] = ZeroImage
  PROVE  OnDisk(d, p) = {}
<1>1. p \in Nat
  BY SetFacts
<1>2. p % PerPage \in 0 .. PerPage - 1
  BY <1>1, PlaceOf
<1> QED
  BY <1>2 DEF OnDisk, ZeroImage

LEMMA OnDiskWritten ==
  ASSUME ChainShape, NEW b, NEW ds, ds \subseteq Indexes(chain),
         NEW p \in PageIds, p < Cover(chain)
  PROVE  OnDisk(Written(b, ds), p) =
           IF InfoOf(p) \in ds THEN b[p] ELSE OnDisk(disk, p)
<1>1. p \in Nat /\ InfoOf(p) \in Indexes(chain)
  BY CoverFacts, SetFacts
<1>2. /\ p % PerPage \in 0 .. PerPage - 1
      /\ PerPage * InfoOf(p) + (p % PerPage) = p
  BY <1>1, PlaceOf
<1>3. DataOf(b, InfoOf(p))[p % PerPage] = b[p]
  BY <1>2 DEF DataOf
<1>4. Written(b, ds)[chain[InfoOf(p) + 1]] =
        IF InfoOf(p) \in ds
        THEN [next |-> NextOf(chain, InfoOf(p)), data |-> DataOf(b, InfoOf(p))]
        ELSE disk[chain[InfoOf(p) + 1]]
  BY <1>1, WrittenAt
<1>5. CASE InfoOf(p) \in ds
  <2>1. OnDisk(Written(b, ds), p) = DataOf(b, InfoOf(p))[p % PerPage]
    BY <1>4, <1>5 DEF OnDisk
  <2> QED
    BY <1>3, <1>5, <2>1
<1>6. CASE InfoOf(p) \notin ds
  BY <1>4, <1>6 DEF OnDisk
<1> QED
  BY <1>5, <1>6

(* A written info page marks itself, so it is not as it was at first. *)
LEMMA WrittenMarks ==
  ASSUME ChainShape, NEW b, \A p \in ChainPages : b[p] = Blocks,
         NEW ds, ds \subseteq Indexes(chain), NEW i \in ds
  PROVE  /\ Written(b, ds)[chain[i + 1]] # ZeroImage
         /\ Written(b, ds)[chain[i + 1]].next = NextOf(chain, i)
         /\ OnDisk(Written(b, ds), chain[i + 1]) = Blocks
<1> DEFINE p == chain[i + 1]
           d == Written(b, ds)
<1>1. i \in Indexes(chain) /\ p \in PageIds /\ InfoOf(p) = i /\ p \in ChainPages
  <2>1. i \in Indexes(chain)
    OBVIOUS
  <2> QED
    BY <2>1, ChainFacts DEF ChainPages
<1>2. d[p] = [next |-> NextOf(chain, i), data |-> DataOf(b, i)]
  BY <1>1, WrittenAt
<1>3. p < Cover(chain) /\ b[p] = Blocks
  BY <1>1, CoverFacts
<1>4. OnDisk(d, p) = Blocks
  <2> HIDE DEF p
  <2>1. OnDisk(d, p) = b[p]
    BY <1>1, <1>3, OnDiskWritten
  <2> QED
    BY <1>3, <2>1
<1> HIDE DEF d
<1>5. d[p] # ZeroImage
  <2>1. SUFFICES ASSUME d[p] = ZeroImage PROVE FALSE
    OBVIOUS
  <2>2. d[chain[InfoOf(p) + 1]] = ZeroImage
    BY <1>1, <2>1
  <2> HIDE DEF p
  <2>3. OnDisk(d, p) = {}
    BY <1>1, <1>3, <2>2, ZeroMarks
  <2> QED
    BY <1>4, <2>3, BlocksFinite
<1>6. d[p].next = NextOf(chain, i)
  BY <1>2
<1> QED
  BY <1>4, <1>5, <1>6 DEF d

(* Writing info pages, all the dirty ones or some, leaves the disk readable. *)
LEMMA WrittenReadable ==
  ASSUME ChainShape, Readable(disk, bits, file), file \in Nat,
         NEW b, \A p \in ChainPages : b[p] = Blocks,
         NEW n \in Nat, \A p \in PageIds : p < file /\ b[p] # {} => p < n,
         \A p \in PageIds : b[p] \in {{}, Blocks} \/ (holders[p] = 0 /\ p < n),
         NEW ds, ds \subseteq Indexes(chain),
         \A p \in PageIds : InfoOf(p) \notin ds => b[p] = bits[p]
  PROVE  Readable(Written(b, ds), b, n)
<1> DEFINE d == Written(b, ds)
<1>1. WellWritten(disk) /\ Untouched(disk) /\ Older(disk, bits, file)
  BY DEF Readable
<1>2. /\ \A i \in Indexes(chain) : i \notin ds => d[chain[i + 1]] = disk[chain[i + 1]]
      /\ \A p \in PageIds \ ChainPages : d[p] = disk[p]
  <2>1. ASSUME NEW i \in Indexes(chain), i \notin ds
        PROVE  d[chain[i + 1]] = disk[chain[i + 1]]
    <3>1. d[chain[i + 1]] =
            IF i \in ds THEN [next |-> NextOf(chain, i), data |-> DataOf(b, i)]
            ELSE disk[chain[i + 1]]
      BY WrittenAt
    <3> HIDE DEF d
    <3> QED
      BY <2>1, <3>1
  <2>2. \A p \in PageIds \ ChainPages : d[p] = disk[p]
    BY WrittenAt
  <2> HIDE DEF d
  <2> QED
    BY <2>1, <2>2
<1>3. ASSUME NEW i \in Indexes(chain)
      PROVE  \/ d[chain[i + 1]] = ZeroImage /\ i # 0
             \/ /\ d[chain[i + 1]].next \in {NoId, NextOf(chain, i)}
                /\ OnDisk(d, chain[i + 1]) = Blocks
  <2>1. CASE i \in ds
    BY <2>1, WrittenMarks
  <2>2. CASE i \notin ds
    <3> DEFINE p == chain[i + 1]
    <3>1. p \in PageIds /\ InfoOf(p) = i /\ d[p] = disk[p]
      BY <1>2, <2>2, ChainFacts
    <3>2. OnDisk(d, p) = OnDisk(disk, p)
      BY <3>1 DEF OnDisk
    <3>3. \/ disk[p] = ZeroImage /\ i # 0
          \/ disk[p].next \in {NoId, NextOf(chain, i)} /\ OnDisk(disk, p) = Blocks
      BY <1>1 DEF WellWritten
    <3> HIDE DEF d, p
    <3>4. \/ d[p] = ZeroImage /\ i # 0
          \/ d[p].next \in {NoId, NextOf(chain, i)} /\ OnDisk(d, p) = Blocks
      BY <3>1, <3>2, <3>3
    <3> QED
      BY <3>4 DEF p
  <2> QED
    BY <2>1, <2>2
<1>4. Untouched(d)
  BY <1>1, <1>2 DEF Untouched
<1>5. ASSUME NEW p \in PageIds, p < Cover(chain)
      PROVE  \/ OnDisk(d, p) \in {{}, Blocks}
             \/ holders[p] = 0 /\ p < n /\ OnDisk(d, p) \subseteq b[p]
  <2>1. OnDisk(d, p) = IF InfoOf(p) \in ds THEN b[p] ELSE OnDisk(disk, p)
    BY <1>5, OnDiskWritten
  <2> HIDE DEF d
  <2>2. CASE InfoOf(p) \in ds
    BY <2>1, <2>2
  <2>3. CASE InfoOf(p) \notin ds
    <3>1. OnDisk(d, p) = OnDisk(disk, p) /\ b[p] = bits[p]
      BY <2>1, <2>3
    <3>2. \/ OnDisk(disk, p) \in {{}, Blocks}
          \/ holders[p] = 0 /\ p < file /\ OnDisk(disk, p) \subseteq bits[p]
      BY <1>1, <1>5 DEF Older
    <3>3. CASE OnDisk(disk, p) \in {{}, Blocks}
      BY <3>1, <3>3
    <3>4. CASE OnDisk(disk, p) \notin {{}, Blocks}
      <4>1. b[p] # {} /\ p < file
        BY <3>1, <3>2, <3>4
      <4> QED
        BY <3>1, <3>2, <3>4, <4>1
    <3> QED
      BY <3>3, <3>4
  <2> QED
    BY <2>2, <2>3
<1> HIDE DEF d
<1>6. Readable(d, b, n)
  BY <1>3, <1>4, <1>5 DEF Readable, WellWritten, Older
<1> QED
  BY <1>6 DEF d

-----------------------------------------------------------------------------
(* What a load finds.                                                        *)

(* A walk that can only meet pages with a link never comes to an end. *)
LEMMA NoEnd ==
  ASSUME NEW d, NEW C, InfoPage \in C,
         \A p \in C : d[p].next \in C /\ d[p].next # NoId
  PROVE  d[ChainOn(d)[Len(ChainOn(d))]].next # NoId
<1>1. PICK w : IsWalk(w, d) /\ ChainOn(d) = w[MaxPages]
  BY ChainOnWalk
<1> DEFINE Good(s) == s \in Seq(C) /\ s # <<>>
           Bad == {n \in 0 .. MaxPages : ~Good(w[n])}
           f == [n \in Bad |-> n]
<1>2. MaxPages \in Nat /\ MaxPages \in 0 .. MaxPages
  BY SetFacts
<1>3. \A s : Good(s) => s[Len(s)] \in C
  <2>1. ASSUME NEW s, Good(s) PROVE s[Len(s)] \in C
    <3>1. s \in Seq(C) /\ s # <<>>
      BY <2>1
    <3>2. Len(s) \in 1 .. Len(s)
      BY <3>1
    <3> QED
      BY <3>1, <3>2
  <2> QED
    BY <2>1
<1>4. Bad = {}
  <2>1. SUFFICES ASSUME Bad # {} PROVE FALSE
    OBVIOUS
  <2>2. f \in [Bad -> Nat]
    BY <1>2
  <2>3. PICK n \in Bad : \A q \in Bad : f[n] <= f[q]
    <3> HIDE DEF f, Bad
    <3> QED
      BY <2>1, <2>2, LeastExists
  <2>4. n \in 0 .. MaxPages /\ n \in Nat /\ ~Good(w[n])
    <3> HIDE DEF Good
    <3> QED
      BY <1>2
  <2>5. \A q \in Bad : n <= q
    <3>1. ASSUME NEW q \in Bad PROVE n <= q
      <4>1. f[n] <= f[q] /\ f[n] = n /\ f[q] = q
        <5>1. f[n] <= f[q]
          BY <2>3
        <5> HIDE DEF Bad
        <5> QED
          BY <5>1
      <4> HIDE DEF f, Bad
      <4> QED
        BY <4>1
    <3> HIDE DEF f, Bad
    <3> QED
      BY <3>1
  <2>6. w[n] = IF n = 0 THEN <<InfoPage>>
               ELSE LET s == w[n - 1] IN
                    IF d[s[Len(s)]].next = NoId THEN s
                    ELSE Append(s, d[s[Len(s)]].next)
    BY <1>1, <2>4 DEF IsWalk
  <2>7. CASE n = 0
    <3>1. w[n] = <<InfoPage>>
      BY <2>6, <2>7
    <3>2. <<InfoPage>> \in Seq(C) /\ <<InfoPage>> # <<>>
      OBVIOUS
    <3> QED
      BY <2>4, <3>1, <3>2
  <2>8. CASE n # 0
    <3>1. n - 1 \in 0 .. MaxPages /\ ~(n <= n - 1)
      BY <1>2, <2>4, <2>8
    <3>2. n - 1 \notin Bad
      <4> HIDE DEF Bad
      <4> QED
        BY <2>5, <3>1
    <3>3. Good(w[n - 1])
      <4> HIDE DEF Good
      <4> QED
        BY <3>1, <3>2
    <3> DEFINE s == w[n - 1]
    <3>4. s[Len(s)] \in C
      <4> HIDE DEF Good
      <4> QED
        BY <1>3, <3>3
    <3>5. d[s[Len(s)]].next \in C /\ d[s[Len(s)]].next # NoId
      BY <3>4
    <3>6. w[n] = Append(s, d[s[Len(s)]].next)
      BY <2>6, <2>8, <3>5
    <3>7. s \in Seq(C)
      BY <3>3
    <3> HIDE DEF s
    <3>8. Append(s, d[s[Len(s)]].next) \in Seq(C) /\ Append(s, d[s[Len(s)]].next) # <<>>
      BY <3>5, <3>7
    <3> QED
      BY <2>4, <3>6, <3>8
  <2> QED
    BY <2>7, <2>8
<1>5. Good(ChainOn(d))
  <2> HIDE DEF Good
  <2> QED
    BY <1>1, <1>2, <1>4
<1> HIDE DEF Good
<1> QED
  BY <1>3, <1>5

(* A disk that can be loaded has every link of the chain. *)
LEMMA LoadableLinks ==
  ASSUME FileInv, ChainShape, NEW d, WellWritten(d), Untouched(d),
         NEW n \in Nat, file <= n, Loadable(d, n)
  PROVE  LinksTrue(d)
<1> DEFINE Bad == {i \in Indexes(chain) : d[chain[i + 1]].next # NextOf(chain, i)}
           f == [i \in Bad |-> i]
<1>1. SUFFICES ASSUME Bad # {} PROVE FALSE
  BY DEF LinksTrue
<1>2. /\ Len(chain) \in Nat \ {0} /\ PerPage \in Nat \ {0} /\ file \in Nat
      /\ chain[1] = InfoPage
  BY ChainFacts, SetFacts DEF FileInv, Types, TypeOK, ChainShape
<1>3. \A i \in Indexes(chain) : i \in Nat
  BY ChainFacts
<1>4. f \in [Bad -> Nat]
  BY <1>3
<1>5. PICK i \in Bad : \A q \in Bad : f[i] <= f[q]
  <2> HIDE DEF f, Bad
  <2> QED
    BY <1>1, <1>4, LeastExists
<1>6. i \in Indexes(chain) /\ i \in Nat /\ d[chain[i + 1]].next # NextOf(chain, i)
  BY <1>3
<1>7. \A q \in Bad : i <= q
  <2>1. ASSUME NEW q \in Bad PROVE i <= q
    <3>1. f[i] <= f[q] /\ f[i] = i /\ f[q] = q
      <4>1. f[i] <= f[q]
        BY <1>5
      <4> HIDE DEF Bad
      <4> QED
        BY <4>1
    <3> HIDE DEF f, Bad
    <3> QED
      BY <3>1
  <2> HIDE DEF f, Bad
  <2> QED
    BY <2>1
<1>8. ASSUME NEW j \in 0 .. i - 1
      PROVE  /\ j \in Indexes(chain) /\ j + 2 \in 1 .. Len(chain)
             /\ d[chain[j + 1]].next = chain[j + 2]
  <2>1. j \in Indexes(chain) /\ j \in Nat /\ j + 1 < Len(chain) /\ ~(i <= j)
        /\ j + 2 \in 1 .. Len(chain)
    BY <1>2, <1>6 DEF Indexes
  <2>2. j \notin Bad
    <3> HIDE DEF Bad
    <3> QED
      BY <1>7, <2>1
  <2>3. d[chain[j + 1]].next = NextOf(chain, j)
    BY <2>1, <2>2
  <2> QED
    BY <2>1, <2>3 DEF NextOf
<1> HIDE DEF Bad, f
<1>9. CASE d[chain[i + 1]] = ZeroImage /\ i # 0
  <2> DEFINE C == {chain[j + 1] : j \in 0 .. i} \cup {0}
  <2>1. InfoPage \in C
    <3>1. 0 \in 0 .. i /\ chain[0 + 1] = InfoPage
      BY <1>2, <1>6
    <3> QED
      BY <3>1
  <2>2. ASSUME NEW j \in 0 .. i
        PROVE  d[chain[j + 1]].next \in C /\ d[chain[j + 1]].next # NoId
    <3>1. CASE j = i
      BY <1>9, <3>1 DEF ZeroImage, NoId
    <3>2. CASE j # i
      <4>1. j \in 0 .. i - 1 /\ j + 1 \in 0 .. i /\ (j + 1) + 1 = j + 2
        BY <1>6, <3>2
      <4>2. d[chain[j + 1]].next = chain[j + 2] /\ j + 2 \in 1 .. Len(chain)
        BY <1>8, <4>1
      <4>3. chain[(j + 1) + 1] \in C
        BY <4>1
      <4>4. chain[j + 2] \in PageIds
        BY <4>2 DEF ChainShape
      <4> QED
        BY <4>1, <4>2, <4>3, <4>4, SetFacts
    <3> QED
      BY <3>1, <3>2
  <2>3. ASSUME 0 \notin {chain[j + 1] : j \in 0 .. i}
        PROVE  d[0].next \in C /\ d[0].next # NoId
    <3>1. 0 \in PageIds
      BY SetFacts, LayoutAssumption DEF PageIds
    <3>2. CASE 0 \in ChainPages
      <4>1. PICK k \in DOMAIN chain : chain[k] = 0
        BY <3>2 DEF ChainPages
      <4>2. k - 1 \in Indexes(chain) /\ (k - 1) + 1 = k
        BY <1>2, <4>1, ChainFacts DEF Indexes
      <4>3. InfoOf(0) = k - 1
        BY <4>1, <4>2 DEF ChainShape
      <4>4. InfoOf(0) = 0
        BY <1>2 DEF InfoOf
      <4>5. k - 1 \in 0 .. i
        BY <1>6, <4>2, <4>3, <4>4
      <4> QED
        BY <2>3, <4>1, <4>2, <4>5
    <3>3. CASE 0 \notin ChainPages
      <4>1. d[0] = ZeroImage
        BY <3>1, <3>3 DEF Untouched
      <4> QED
        BY <4>1 DEF ZeroImage, NoId
    <3> QED
      BY <3>2, <3>3
  <2>4. \A p \in C : d[p].next \in C /\ d[p].next # NoId
    <3>1. ASSUME NEW p \in C PROVE d[p].next \in C /\ d[p].next # NoId
      <4>1. CASE p \in {chain[j + 1] : j \in 0 .. i}
        <5>1. PICK j \in 0 .. i : p = chain[j + 1]
          BY <4>1
        <5> HIDE DEF C
        <5> QED
          BY <2>2, <5>1
      <4>2. CASE p \notin {chain[j + 1] : j \in 0 .. i}
        <5>1. p = 0
          BY <4>2
        <5> HIDE DEF C
        <5> QED
          BY <2>3, <4>2, <5>1
      <4> QED
        BY <4>1, <4>2
    <3> HIDE DEF C
    <3> QED
      BY <3>1
  <2> HIDE DEF C
  <2>5. d[ChainOn(d)[Len(ChainOn(d))]].next # NoId
    BY <2>1, <2>4, NoEnd
  <2> QED
    BY <2>5 DEF Loadable
<1>10. CASE ~(d[chain[i + 1]] = ZeroImage /\ i # 0)
  <2>1. d[chain[i + 1]].next = NoId /\ NextOf(chain, i) # NoId
    BY <1>6, <1>10 DEF WellWritten
  <2>2. i + 1 < Len(chain)
    BY <2>1 DEF NextOf
  <2> DEFINE k == i + 1
  <2>3. ReadsTo(d, k)
    <3>1. k \in 1 .. Len(chain)
      BY <1>2, <1>6, <2>2
    <3>2. ASSUME NEW m \in 1 .. k - 1 PROVE d[chain[m]].next = chain[m + 1]
      <4>1. m - 1 \in 0 .. i - 1 /\ (m - 1) + 1 = m /\ (m - 1) + 2 = m + 1
        BY <1>6
      <4>2. d[chain[(m - 1) + 1]].next = chain[(m - 1) + 2]
        BY <1>8, <4>1
      <4> QED
        BY <4>1, <4>2
    <3>3. d[chain[k]].next = NoId
      BY <2>1
    <3> HIDE DEF k
    <3> QED
      BY <3>1, <3>2, <3>3 DEF ReadsTo
  <2>4. k \in 1 .. Len(chain) /\ k \in Nat
    BY <1>2, <1>6, <2>2
  <2> HIDE DEF k
  <2>5. ChainOn(d) = Prefix(k) /\ Len(ChainOn(d)) = k
    BY <2>3, <2>4, PrefixRead, PrefixFacts
  <2>6. n <= PerPage * k
    BY <2>5 DEF Loadable, Cover
  <2> DEFINE p == chain[k + 1]
  <2>7. k \in Indexes(chain) /\ k + 1 \in DOMAIN chain
    BY <1>2, <2>2, <2>4 DEF Indexes, k, ChainShape
  <2>8. p \in PageIds /\ InfoOf(p) = k /\ p \in ChainPages
    BY <2>7, ChainFacts DEF ChainPages
  <2>9. p < file
    BY <2>8 DEF FileInv, OwnedAreUsed
  <2> HIDE DEF p
  <2>10. p \in Nat /\ PerPage * k <= p
    <3>1. p \in Nat
      BY <2>8, SetFacts
    <3>2. PerPage * (p \div PerPage) <= p
      BY <1>2, <3>1, DivFacts
    <3> QED
      BY <2>8, <3>1, <3>2 DEF InfoOf
  <2>11. PerPage * k \in Nat
    BY <1>2, <2>4
  <2> QED
    BY <1>2, <2>6, <2>9, <2>10, <2>11
<1> QED
  BY <1>9, <1>10

(* So it has the chain, and every info page has been written. *)
LEMMA LoadableFacts ==
  ASSUME FileInv, ChainShape, NEW d, Readable(d, bits, file),
         NEW n \in Nat, file <= n, Loadable(d, n)
  PROVE  /\ ChainOn(d) = chain /\ n <= Cover(chain)
         /\ BitsOn(d) = [p \in PageIds |-> IF p < Cover(chain) THEN OnDisk(d, p) ELSE {}]
         /\ \A i \in Indexes(chain) :
              d[chain[i + 1]] # ZeroImage /\ OnDisk(d, chain[i + 1]) = Blocks
<1>1. WellWritten(d) /\ Untouched(d)
  BY DEF Readable
<1>2. LinksTrue(d)
  BY <1>1, LoadableLinks
<1>3. ChainOn(d) = chain
  BY <1>2, ChainRead
<1>4. n <= Cover(chain)
  BY <1>3 DEF Loadable
<1>5. BitsOn(d) = [p \in PageIds |-> IF p < Cover(chain) THEN OnDisk(d, p) ELSE {}]
  BY <1>3 DEF BitsOn, OnDisk
<1>6. ASSUME NEW i \in Indexes(chain) PROVE d[chain[i + 1]] # ZeroImage
  <2>1. SUFFICES ASSUME d[chain[i + 1]] = ZeroImage PROVE FALSE
    OBVIOUS
  <2>2. NextOf(chain, i) = 0
    BY <1>2, <2>1 DEF LinksTrue, ZeroImage
  <2>3. i + 1 < Len(chain) /\ chain[i + 2] = 0
    BY <2>2 DEF NextOf, NoId
  <2>4. i + 1 \in Indexes(chain) /\ (i + 1) + 1 = i + 2 /\ i \in Nat
    BY <2>3, ChainFacts DEF Indexes
  <2>5. InfoOf(0) = i + 1
    BY <2>3, <2>4 DEF ChainShape
  <2>6. InfoOf(0) = 0
    BY SetFacts DEF InfoOf
  <2> QED
    BY <2>4, <2>5, <2>6
<1>7. \A i \in Indexes(chain) : OnDisk(d, chain[i + 1]) = Blocks
  BY <1>1, <1>6 DEF WellWritten
<1> QED
  BY <1>3, <1>4, <1>5, <1>6, <1>7

-----------------------------------------------------------------------------
(* A load.                                                                   *)

(* initHistogram counts the pages of every class and takes one of them as its
   witness. *)
LEMMA RebuiltFacts ==
  ASSUME NEW b \in [PageIds -> SUBSET Blocks], NEW n \in 0 .. MaxPages
  PROVE  /\ HistTyped(Rebuilt(b, n)) /\ Valid(Rebuilt(b, n), b, n)
         /\ CountsTrue(Rebuilt(b, n), b, n)
<1> DEFINE g == Rebuilt(b, n)
           last(S) == CHOOSE p \in S : \A q \in S : q <= p
<1>1. g = [counts  |-> [c \in ClassIds |-> Cardinality(Members(b, n, c))],
           witness |-> [c \in ClassIds |->
                          IF Members(b, n, c) = {} THEN NoId ELSE last(Members(b, n, c))]]
  BY Zenon DEF Rebuilt, Members
<1>2. n \in Nat /\ 0 .. n - 1 \subseteq PageIds
  BY SetFacts DEF PageIds
<1>3. ASSUME NEW S \in SUBSET (0 .. n - 1), S # {} PROVE last(S) \in S
  <2> DEFINE f == [p \in S |-> n - p]
  <2>1. f \in [S -> Nat]
    BY <1>2
  <2>2. \E p \in S : \A q \in S : f[p] <= f[q]
    <3> HIDE DEF f
    <3> QED
      BY <1>3, <2>1, LeastExists
  <2>3. PICK p \in S : \A q \in S : f[p] <= f[q]
    BY <2>2
  <2>4. \A q \in S : q <= p
    <3>1. ASSUME NEW q \in S PROVE q <= p
      <4>1. n - p <= n - q
        BY <2>3
      <4>2. p \in 0 .. n - 1 /\ q \in 0 .. n - 1
        OBVIOUS
      <4> QED
        BY <1>2, <4>1, <4>2
    <3> QED
      BY <3>1
  <2> QED
    BY <2>4
<1>4. \A c \in ClassIds : Members(b, n, c) \in SUBSET (0 .. n - 1)
  BY DEF Members
<1>5. \A c \in ClassIds : Members(b, n, c) # {} => last(Members(b, n, c)) \in Members(b, n, c)
  <2> HIDE DEF last
  <2> QED
    BY <1>3, <1>4
<1>6. \A c \in ClassIds :
        /\ g.counts[c] = Cardinality(Members(b, n, c))
        /\ g.witness[c] = NoId \/ g.witness[c] \in Members(b, n, c)
  <2> HIDE DEF g, last
  <2> QED
    BY <1>1, <1>5
<1>7. g.counts \in [ClassIds -> Int]
  <2>1. \A c \in ClassIds : Cardinality(Members(b, n, c)) \in Int
    BY <1>2, MembersFinite
  <2>2. g.counts = [c \in ClassIds |-> Cardinality(Members(b, n, c))]
    BY <1>1
  <2> HIDE DEF g
  <2> QED
    BY <2>1, <2>2
<1>8. g.witness \in [ClassIds -> PageIds \cup {NoId}]
  <2>1. \A c \in ClassIds :
          (IF Members(b, n, c) = {} THEN NoId ELSE last(Members(b, n, c))) \in PageIds \cup {NoId}
    <3> HIDE DEF last
    <3> QED
      BY <1>2, <1>4, <1>5
  <2>2. g.witness = [c \in ClassIds |->
                       IF Members(b, n, c) = {} THEN NoId ELSE last(Members(b, n, c))]
    <3> HIDE DEF last
    <3> QED
      BY <1>1
  <2> HIDE DEF g, last
  <2> QED
    BY <2>1, <2>2
<1> HIDE DEF g
<1>9. HistTyped(g) /\ Valid(g, b, n) /\ CountsTrue(g, b, n)
  BY <1>6, <1>7, <1>8 DEF HistTyped, Valid, CountsTrue, Members
<1> QED
  BY <1>9 DEF g

LEMMA SizeRange ==
  ASSUME FileInv, NEW n \in Sizes
  PROVE  n \in MinPages .. MaxPages /\ n \in Nat /\ file <= n
<1>1. file \in MinPages .. MaxPages /\ MinPages \in Nat /\ MaxPages \in Nat
  BY SetFacts DEF FileInv, Types, TypeOK
<1> QED
  BY <1>1 DEF Sizes

(* The process may die with some of the dirty pages written. *)
LEMMA ImageFacts ==
  ASSUME SessionInv, NEW d \in Images
  PROVE  Readable(d, bits, file) /\ Keeps(d) /\ DOMAIN d = PageIds
<1>1. /\ FileInv /\ ChainShape /\ Readable(disk, bits, file) /\ Keeps(disk) /\ Durable
      /\ OwnedAreUsed /\ dirty \subseteq Indexes(chain) /\ DOMAIN disk = PageIds
      /\ bits \in [PageIds -> SUBSET Blocks] /\ holders \in [PageIds -> Nat]
  BY DEF SessionInv, DiskInv, FileInv, Types, TypeOK, Indexes
<1>2. CASE d = disk
  BY <1>1, <1>2
<1>3. ASSUME NEW ds \in SUBSET Indexes(chain), d = Written(bits, ds)
      PROVE  Readable(d, bits, file) /\ Keeps(d) /\ DOMAIN d = PageIds
  <2>1. Readable(d, bits, file)
    <3>1. \A p \in ChainPages : bits[p] = Blocks
      BY <1>1, CoverFacts DEF OwnedAreUsed
    <3>2. file \in Nat
      BY SetFacts, <1>1 DEF FileInv, Types, TypeOK
    <3>3. \A p \in PageIds : bits[p] \in {{}, Blocks} \/ (holders[p] = 0 /\ p < file)
      <4>1. ASSUME NEW p \in PageIds, bits[p] \notin {{}, Blocks}
            PROVE  holders[p] = 0 /\ p < file
        <5>1. holders[p] = 0
          BY <1>1, <4>1 DEF OwnedAreUsed
        <5>2. ~(p >= file)
          BY <1>1, <4>1 DEF FileInv, Lost
        <5> QED
          BY <3>2, <5>1, <5>2, SetFacts
      <4> QED
        BY <4>1
    <3> QED
      BY <1>1, <1>3, <3>1, <3>2, <3>3, WrittenReadable
  <2>2. ASSUME NEW p \in PageIds, p < Cover(chain)
        PROVE  OnDisk(d, p) = IF InfoOf(p) \in ds THEN bits[p] ELSE OnDisk(disk, p)
    BY <1>1, <1>3, <2>2, OnDiskWritten
  <2>3. ASSUME NEW p \in PageIds, durable.holders[p] # 0
        PROVE  p < Cover(chain) /\ OnDisk(d, p) = Blocks
    <3>1. p < Cover(chain) /\ OnDisk(disk, p) = Blocks
      BY <1>1, <2>3 DEF Keeps
    <3>2. holders[p] > 0
      BY <1>1, <2>3 DEF Durable
    <3>3. bits[p] = Blocks
      BY <1>1, <3>2 DEF OwnedAreUsed
    <3> QED
      BY <2>2, <3>1, <3>3
  <2>4. ASSUME NEW r \in Records, NEW p \in PageIds, durable.usage[r][p] # {}
        PROVE  p < Cover(chain) /\ durable.usage[r][p] \subseteq OnDisk(d, p)
    <3>1. p < Cover(chain) /\ durable.usage[r][p] \subseteq OnDisk(disk, p)
      BY <1>1, <2>4 DEF Keeps
    <3>2. durable.usage[r] = usage[r]
      BY <1>1, <2>4 DEF Durable, NoUsage
    <3>3. durable.usage[r][p] \subseteq bits[p]
      BY <1>1, <2>4, <3>2 DEF OwnedAreUsed
    <3> QED
      BY <2>2, <3>1, <3>3
  <2>5. ASSUME committed, NEW p \in System PROVE OnDisk(d, p) = Blocks
    <3>1. p \in PageIds /\ p < Cover(chain)
      BY <1>1, CoverFacts
    <3>2. OnDisk(disk, p) = Blocks /\ bits[p] = Blocks
      BY <1>1, <2>5, <3>1 DEF Keeps, OwnedAreUsed
    <3> QED
      BY <2>2, <3>1, <3>2
  <2>6. DOMAIN d = PageIds
    BY <1>3 DEF Written
  <2> QED
    BY <2>1, <2>3, <2>4, <2>5, <2>6 DEF Keeps
<1>4. CASE d # disk
  <2>1. PICK k \in 0 .. Len(chain) : d = Written(bits, {i \in dirty : i < k})
    BY <1>4 DEF Images
  <2>2. {i \in dirty : i < k} \in SUBSET Indexes(chain)
    BY <1>1
  <2> QED
    BY <1>3, <2>1, <2>2
<1> QED
  BY <1>2, <1>4

(* What the new session has in memory. *)
LEMMA LoadMaps ==
  ASSUME SessionInv, NEW d \in Images, NEW n \in Sizes, Loadable(d, n), Load(d, n)
  PROVE  /\ chain' = chain /\ file' = n /\ n <= Cover(chain) /\ ChainPages' = ChainPages
         /\ bits' \in [PageIds -> SUBSET Blocks]
         /\ \A p \in PageIds : bits'[p] = IF p < Cover(chain) THEN OnDisk(d, p) ELSE {}
         /\ \A p \in ChainPages : OnDisk(d, p) = Blocks
         /\ \A i \in Indexes(chain) : d[chain[i + 1]] # ZeroImage
<1>1. /\ FileInv /\ ChainShape /\ Readable(d, bits, file)
      /\ bits \in [PageIds -> SUBSET Blocks]
  BY ImageFacts DEF SessionInv, DiskInv, FileInv, Types, TypeOK
<1>2. n \in Nat /\ file <= n
  BY <1>1, SizeRange
<1>3. /\ ChainOn(d) = chain /\ n <= Cover(chain)
      /\ BitsOn(d) = [p \in PageIds |-> IF p < Cover(chain) THEN OnDisk(d, p) ELSE {}]
      /\ \A i \in Indexes(chain) :
           d[chain[i + 1]] # ZeroImage /\ OnDisk(d, chain[i + 1]) = Blocks
  BY <1>1, <1>2, LoadableFacts
<1>4. \A p \in PageIds : p < Cover(chain) => OnDisk(d, p) \in SUBSET Blocks
  <2>1. ASSUME NEW p \in PageIds, p < Cover(chain) PROVE OnDisk(d, p) \in SUBSET Blocks
    <3>1. \/ OnDisk(d, p) \in {{}, Blocks}
          \/ OnDisk(d, p) \subseteq bits[p]
      BY <1>1, <2>1 DEF Readable, Older
    <3>2. bits[p] \subseteq Blocks
      BY <1>1
    <3> QED
      BY <3>1, <3>2
  <2> QED
    BY <2>1
<1>5. chain' = chain /\ file' = n /\ bits' = BitsOn(d)
  BY <1>3 DEF Load
<1>6. bits' \in [PageIds -> SUBSET Blocks]
  BY <1>3, <1>4, <1>5
<1>7. \A p \in PageIds : bits'[p] = IF p < Cover(chain) THEN OnDisk(d, p) ELSE {}
  BY <1>3, <1>5
<1>8. ASSUME NEW p \in ChainPages PROVE OnDisk(d, p) = Blocks
  <2>1. PICK k \in DOMAIN chain : p = chain[k]
    BY DEF ChainPages
  <2>2. k - 1 \in Indexes(chain) /\ (k - 1) + 1 = k
    <3>1. Len(chain) \in Nat /\ DOMAIN chain = 1 .. Len(chain)
      BY <1>1, ChainFacts
    <3> QED
      BY <2>1, <3>1 DEF Indexes
  <2> QED
    BY <1>3, <2>1, <2>2
<1>9. ChainPages' = ChainPages
  BY <1>5 DEF ChainPages
<1> QED
  BY <1>3, <1>5, <1>6, <1>7, <1>8, <1>9

(* The owners that have lost something since the last commit have no less
   right to what they have left. *)
LEMMA LoadOwners ==
  ASSUME SessionInv, committed, NEW d \in Images, NEW n \in Sizes,
         Loadable(d, n), Load(d, n)
  PROVE  OwnersDisjoint' /\ OwnedAreUsed' /\ RecordsClear' /\ call' = Idle
<1>1. /\ OwnersDisjoint /\ OwnedAreUsed /\ Durable /\ ChainShape /\ Keeps(d) /\ FileInv
      /\ holders \in [PageIds -> Nat]
  BY ImageFacts DEF SessionInv, DiskInv, FileInv, Types, TypeOK
<1>2. /\ holders' = durable.holders /\ usage' = durable.usage /\ len' = durable.len
      /\ call' = Idle
  BY DEF Load
<1>3. /\ ChainPages' = ChainPages /\ file' = n
      /\ \A p \in PageIds : bits'[p] = IF p < Cover(chain) THEN OnDisk(d, p) ELSE {}
      /\ \A p \in ChainPages : OnDisk(d, p) = Blocks
  BY LoadMaps
<1>4. /\ \A p \in PageIds : holders'[p] \in Nat /\ holders'[p] <= holders[p]
      /\ \A r \in Records : usage'[r] \in {NoUsage, usage[r]}
      /\ \A r \in Records, p \in PageIds : usage'[r][p] # {} => usage'[r] = usage[r]
  BY <1>1, <1>2 DEF Durable, NoUsage
<1>5. n \in Nat /\ file \in Nat /\ file <= n
  BY <1>1, SizeRange, SetFacts DEF FileInv, Types, TypeOK
<1>6. OwnersDisjoint'
  <2>1. ASSUME NEW p \in PageIds
        PROVE  \/ holders'[p] = 0
               \/ holders'[p] = 1 /\ p \notin System \cup ChainPages'
    <3>1. \/ holders[p] = 0
          \/ holders[p] = 1 /\ p \notin System \cup ChainPages
      BY <1>1 DEF OwnersDisjoint
    <3>2. holders'[p] \in Nat /\ holders'[p] <= holders[p]
      BY <1>4
    <3> QED
      BY <1>3, <3>1, <3>2
  <2>2. ASSUME NEW r \in Records, NEW p \in PageIds, usage'[r][p] # {}
        PROVE  holders'[p] = 0 /\ p \notin System \cup ChainPages'
    <3>1. holders[p] = 0 /\ p \notin System \cup ChainPages
      BY <1>1, <1>4, <2>2 DEF OwnersDisjoint
    <3>2. holders'[p] \in Nat /\ holders'[p] <= holders[p]
      BY <1>4
    <3> QED
      BY <1>3, <3>1, <3>2
  <2>3. ASSUME NEW r \in Records, NEW s \in Records, NEW p \in PageIds, r # s
        PROVE  usage'[r][p] \cap usage'[s][p] = {}
    <3>1. usage[r][p] \cap usage[s][p] = {}
      BY <1>1, <2>3 DEF OwnersDisjoint
    <3>2. usage'[r][p] = {} \/ usage'[r] = usage[r]
      BY <1>4
    <3>3. usage'[s][p] = {} \/ usage'[s] = usage[s]
      BY <1>4
    <3> QED
      BY <3>1, <3>2, <3>3
  <2> QED
    BY <2>1, <2>2, <2>3 DEF OwnersDisjoint
<1>7. OwnedAreUsed'
  <2>1. ASSUME NEW p \in PageIds, p \in System \cup ChainPages' \/ holders'[p] > 0
        PROVE  p < file' /\ bits'[p] = Blocks
    <3>1. p \in System \cup ChainPages \/ holders[p] > 0
      <4>1. holders'[p] \in Nat /\ holders'[p] <= holders[p] /\ holders[p] \in Nat
        BY <1>1, <1>4
      <4> QED
        BY <1>3, <2>1, <4>1
    <3>2. p < file /\ p \in Nat
      BY <1>1, <3>1, SetFacts DEF OwnedAreUsed
    <3>3. p < Cover(chain) /\ OnDisk(d, p) = Blocks
      <4>1. CASE p \in System
        BY <1>1, <4>1, CoverFacts DEF Keeps
      <4>2. CASE p \in ChainPages
        BY <1>1, <1>3, <4>2, CoverFacts
      <4>3. CASE holders'[p] > 0
        <5>1. durable.holders[p] # 0
          BY <1>2, <4>3
        <5> QED
          BY <1>1, <5>1 DEF Keeps
      <4> QED
        BY <1>3, <2>1, <4>1, <4>2, <4>3
    <3> QED
      BY <1>3, <1>5, <3>2, <3>3
  <2>2. ASSUME NEW r \in Records, NEW p \in PageIds, usage'[r][p] # {}
        PROVE  p < file' /\ usage'[r][p] \subseteq bits'[p]
    <3>1. p < Cover(chain) /\ usage'[r][p] \subseteq OnDisk(d, p)
      BY <1>1, <1>2, <2>2 DEF Keeps
    <3>2. p < file /\ p \in Nat
      BY <1>1, <1>4, <2>2, SetFacts DEF OwnedAreUsed
    <3> QED
      BY <1>3, <1>5, <3>1, <3>2
  <2> QED
    BY <2>1, <2>2 DEF OwnedAreUsed
<1>8. RecordsClear'
  <2>1. ~InRecord'
    BY <1>2, ModeFactsNext
  <2> QED
    BY <1>1, <1>2, <2>1 DEF RecordsClear, Durable
<1> QED
  BY <1>2, <1>6, <1>7, <1>8

LEMMA LoadFile ==
  ASSUME SessionInv, committed, NEW d \in Images, NEW n \in Sizes,
         Loadable(d, n), Load(d, n)
  PROVE  FileInv' /\ Counted'
<1>1. /\ FileInv /\ Durable /\ ChainShape /\ Readable(d, bits, file) /\ DOMAIN d = PageIds
      /\ chain \in Seq(PageIds)
  BY ImageFacts DEF SessionInv, DiskInv, FileInv, Types, TypeOK
<1>2. /\ chain' = chain /\ file' = n /\ n <= Cover(chain)
      /\ bits' \in [PageIds -> SUBSET Blocks]
      /\ \A p \in PageIds : bits'[p] = IF p < Cover(chain) THEN OnDisk(d, p) ELSE {}
  BY LoadMaps
<1>3. OwnersDisjoint' /\ OwnedAreUsed' /\ call' = Idle
  BY LoadOwners
<1>4. n \in MinPages .. MaxPages /\ n \in Nat /\ file <= n /\ n \in 0 .. MaxPages
  BY <1>1, SizeRange, SetFacts
<1>5. hist' = Rebuilt(bits', n) /\ dirty' = {} /\ disk' = d /\ lastAcquired' = 0
      /\ holders' = durable.holders /\ usage' = durable.usage /\ len' = durable.len
  BY DEF Load
<1>6. HistTyped(hist') /\ Valid(hist', bits', n) /\ CountsTrue(hist', bits', n)
  BY <1>2, <1>4, <1>5, RebuiltFacts
<1>7. ~InRecord' /\ call'.mode = "idle"
  BY <1>3, ModeFactsNext, Modes
<1>8. TakenMap' = bits'
  <2>1. \A p \in PageIds : Taken(p)' = bits'[p]
    BY <1>7 DEF Taken
  <2> QED
    BY <1>2, <2>1 DEF TakenMap
<1>9. Types'
  <2>1. lastAcquired' \in 0 .. MaxPages
    BY <1>5, SetFacts
  <2>2. /\ holders' \in [PageIds -> Nat]
        /\ usage' \in [Records -> [PageIds -> SUBSET Blocks]] /\ len' \in [Records -> Nat]
    BY <1>1, <1>5 DEF Durable
  <2>3. DOMAIN disk' = PageIds /\ dirty' = {}
    BY <1>1, <1>5
  <2>4. chain' \in Seq(PageIds) /\ file' \in MinPages .. MaxPages
    BY <1>1, <1>2, <1>4
  <2> QED
    BY <1>2, <1>3, <1>6, <1>7, <2>1, <2>2, <2>3, <2>4 DEF Types, TypeOK, HistTyped
<1>10. Lost'
  <2>1. ASSUME NEW p \in PageIds, p >= n PROVE bits'[p] \in {{}, Blocks}
    <3>1. CASE p < Cover(chain)
      <4>1. \/ OnDisk(d, p) \in {{}, Blocks}
            \/ p < file
        BY <1>1, <3>1 DEF Readable, Older
      <4>2. ~(p < file)
        <5>1. p \in Nat /\ file \in Nat
          BY <1>1, SetFacts DEF FileInv, Types, TypeOK
        <5> QED
          BY <1>4, <2>1, <5>1
      <4> QED
        BY <1>2, <3>1, <4>1, <4>2
    <3>2. CASE ~(p < Cover(chain))
      BY <1>2, <3>2
    <3> QED
      BY <3>1, <3>2
  <2> QED
    BY <1>2, <2>1 DEF Lost
<1>11. WitnessTrue'
  BY <1>2, <1>6, <1>8 DEF WitnessTrue
<1>12. CallOK'
  BY <1>7 DEF CallOK
<1>13. ChainFits'
  <2>1. ChainFits
    BY <1>1 DEF FileInv
  <2> QED
    BY <1>2, <2>1 DEF ChainFits, Cover
<1>14. Counted'
  BY <1>2, <1>6, <1>8 DEF Counted
<1> QED
  BY <1>3, <1>9, <1>10, <1>11, <1>12, <1>13, <1>14 DEF FileInv

LEMMA LoadDisk ==
  ASSUME SessionInv, committed, NEW d \in Images, NEW n \in Sizes,
         Loadable(d, n), Load(d, n), UNCHANGED <<committed, durable>>
  PROVE  DiskInv'
<1>1. /\ ChainShape /\ Readable(d, bits, file) /\ Keeps(d) /\ Durable /\ FileInv
      /\ holders \in [PageIds -> Nat]
  BY ImageFacts DEF SessionInv, DiskInv, FileInv, Types, TypeOK
<1>2. /\ chain' = chain /\ file' = n /\ ChainPages' = ChainPages
      /\ \A p \in PageIds : bits'[p] = IF p < Cover(chain) THEN OnDisk(d, p) ELSE {}
      /\ \A i \in Indexes(chain) : d[chain[i + 1]] # ZeroImage
  BY LoadMaps
<1>3. /\ dirty' = {} /\ disk' = d
      /\ holders' = durable.holders /\ usage' = durable.usage /\ len' = durable.len
  BY DEF Load
<1>4. Cover(chain') = Cover(chain) /\ \A p : OnDisk(disk, p)' = OnDisk(d, p)
  BY <1>2, <1>3 DEF Cover, OnDisk
<1>5. ChainShape'
  BY <1>1, <1>2 DEF ChainShape
<1>6. Readable(disk, bits, file)'
  <2>1. WellWritten(disk)' /\ Untouched(disk)'
    BY <1>1, <1>2, <1>3 DEF Readable, WellWritten, Untouched, OnDisk
  <2>2. ASSUME NEW p \in PageIds, p < Cover(chain)
        PROVE  \/ OnDisk(d, p) \in {{}, Blocks}
               \/ holders'[p] = 0 /\ p < n /\ OnDisk(d, p) \subseteq bits'[p]
    <3>1. \/ OnDisk(d, p) \in {{}, Blocks}
          \/ holders[p] = 0 /\ p < file
      BY <1>1, <2>2 DEF Readable, Older
    <3>2. holders[p] = 0 => holders'[p] = 0
      BY <1>1, <1>3 DEF Durable
    <3>3. p \in Nat /\ file \in Nat /\ n \in Nat /\ file <= n
      <4>1. n \in Nat /\ file <= n
        BY <1>1, SizeRange
      <4>2. p \in Nat /\ file \in Nat
        BY <1>1, SetFacts DEF FileInv, Types, TypeOK
      <4> QED
        BY <4>1, <4>2
    <3>4. OnDisk(d, p) \subseteq bits'[p]
      BY <1>2, <2>2
    <3> QED
      BY <3>1, <3>2, <3>3, <3>4
  <2>3. Older(disk, bits, file)'
    BY <1>2, <1>3, <1>4, <2>2 DEF Older
  <2> QED
    BY <2>1, <2>3 DEF Readable
<1>7. Linked'
  <2>1. ASSUME NEW i \in Indexes(chain), i + 1 < Len(chain)
        PROVE  d[chain[i + 2]] # ZeroImage
    <3>1. i \in Nat /\ i + 1 \in Indexes(chain) /\ (i + 1) + 1 = i + 2
      BY <1>1, <2>1, ChainFacts DEF Indexes
    <3> QED
      BY <1>2, <3>1
  <2> QED
    BY <1>2, <1>3, <2>1 DEF Linked
<1>8. Keeps(disk)'
  BY <1>1, <1>2, <1>3, <1>4 DEF Keeps
<1>9. OwnedCovered'
  BY <1>1, <1>3, <1>4 DEF OwnedCovered, Keeps
<1>10. Dirtied'
  BY <1>2, <1>3, <1>4 DEF Dirtied
<1>11. Durable'
  <2>1. durable.holders \in [PageIds -> Nat]
    BY <1>1 DEF Durable
  <2>2. \A p \in PageIds : durable.holders[p] <= durable.holders[p]
    BY <2>1
  <2> QED
    BY <1>1, <1>3, <2>2 DEF Durable
<1> QED
  BY <1>5, <1>6, <1>7, <1>8, <1>9, <1>10, <1>11 DEF DiskInv

-----------------------------------------------------------------------------
(* The steps of a session, as the disk sees them.                            *)

(* Nothing is written; what changes is dirty afterwards.  The chain may gain a
   page, and only a caller that has a page takes bits of it away. *)
Gathers ==
  /\ disk' = disk /\ dirty \subseteq dirty'
  /\ \/ chain' = chain
     \/ \E n \in PageIds : /\ chain' = Append(chain, n)
                           /\ InfoOf(n) = Len(chain) /\ Len(chain) \in dirty'
  /\ \A p \in PageIds : bits'[p] # bits[p] => InfoOf(p) \in dirty'
  /\ \A p \in PageIds :
       p < file /\ holders[p] = 0 /\ bits[p] # {}
         => holders'[p] = 0 /\ bits[p] \subseteq bits'[p]
  /\ \A r \in Records : usage[r] \in {usage'[r], NoUsage}

(* The dirty info pages and those of the changed bits are written. *)
Writes ==
  /\ UNCHANGED <<chain, holders>> /\ dirty' = {}
  /\ \E ds \in SUBSET Indexes(chain) :
       /\ dirty \subseteq ds /\ disk' = Written(bits', ds)
       /\ \A p \in PageIds : bits'[p] # bits[p] => InfoOf(p) \in ds

StepSeen ==
  /\ Gathers \/ Writes
  /\ \A p \in PageIds : p < file /\ bits'[p] # {} => p < file'
  /\ call' \in {Hung, Broken} => UNCHANGED <<chain, holders, usage>>

LEMMA QuietSeen ==
  ASSUME UNCHANGED <<file, chain, bits, dirty, disk, holders, usage>>
  PROVE  StepSeen
BY DEF StepSeen, Gathers

(* The chain a settled file has. *)
LEMMA SettledSeen ==
  ASSUME FileInv, ChainShape, call \notin {Hung, Broken},
         NEW n \in {file, file + 1}, n <= MaxPages, Settled(n).ok
  PROVE  LET ch == Settled(n).chain IN
         /\ n <= Settled(n).file /\ Settled(n).file \in Nat
         /\ \/ ch = chain
            \/ \E m \in PageIds : /\ ch = Append(chain, m)
                                  /\ InfoOf(m) = Len(chain) /\ Len(chain) \in NewInfo(ch)
         /\ \A p \in PageIds :
              WithInfo(bits, ch)[p] # bits[p] =>
                InfoOf(p) \in NewInfo(ch) /\ WithInfo(bits, ch)[p] = Blocks
<1> DEFINE ch == Settled(n).chain
<1>1. /\ Types /\ ChainFits /\ OwnedAreUsed /\ chain \in Seq(PageIds)
      /\ file \in Nat /\ PerPage \in Nat \ {0} /\ 3 <= PerPage /\ n \in Nat
  <2>1. Types /\ ChainFits /\ OwnedAreUsed /\ chain \in Seq(PageIds)
    BY DEF FileInv, Types, TypeOK
  <2>2. file \in Nat /\ PerPage \in Nat \ {0} /\ 3 <= PerPage
    BY SetFacts, LayoutAssumption DEF FileInv, Types, TypeOK
  <2> QED
    BY <2>1, <2>2
<1>2. Len(chain) \in Nat \ {0} /\ Cover(chain) = PerPage * Len(chain)
  BY ChainFacts DEF Cover
<1>3. \A p \in ChainPages : bits[p] = Blocks
  BY <1>1, CoverFacts DEF OwnedAreUsed
<1>4. \/ /\ Settled(n) = [ok |-> TRUE, file |-> n, chain |-> chain]
      \/ /\ Settled(n) = [ok |-> TRUE, file |-> n + 1, chain |-> Append(chain, n)]
         /\ n \in PageIds /\ n \in {Cover(chain), Cover(chain) + 1}
  BY <1>1, SettledCases
<1>5. CASE Settled(n) = [ok |-> TRUE, file |-> n, chain |-> chain]
  <2>1. ch = chain /\ Settled(n).file = n
    BY <1>5
  <2>2. \A p \in PageIds : WithInfo(bits, chain)[p] = bits[p]
    BY <1>3 DEF WithInfo, ChainPages
  <2> HIDE DEF ch
  <2> QED
    BY <1>1, <2>1, <2>2 DEF ch
<1>6. CASE /\ Settled(n) = [ok |-> TRUE, file |-> n + 1, chain |-> Append(chain, n)]
           /\ n \in PageIds /\ n \in {Cover(chain), Cover(chain) + 1}
  <2>1. ch = Append(chain, n) /\ Settled(n).file = n + 1
    BY <1>6
  <2> HIDE DEF ch
  <2>2. /\ Len(ch) = Len(chain) + 1
        /\ {ch[i] : i \in DOMAIN ch} = ChainPages \cup {n}
    BY <1>1, <1>6, <2>1, ChainGrown
  <2>3. InfoOf(n) = Len(chain)
    <3>1. CASE n = Cover(chain)
      <4>1. n = PerPage * Len(chain) + 0 /\ 0 \in 0 .. PerPage - 1
        BY <1>1, <1>2, <3>1
      <4> QED
        BY <1>2, <4>1, PlaceFacts
    <3>2. CASE n = Cover(chain) + 1
      <4>1. n = PerPage * Len(chain) + 1 /\ 1 \in 0 .. PerPage - 1
        BY <1>1, <1>2, <3>2
      <4> QED
        BY <1>2, <4>1, PlaceFacts
    <3> QED
      BY <1>6, <3>1, <3>2
  <2>4. Len(chain) \in NewInfo(ch)
    BY <1>2, <2>2 DEF NewInfo
  <2>5. ASSUME NEW p \in PageIds, WithInfo(bits, ch)[p] # bits[p]
        PROVE  InfoOf(p) \in NewInfo(ch) /\ WithInfo(bits, ch)[p] = Blocks
    <3>1. \E i \in DOMAIN ch : ch[i] = p
      BY <2>5 DEF WithInfo
    <3>2. p \in ChainPages \cup {n} /\ WithInfo(bits, ch)[p] = Blocks
      BY <2>2, <3>1 DEF WithInfo
    <3>3. p = n
      BY <1>3, <2>5, <3>2
    <3> QED
      BY <2>3, <2>4, <3>2, <3>3
  <2>6. n <= n + 1 /\ n + 1 \in Nat
    BY <1>1
  <2> QED
    BY <1>6, <2>1, <2>3, <2>4, <2>5, <2>6 DEF ch
<1> QED
  BY <1>4, <1>5, <1>6

LEMMA GivePageSeen ==
  ASSUME FileInv, ChainShape, call = Idle,
         NEW n \in {file, file + 1}, n <= MaxPages,
         NEW id \in PageIds, bits[id] = {} \/ id >= file, NEW h, GivePage(id, n, h)
  PROVE  StepSeen
<1>1. call \notin {Hung, Broken} /\ file \in Nat /\ bits \in [PageIds -> SUBSET Blocks]
      /\ holders \in [PageIds -> Nat]
  BY ModeFacts, SetFacts DEF FileInv, Types, TypeOK
<1>2. CASE ~Settled(n).ok
  <2>1. UNCHANGED <<chain, bits, dirty, disk, holders, usage>> /\ file' = n
    BY <1>2 DEF GivePage, Stop, Settled
  <2>2. Gathers
    BY <2>1 DEF Gathers
  <2>3. \A p \in PageIds : p < file => p < file'
    BY <1>1, <2>1, SetFacts
  <2> QED
    BY <2>1, <2>2, <2>3 DEF StepSeen
<1>3. CASE Settled(n).ok
  <2> DEFINE ch == Settled(n).chain
             b == WithInfo(bits, ch)
  <2>1. /\ file' = Settled(n).file /\ chain' = ch /\ bits' = [b EXCEPT ![id] = Blocks]
        /\ dirty' = dirty \cup NewInfo(ch) \cup {InfoOf(id)}
        /\ holders' = [holders EXCEPT ![id] = @ + 1]
        /\ UNCHANGED <<disk, call, usage>>
    BY <1>3 DEF GivePage
  <2>2. /\ n <= file' /\ file' \in Nat
        /\ \/ ch = chain
           \/ \E m \in PageIds : /\ ch = Append(chain, m)
                                 /\ InfoOf(m) = Len(chain) /\ Len(chain) \in NewInfo(ch)
        /\ \A p \in PageIds : b[p] # bits[p] => InfoOf(p) \in NewInfo(ch) /\ b[p] = Blocks
    BY <1>1, <1>3, <2>1, SettledSeen
  <2>3. DOMAIN b = PageIds
    BY DEF WithInfo
  <2> HIDE DEF b, ch
  <2>4. \A p \in PageIds : bits'[p] # bits[p] => InfoOf(p) \in dirty'
    BY <2>1, <2>2, <2>3
  <2>5. ASSUME NEW p \in PageIds, p < file, holders[p] = 0, bits[p] # {}
        PROVE  holders'[p] = 0 /\ bits[p] \subseteq bits'[p]
    <3>1. p \in Nat /\ p # id
      BY <1>1, <2>5, SetFacts
    <3>2. bits'[p] = b[p] /\ holders'[p] = 0
      BY <1>1, <2>1, <2>3, <2>5, <3>1
    <3>3. bits[p] \subseteq b[p]
      BY <1>1, <2>2
    <3> QED
      BY <3>2, <3>3
  <2>6. Gathers
    BY <2>1, <2>2, <2>4, <2>5 DEF Gathers
  <2>7. \A p \in PageIds : p < file => p < file'
    <3>1. file <= file' /\ file' \in Nat
      BY <1>1, <2>2
    <3> QED
      BY <1>1, <3>1, SetFacts
  <2>8. call' \notin {Hung, Broken}
    BY <1>1, <2>1
  <2> QED
    BY <2>6, <2>7, <2>8 DEF StepSeen
<1> QED
  BY <1>2, <1>3

LEMMA AcquirePageSeen ==
  ASSUME FileInv, ChainShape, AcquirePage PROVE StepSeen
<1>1. /\ file \in Nat /\ file # 0 /\ file <= MaxPages /\ MaxPages \in Nat
      /\ lastAcquired \in Nat
  BY SetFacts DEF FileInv, Types, TypeOK
<1>2. CASE PageByWitness
  <2> DEFINE id == GetWitness(PageSize)
  <2>1. call = Idle /\ id \in PageIds /\ GivePage(id, file, Moved(hist, id, PageSize, 0))
    BY <1>2 DEF PageByWitness
  <2>2. bits[id] = {}
    BY <2>1, WholePageWitness
  <2> HIDE DEF id
  <2> QED
    BY <1>1, <2>1, <2>2, GivePageSeen
<1>3. CASE PageByScan
  <2>1. CASE EmptyPages(file) = {}
    BY <1>3, <2>1, QuietSeen DEF PageByScan, Stop
  <2>2. CASE EmptyPages(file) # {}
    <3> DEFINE id == NextFrom(EmptyPages(file), file)
    <3>1. call = Idle /\ GivePage(id, file, Moved(hist, id, PageSize, 0))
      BY <1>3, <2>2 DEF PageByScan
    <3>2. EmptyPages(file) \in SUBSET Nat
      BY <1>1 DEF EmptyPages
    <3>3. id \in EmptyPages(file)
      BY <1>1, <2>2, <3>2, NextFromIn
    <3> HIDE DEF id
    <3>4. id \in 0 .. file - 1 /\ bits[id] = {}
      BY <3>3 DEF EmptyPages
    <3>5. id \in PageIds
      BY <1>1, <3>4 DEF PageIds
    <3> QED
      BY <1>1, <3>1, <3>4, <3>5, GivePageSeen
  <2> QED
    BY <2>1, <2>2
<1>4. CASE PageByGrowth
  <2>1. call = Idle /\ file < MaxPages /\ GivePage(file, file + 1, hist)
    BY <1>4 DEF PageByGrowth
  <2>2. file \in PageIds /\ file >= file /\ file + 1 <= MaxPages
    BY <1>1, <2>1 DEF PageIds
  <2> QED
    BY <2>1, <2>2, GivePageSeen
<1> QED
  BY <1>2, <1>3, <1>4 DEF AcquirePage

(* removeEmptyPages cuts no page off that has a bit set. *)
LEMMA CutSeen ==
  ASSUME FileInv, NEW b \in [PageIds -> SUBSET Blocks],
         file' = file - Cardinality(EmptyTail(b, file)),
         NEW p \in PageIds, p < file, b[p] # {}
  PROVE  p < file'
<1>1. file \in 0 .. MaxPages /\ p \in 0 .. file - 1 /\ file \in Nat
  BY SetFacts DEF FileInv, Types, TypeOK
<1> DEFINE tail == EmptyTail(b, file)
<1>2. /\ Cardinality(tail) \in 0 .. file
      /\ p \in tail <=> p >= file - Cardinality(tail)
      /\ p \in tail => b[p] = {}
  BY <1>1, TailFacts
<1> HIDE DEF tail
<1>3. ~(p >= file - Cardinality(tail))
  BY <1>2
<1>4. p < file - Cardinality(tail)
  BY <1>1, <1>2, <1>3
<1> QED
  BY <1>4 DEF tail

LEMMA ReleasePageSeen ==
  ASSUME FileInv, NEW id \in PageIds, ReleasePage(id) PROVE StepSeen
<1> DEFINE b == [bits EXCEPT ![id] = {}]
<1>1. /\ call = Idle /\ holders[id] > 0 /\ holders' = [holders EXCEPT ![id] = @ - 1]
      /\ bits' = b /\ dirty' = dirty \cup {InfoOf(id)}
      /\ file' = file - Cardinality(EmptyTail(b, file))
      /\ UNCHANGED <<chain, disk, call, usage>>
  BY DEF ReleasePage
<1>2. /\ bits \in [PageIds -> SUBSET Blocks] /\ holders \in [PageIds -> Nat]
      /\ b \in [PageIds -> SUBSET Blocks]
  BY DEF FileInv, Types, TypeOK
<1>3. \A p \in PageIds : p < file /\ bits'[p] # {} => p < file'
  <2> HIDE DEF b
  <2> QED
    BY <1>1, <1>2, CutSeen
<1>4. \A p \in PageIds : holders[p] = 0 => p # id
  BY <1>1, <1>2
<1>5. Gathers
  BY <1>1, <1>2, <1>4 DEF Gathers
<1>6. call' \notin {Hung, Broken}
  BY <1>1, ModeFacts
<1> QED
  BY <1>3, <1>5, <1>6 DEF StepSeen

LEMMA ChunkByGrowthSeen ==
  ASSUME FileInv, ChainShape, ChunkByGrowth PROVE StepSeen
<1> DEFINE n == file + 1
           s == Settled(n)
           b == WithInfo(bits, s.chain)
<1>1. /\ InRecord
      /\ IF file = MaxPages
         THEN UNCHANGED <<file, chain, bits, dirty, disk, holders, usage>>
         ELSE /\ file' = s.file
              /\ IF s.ok /\ FreeBytes(b[file]) >= Least(call.left, PageSize)
                 THEN /\ chain' = s.chain
                      /\ bits' = b
                      /\ dirty' = dirty \cup NewInfo(s.chain)
                      /\ call' = NextChunk(file, PageSize)
                      /\ UNCHANGED <<disk, holders, usage>>
                 ELSE Stop(IF s.ok THEN Broken ELSE Hung)
  BY DEF ChunkByGrowth
<1>2. /\ call \notin {Hung, Broken} /\ file \in Nat /\ MaxPages \in Nat /\ file <= MaxPages
      /\ bits \in [PageIds -> SUBSET Blocks] /\ call \in RecordCalls
  <2>1. call \notin {Hung, Broken}
    BY <1>1, ModeFacts
  <2>2. /\ file \in Nat /\ MaxPages \in Nat /\ file <= MaxPages
        /\ bits \in [PageIds -> SUBSET Blocks]
    BY SetFacts DEF FileInv, Types, TypeOK
  <2>3. call \in {Idle, Hung, Broken} \cup RecordCalls
    BY DEF FileInv, Types
  <2> QED
    BY <1>1, <2>1, <2>2, <2>3, ModeFacts
<1>3. CASE file = MaxPages
  BY <1>1, <1>3, QuietSeen
<1>4. CASE file # MaxPages
  <2>1. n \in {file, file + 1} /\ n <= MaxPages /\ n \in Nat /\ file <= n
    BY <1>2, <1>4
  <2>2. n <= s.file /\ s.file \in Nat
    <3>1. \/ s = [ok |-> TRUE, file |-> n, chain |-> chain]
          \/ s = [ok |-> TRUE, file |-> n + 1, chain |-> Append(chain, n)]
          \/ s = [ok |-> FALSE, file |-> n, chain |-> chain]
      BY DEF Settled
    <3>2. s.file \in {n, n + 1}
      <4> HIDE DEF s
      <4> QED
        BY <3>1
    <3> HIDE DEF s, n
    <3> QED
      BY <2>1, <3>2
  <2>3. \A p \in PageIds : p < file => p < file'
    <3>1. file <= file' /\ file' \in Nat
      <4> HIDE DEF s, n, b
      <4> QED
        BY <1>1, <1>2, <1>4, <2>1, <2>2
    <3> QED
      BY <1>2, <3>1, SetFacts
  <2>4. CASE ~(s.ok /\ FreeBytes(b[file]) >= Least(call.left, PageSize))
    <3>1. UNCHANGED <<chain, bits, dirty, disk, holders, usage>>
      BY <1>1, <1>4, <2>4 DEF Stop
    <3>2. Gathers
      BY <3>1 DEF Gathers
    <3> QED
      BY <2>3, <3>1, <3>2 DEF StepSeen
  <2>5. CASE s.ok /\ FreeBytes(b[file]) >= Least(call.left, PageSize)
    <3>1. /\ chain' = s.chain /\ bits' = b /\ dirty' = dirty \cup NewInfo(s.chain)
          /\ call' = NextChunk(file, PageSize) /\ UNCHANGED <<disk, holders, usage>>
      BY <1>1, <1>4, <2>5
    <3>2. /\ \/ s.chain = chain
             \/ \E m \in PageIds : /\ s.chain = Append(chain, m)
                                   /\ InfoOf(m) = Len(chain)
                                   /\ Len(chain) \in NewInfo(s.chain)
          /\ \A p \in PageIds :
               b[p] # bits[p] => InfoOf(p) \in NewInfo(s.chain) /\ b[p] = Blocks
      BY <1>2, <2>1, <2>5, SettledSeen
    <3> HIDE DEF s, b
    <3>3. \A p \in PageIds : bits[p] \subseteq bits'[p]
      BY <1>2, <3>1, <3>2
    <3>4. Gathers
      BY <3>1, <3>2, <3>3 DEF Gathers
    <3>5. call' \notin {Hung, Broken}
      <4>1. call'.mode = "record"
        BY <1>2, <3>1 DEF NextChunk, RecordCalls
      <4> QED
        BY <4>1, Modes
    <3> QED
      BY <2>3, <3>4, <3>5 DEF StepSeen
  <2> QED
    BY <2>4, <2>5
<1> QED
  BY <1>3, <1>4

LEMMA FinishSeen ==
  ASSUME FileInv, RecordsClear, FinishRecord PROVE StepSeen
<1>1. /\ InRecord /\ bits' = [p \in PageIds |-> bits[p] \cup call.usage[p]]
      /\ dirty' = dirty \cup {InfoOf(p) : p \in {q \in PageIds : call.usage[q] # {}}}
      /\ usage' = [usage EXCEPT ![call.rec] = call.usage]
      /\ call' = Idle /\ UNCHANGED <<file, chain, disk, holders>>
  BY DEF FinishRecord
<1>2. usage[call.rec] = NoUsage /\ usage \in [Records -> [PageIds -> SUBSET Blocks]]
      /\ bits \in [PageIds -> SUBSET Blocks]
  BY <1>1 DEF RecordsClear, FileInv, Types, TypeOK
<1>3. \A r \in Records : usage[r] \in {usage'[r], NoUsage}
  BY <1>1, <1>2
<1>4. ASSUME NEW p \in PageIds, bits'[p] # bits[p] PROVE InfoOf(p) \in dirty'
  <2>1. call.usage[p] # {}
    BY <1>1, <1>4
  <2> QED
    BY <1>1, <2>1
<1>5. \A p \in PageIds : bits[p] \subseteq bits'[p]
  BY <1>1
<1>6. Gathers
  BY <1>1, <1>3, <1>4, <1>5 DEF Gathers
<1>7. call' \notin {Hung, Broken}
  BY <1>1, ModeFacts
<1> QED
  BY <1>1, <1>6, <1>7 DEF StepSeen

LEMMA DropSeen ==
  ASSUME FileInv, NEW r \in Records, DropRecord(r), UNCHANGED <<chain, holders>>,
         call' \notin {Hung, Broken}
  PROVE  StepSeen
<1> DEFINE b  == [p \in PageIds |-> bits[p] \ usage[r][p]]
           ps == {p \in PageIds : usage[r][p] # {}}
           ds == dirty \cup {InfoOf(p) : p \in ps}
<1>1. /\ call = Idle /\ bits' = b /\ disk' = Written(b, ds) /\ dirty' = {}
      /\ file' = file - Cardinality(EmptyTail(b, file))
  BY DEF DropRecord
<1>2. /\ dirty \subseteq Indexes(chain) /\ OwnedAreUsed
      /\ bits \in [PageIds -> SUBSET Blocks]
  BY DEF FileInv, Types, TypeOK, Indexes
<1>3. b \in [PageIds -> SUBSET Blocks]
  BY <1>2
<1>4. \A p \in ps : InfoOf(p) \in Indexes(chain)
  <2>1. call \notin {Hung, Broken}
    BY <1>1, ModeFacts
  <2> QED
    BY <1>2, <2>1, InfoOfPage DEF OwnedAreUsed, Indexes
<1>5. ASSUME NEW p \in PageIds, b[p] # bits[p] PROVE InfoOf(p) \in ds
  <2>1. p \in ps
    BY <1>2, <1>5
  <2> QED
    BY <2>1
<1>6. dirty \subseteq ds /\ ds \in SUBSET Indexes(chain)
  BY <1>2, <1>4
<1> HIDE DEF ds, b
<1>7. Writes
  BY <1>1, <1>5, <1>6 DEF Writes
<1>8. \A p \in PageIds : p < file /\ bits'[p] # {} => p < file'
  BY <1>1, <1>3, CutSeen
<1> QED
  BY <1>7, <1>8 DEF StepSeen

LEMMA NextSeen ==
  ASSUME FileInv, SinglePage, ChainShape, RecordsClear, [Next]_vars PROVE StepSeen
<1>1. CASE AcquirePage
  BY <1>1, AcquirePageSeen
<1>2. ASSUME NEW p \in PageIds, ReleasePage(p) PROVE StepSeen
  BY <1>2, ReleasePageSeen
<1>3. ASSUME NEW r \in Records, NEW l \in Lengths, StartRecord(r, l) PROVE StepSeen
  BY <1>3, QuietSeen DEF StartRecord
<1>4. CASE ChunkByWitness \/ ChunkByScan
  BY <1>4, QuietSeen DEF ChunkByWitness, ChunkByScan
<1>5. CASE ChunkByGrowth
  BY <1>5, ChunkByGrowthSeen
<1>6. CASE FinishRecord
  BY <1>6, FinishSeen
<1>7. ASSUME NEW r \in Records, ReleaseRecord(r) PROVE StepSeen
  <2>1. DropRecord(r) /\ call = Idle /\ UNCHANGED <<chain, call, holders>>
    BY <1>7 DEF ReleaseRecord, DropRecord
  <2> QED
    BY <2>1, ModeFacts, DropSeen
<1>8. ASSUME NEW r \in Records, NEW l \in Lengths, ReacquireRecord(r, l) PROVE StepSeen
  <2>1. DropRecord(r) /\ call' = Begin(r, l, file') /\ UNCHANGED <<chain, holders>>
    BY <1>8 DEF ReacquireRecord
  <2>2. call'.mode = "record"
    BY <2>1 DEF Begin
  <2>3. call' \notin {Hung, Broken}
    BY <2>2, Modes
  <2> QED
    BY <2>1, <2>3, DropSeen
<1>9. CASE Commit
  <2>1. /\ call' = Idle /\ dirty' = {} /\ disk' = Written(bits', dirty)
        /\ UNCHANGED <<file, chain, bits, holders, usage>>
    BY <1>9 DEF Commit
  <2>2. dirty \in SUBSET Indexes(chain)
    BY DEF FileInv, Types, TypeOK, Indexes
  <2>3. Writes
    BY <2>1, <2>2 DEF Writes
  <2>4. call' \notin {Hung, Broken}
    BY <2>1, ModeFacts
  <2> QED
    BY <2>1, <2>3, <2>4 DEF StepSeen
<1>10. CASE UNCHANGED vars
  BY <1>10, QuietSeen DEF vars
<1> QED
  BY <1>1, <1>2, <1>3, <1>4, <1>5, <1>6, <1>7, <1>8, <1>9, <1>10 DEF Next

-----------------------------------------------------------------------------
(* A step that gathers changes.                                              *)

LEMMA CoverDiv ==
  ASSUME NEW p \in Nat, NEW k \in Nat
  PROVE  p < PerPage * k <=> InfoOf(p) \in 0 .. k - 1
<1>1. PerPage \in Nat \ {0} /\ InfoOf(p) \in Nat /\ p < PerPage * InfoOf(p) + PerPage
  BY SetFacts, DivFacts DEF InfoOf
<1>2. p < PerPage * k => InfoOf(p) \in 0 .. k - 1
  BY InfoOfFacts
<1>3. ASSUME InfoOf(p) \in 0 .. k - 1 PROVE p < PerPage * k
  <2> DEFINE q == InfoOf(p)
  <2>1. q \in Nat /\ q + 1 <= k /\ q + 1 \in Nat
    BY <1>1, <1>3
  <2>2. p < PerPage * q + PerPage
    BY <1>1
  <2> HIDE DEF q
  <2>3. PerPage * (q + 1) <= PerPage * k
    BY <1>1, <2>1, TimesMonotone
  <2>4. PerPage * (q + 1) = PerPage * q + PerPage /\ PerPage * q + PerPage \in Nat
        /\ PerPage * k \in Nat
    BY <1>1, <2>1
  <2> QED
    BY <2>2, <2>3, <2>4
<1> QED
  BY <1>2, <1>3

LEMMA GatheredChain ==
  ASSUME ChainShape, Gathers
  PROVE  /\ ChainShape'
         /\ \A i \in Indexes(chain) : i \in Indexes(chain') /\ chain'[i + 1] = chain[i + 1]
         /\ \A i \in Indexes(chain') :
              i \notin Indexes(chain) =>
                /\ i = Len(chain) /\ i \in dirty'
                /\ chain'[i + 1] \in PageIds \ ChainPages
         /\ ChainPages \subseteq ChainPages'
         /\ Len(chain') \in {Len(chain), Len(chain) + 1}
<1>1. /\ chain \in Seq(PageIds) /\ chain # <<>> /\ chain[1] = InfoPage
      /\ Len(chain) \in Nat \ {0} /\ DOMAIN chain = 1 .. Len(chain)
      /\ \A i \in Indexes(chain) :
           /\ i \in Nat /\ i + 1 \in DOMAIN chain
           /\ chain[i + 1] \in PageIds /\ InfoOf(chain[i + 1]) = i
  BY ChainFacts DEF ChainShape
<1>2. CASE chain' = chain
  BY <1>1, <1>2 DEF ChainShape, ChainPages
<1>3. ASSUME NEW n \in PageIds, chain' = Append(chain, n), InfoOf(n) = Len(chain),
             Len(chain) \in dirty'
      PROVE  /\ ChainShape'
             /\ \A i \in Indexes(chain) :
                  i \in Indexes(chain') /\ chain'[i + 1] = chain[i + 1]
             /\ \A i \in Indexes(chain') :
                  i \notin Indexes(chain) =>
                    /\ i = Len(chain) /\ i \in dirty'
                    /\ chain'[i + 1] \in PageIds \ ChainPages
             /\ ChainPages \subseteq ChainPages'
             /\ Len(chain') \in {Len(chain), Len(chain) + 1}
  <2> DEFINE k == Len(chain)
             ch == chain'
  <2>1. /\ ch \in Seq(PageIds) /\ Len(ch) = k + 1 /\ ch # <<>> /\ DOMAIN ch = 1 .. k + 1
        /\ \A i \in 1 .. k : ch[i] = chain[i]
        /\ ch[k + 1] = n
    BY <1>1, <1>3
  <2>2. k \in Nat \ {0} /\ Indexes(ch) = 0 .. k /\ Indexes(chain) = 0 .. k - 1
    BY <1>1, <2>1 DEF Indexes
  <2>3. DOMAIN chain = 1 .. k
    BY <1>1
  <2> HIDE DEF k, ch
  <2>4. ch[1] = InfoPage
    BY <1>1, <2>1, <2>2
  <2>5. \A i \in Indexes(chain) : i \in Indexes(ch) /\ ch[i + 1] = chain[i + 1]
    BY <2>1, <2>2
  <2>6. \A i \in Indexes(ch) : i \notin Indexes(chain) => i = k
    BY <2>2
  <2>7. n \notin ChainPages
    <3>1. ASSUME NEW j \in 1 .. k PROVE chain[j] # n
      <4>1. j - 1 \in Indexes(chain) /\ (j - 1) + 1 = j /\ j - 1 # k
        BY <2>2
      <4>2. InfoOf(chain[(j - 1) + 1]) = j - 1
        BY <1>1, <4>1
      <4>3. InfoOf(n) = k
        BY <1>3 DEF k
      <4> QED
        BY <4>1, <4>2, <4>3
    <3> QED
      BY <2>3, <3>1 DEF ChainPages
  <2>8. \A i \in Indexes(ch) : InfoOf(ch[i + 1]) = i
    <3>1. ASSUME NEW i \in Indexes(ch) PROVE InfoOf(ch[i + 1]) = i
      <4>1. CASE i \in Indexes(chain)
        BY <1>1, <2>5, <4>1
      <4>2. CASE i \notin Indexes(chain)
        <5>1. i = k /\ InfoOf(n) = k
          BY <1>3, <2>6, <4>2 DEF k
        <5> QED
          BY <2>1, <5>1
      <4> QED
        BY <4>1, <4>2
    <3> QED
      BY <3>1
  <2>9. ChainShape'
    BY <2>1, <2>4, <2>8 DEF ChainShape, ch
  <2>10. ChainPages \subseteq ChainPages'
    BY <2>1, <2>2, <2>3 DEF ChainPages, ch
  <2>11. \A i \in Indexes(ch) :
           i \notin Indexes(chain) =>
             i = k /\ i \in dirty' /\ ch[i + 1] \in PageIds \ ChainPages
    <3>1. k \in dirty'
      BY <1>3 DEF k
    <3> QED
      BY <2>1, <2>6, <2>7, <3>1
  <2> QED
    BY <2>1, <2>5, <2>9, <2>10, <2>11 DEF ch, k
<1> QED
  BY <1>2, <1>3 DEF Gathers

(* What the disk says of the pages described before stays, and of the others it
   says nothing. *)
LEMMA GatheredDisk ==
  ASSUME ChainShape, Untouched(disk), Gathers, NEW p \in PageIds
  PROVE  /\ p < Cover(chain) => p < Cover(chain') /\ OnDisk(disk, p)' = OnDisk(disk, p)
         /\ p < Cover(chain') /\ ~(p < Cover(chain)) =>
              InfoOf(p) = Len(chain) /\ InfoOf(p) \in dirty' /\ OnDisk(disk, p)' = {}
<1>1. /\ \A i \in Indexes(chain) : i \in Indexes(chain') /\ chain'[i + 1] = chain[i + 1]
      /\ \A i \in Indexes(chain') :
           i \notin Indexes(chain) =>
             /\ i = Len(chain) /\ i \in dirty'
             /\ chain'[i + 1] \in PageIds \ ChainPages
      /\ Len(chain) \in Nat /\ Len(chain') \in Nat /\ disk' = disk
  <2>1. Len(chain) \in Nat /\ Len(chain') \in {Len(chain), Len(chain) + 1}
    BY ChainFacts, GatheredChain
  <2> QED
    BY <2>1, GatheredChain DEF Gathers
<1>2. /\ p < Cover(chain) <=> InfoOf(p) \in Indexes(chain)
      /\ p < Cover(chain') <=> InfoOf(p) \in Indexes(chain')
      /\ p \in Nat
  <2>1. p \in Nat
    BY SetFacts
  <2> QED
    BY <1>1, <2>1, CoverDiv DEF Cover, Indexes
<1>3. OnDisk(disk, p)' = disk[chain'[InfoOf(p) + 1]].data[p % PerPage]
  BY <1>1 DEF OnDisk
<1>4. ASSUME p < Cover(chain)
      PROVE  p < Cover(chain') /\ OnDisk(disk, p)' = OnDisk(disk, p)
  <2>1. chain'[InfoOf(p) + 1] = chain[InfoOf(p) + 1] /\ InfoOf(p) \in Indexes(chain')
    BY <1>1, <1>2, <1>4
  <2> QED
    BY <1>2, <1>3, <2>1 DEF OnDisk
<1>5. ASSUME p < Cover(chain'), ~(p < Cover(chain))
      PROVE  InfoOf(p) = Len(chain) /\ InfoOf(p) \in dirty' /\ OnDisk(disk, p)' = {}
  <2>1. /\ InfoOf(p) = Len(chain) /\ InfoOf(p) \in dirty'
        /\ chain'[InfoOf(p) + 1] \in PageIds \ ChainPages
    BY <1>1, <1>2, <1>5
  <2>2. disk[chain'[InfoOf(p) + 1]] = ZeroImage
    BY <2>1 DEF Untouched
  <2>3. p % PerPage \in 0 .. PerPage - 1
    BY <1>2, PlaceOf
  <2> QED
    BY <1>3, <2>1, <2>2, <2>3 DEF ZeroImage
<1> QED
  BY <1>4, <1>5

LEMMA GatheredReadable ==
  ASSUME FileInv, FileInv', ChainShape, Readable(disk, bits, file), Gathers,
         \A p \in PageIds : p < file /\ bits'[p] # {} => p < file'
  PROVE  Readable(disk, bits, file)'
<1>1. /\ WellWritten(disk) /\ Untouched(disk) /\ Older(disk, bits, file)
      /\ disk' = disk
      /\ \A i \in Indexes(chain) : i \in Indexes(chain') /\ chain'[i + 1] = chain[i + 1]
      /\ \A i \in Indexes(chain') :
           i \notin Indexes(chain) =>
             i = Len(chain) /\ chain'[i + 1] \in PageIds \ ChainPages
      /\ ChainPages \subseteq ChainPages'
      /\ Len(chain) \in Nat \ {0} /\ Len(chain') \in {Len(chain), Len(chain) + 1}
  BY GatheredChain, ChainFacts DEF Readable, Gathers
<1>2. ASSUME NEW i \in Indexes(chain')
      PROVE  \/ disk[chain'[i + 1]] = ZeroImage /\ i # 0
             \/ /\ disk[chain'[i + 1]].next \in {NoId, NextOf(chain', i)}
                /\ OnDisk(disk, chain[i + 1])' = Blocks
  <2>1. CASE i \in Indexes(chain)
    <3> PICK q : q = chain[i + 1]
      OBVIOUS
    <3>1. q \in PageIds /\ q < Cover(chain) /\ chain'[i + 1] = q
      <4>1. q \in ChainPages
        BY <2>1, ChainFacts DEF ChainPages
      <4> QED
        BY <1>1, <2>1, <4>1, CoverFacts
    <3>2. \/ disk[q] = ZeroImage /\ i # 0
          \/ disk[q].next \in {NoId, NextOf(chain, i)} /\ OnDisk(disk, q) = Blocks
      BY <1>1, <2>1 DEF WellWritten
    <3>3. OnDisk(disk, q)' = OnDisk(disk, q)
      BY <1>1, <3>1, GatheredDisk
    <3>4. NextOf(chain, i) \in {NoId, NextOf(chain', i)}
      <4>1. i \in Nat /\ (i + 1 < Len(chain) => i + 1 < Len(chain') /\ i + 1 \in Indexes(chain))
        BY <1>1, <2>1 DEF Indexes
      <4>2. i + 1 < Len(chain) => chain'[i + 2] = chain[i + 2]
        BY <1>1, <4>1
      <4> QED
        BY <4>1, <4>2 DEF NextOf
    <3>5. OnDisk(disk, chain[i + 1])' = OnDisk(disk, q)'
      BY <3>1 DEF OnDisk
    <3> QED
      BY <3>1, <3>2, <3>3, <3>4, <3>5
  <2>2. CASE i \notin Indexes(chain)
    BY <1>1, <2>2 DEF Untouched
  <2> QED
    BY <2>1, <2>2
<1>3. WellWritten(disk)'
  BY <1>1, <1>2 DEF WellWritten
<1>4. Untouched(disk)'
  BY <1>1 DEF Untouched
<1>5. ASSUME NEW p \in PageIds, p < Cover(chain')
      PROVE  \/ OnDisk(disk, p)' \in {{}, Blocks}
             \/ holders'[p] = 0 /\ p < file' /\ OnDisk(disk, p)' \subseteq bits'[p]
  <2>1. CASE p < Cover(chain) /\ OnDisk(disk, p) \notin {{}, Blocks}
    <3>1. holders[p] = 0 /\ p < file /\ OnDisk(disk, p) \subseteq bits[p]
      BY <1>1, <2>1 DEF Older
    <3>2. bits[p] # {}
      BY <2>1, <3>1
    <3>3. holders'[p] = 0 /\ bits[p] \subseteq bits'[p]
      BY <3>1, <3>2 DEF Gathers
    <3>4. p < file'
      BY <3>1, <3>2, <3>3
    <3>5. OnDisk(disk, p)' = OnDisk(disk, p)
      BY <1>1, <2>1, GatheredDisk
    <3> QED
      BY <3>1, <3>3, <3>4, <3>5
  <2>2. CASE p < Cover(chain) /\ OnDisk(disk, p) \in {{}, Blocks}
    BY <1>1, <2>2, GatheredDisk
  <2>3. CASE ~(p < Cover(chain))
    BY <1>1, <1>5, <2>3, GatheredDisk
  <2> QED
    BY <2>1, <2>2, <2>3
<1>6. Older(disk, bits, file)'
  BY <1>5 DEF Older
<1> QED
  BY <1>3, <1>4, <1>6 DEF Readable

LEMMA GatheredRest ==
  ASSUME ChainShape, Readable(disk, bits, file), Linked, Dirtied, Gathers
  PROVE  Linked' /\ Dirtied'
<1>1. /\ Untouched(disk) /\ WellWritten(disk) /\ disk' = disk /\ dirty \subseteq dirty'
      /\ \A i \in Indexes(chain) : i \in Indexes(chain') /\ chain'[i + 1] = chain[i + 1]
      /\ \A i \in Indexes(chain') :
           i \notin Indexes(chain) =>
             i = Len(chain) /\ i \in dirty' /\ chain'[i + 1] \in PageIds \ ChainPages
      /\ Len(chain) \in Nat \ {0} /\ Len(chain') \in {Len(chain), Len(chain) + 1}
  BY GatheredChain, ChainFacts DEF Readable, Gathers
<1>2. ASSUME NEW i \in Indexes(chain'), i + 1 < Len(chain'),
             disk[chain'[i + 1]].next = chain'[i + 2]
      PROVE  disk[chain'[i + 2]] # ZeroImage
  <2>1. i \in Nat /\ i + 1 \in Indexes(chain') /\ (i + 1) + 1 = i + 2
        /\ i \in Indexes(chain)
    BY <1>1, <1>2 DEF Indexes
  <2>2. CASE i + 1 \in Indexes(chain)
    <3>1. i + 1 < Len(chain) /\ chain'[i + 1] = chain[i + 1] /\ chain'[i + 2] = chain[i + 2]
      <4>1. i + 1 < Len(chain)
        BY <1>1, <2>2 DEF Indexes
      <4>2. chain'[(i + 1) + 1] = chain[(i + 1) + 1]
        BY <1>1, <2>2
      <4> QED
        BY <1>1, <2>1, <4>1, <4>2
    <3> QED
      BY <1>2, <2>1, <3>1 DEF Linked
  <2>3. CASE i + 1 \notin Indexes(chain)
    <3>1. i + 1 = Len(chain) /\ chain'[i + 2] \in PageIds \ ChainPages
      BY <1>1, <2>1, <2>3
    <3>2. NextOf(chain, i) = NoId /\ chain'[i + 2] # NoId
      <4>1. ~(i + 1 < Len(chain))
        BY <1>1, <3>1
      <4>2. chain'[i + 2] # NoId
        BY <3>1, SetFacts
      <4> QED
        BY <4>1, <4>2 DEF NextOf
    <3>3. disk[chain[i + 1]].next # NoId
      BY <1>1, <1>2, <2>1, <3>2
    <3>4. disk[chain[i + 1]] = ZeroImage
      BY <1>1, <2>1, <3>2, <3>3 DEF WellWritten
    <3>5. chain'[i + 2] = 0
      BY <1>1, <1>2, <2>1, <3>4 DEF ZeroImage
    <3>6. 0 \in PageIds \ ChainPages /\ InfoOf(0) = 0
      BY <3>1, <3>5, SetFacts DEF InfoOf
    <3>7. InfoOf(chain'[(i + 1) + 1]) = i + 1
      <4>1. ChainShape'
        BY GatheredChain
      <4> QED
        BY <2>1, <4>1 DEF ChainShape
    <3> QED
      BY <2>1, <3>5, <3>6, <3>7
  <2> QED
    BY <2>2, <2>3
<1>3. Linked'
  BY <1>1, <1>2 DEF Linked
<1>4. \A i \in Indexes(chain') : disk[chain'[i + 1]] = ZeroImage => i \in dirty'
  BY <1>1 DEF Dirtied
<1>5. ASSUME NEW p \in PageIds, p < Cover(chain'), InfoOf(p) \notin dirty'
      PROVE  OnDisk(disk, p)' = bits'[p]
  <2>1. p < Cover(chain) /\ OnDisk(disk, p)' = OnDisk(disk, p)
    BY <1>1, <1>5, GatheredDisk
  <2>2. bits'[p] = bits[p] /\ InfoOf(p) \notin dirty
    BY <1>1, <1>5 DEF Gathers
  <2> QED
    BY <2>1, <2>2 DEF Dirtied
<1> QED
  BY <1>1, <1>3, <1>4, <1>5 DEF Dirtied

-----------------------------------------------------------------------------
(* A step that writes, and every step.                                       *)

LEMMA WritesDisk ==
  ASSUME FileInv, FileInv', ChainShape, Readable(disk, bits, file), Linked, Dirtied,
         Writes, \A p \in PageIds : p < file /\ bits'[p] # {} => p < file'
  PROVE  ChainShape' /\ Readable(disk, bits, file)' /\ Linked' /\ Dirtied'
<1>1. PICK ds \in SUBSET Indexes(chain) :
        /\ dirty \subseteq ds /\ disk' = Written(bits', ds)
        /\ \A p \in PageIds : bits'[p] # bits[p] => InfoOf(p) \in ds
  BY DEF Writes
<1>2. /\ chain' = chain /\ holders' = holders /\ dirty' = {}
      /\ ChainPages' = ChainPages /\ Cover(chain') = Cover(chain)
      /\ \A p : OnDisk(disk, p)' = OnDisk(disk', p)
  BY DEF Writes, ChainPages, OnDisk
<1>3. file \in Nat /\ file' \in Nat
  BY SetFacts DEF FileInv, Types, TypeOK
<1>4. \A p \in ChainPages : bits'[p] = Blocks
  <2>1. OwnedAreUsed'
    BY DEF FileInv
  <2> QED
    BY <1>2, <2>1, CoverFacts DEF OwnedAreUsed
<1>5. \A p \in PageIds : bits'[p] \in {{}, Blocks} \/ (holders[p] = 0 /\ p < file')
  <2>1. ASSUME NEW p \in PageIds, bits'[p] \notin {{}, Blocks}
        PROVE  holders[p] = 0 /\ p < file'
    <3>1. OwnedAreUsed' /\ Lost' /\ holders' \in [PageIds -> Nat]
      BY DEF FileInv, Types, TypeOK
    <3>2. ~(holders'[p] > 0) /\ holders'[p] \in Nat
      BY <2>1, <3>1 DEF OwnedAreUsed
    <3>3. ~(p >= file') /\ p \in Nat
      BY <2>1, <3>1, SetFacts DEF Lost
    <3> QED
      BY <1>2, <1>3, <3>2, <3>3
  <2> QED
    BY <2>1
<1>6. Readable(Written(bits', ds), bits', file')
  <2>1. \A p \in PageIds : InfoOf(p) \notin ds => bits'[p] = bits[p]
    BY <1>1
  <2> PICK b : b = bits'
    OBVIOUS
  <2> PICK n : n = file'
    OBVIOUS
  <2>2. /\ \A p \in ChainPages : b[p] = Blocks
        /\ \A p \in PageIds : p < file /\ b[p] # {} => p < n
        /\ \A p \in PageIds : b[p] \in {{}, Blocks} \/ (holders[p] = 0 /\ p < n)
        /\ \A p \in PageIds : InfoOf(p) \notin ds => b[p] = bits[p]
        /\ n \in Nat
    BY <1>3, <1>4, <1>5, <2>1
  <2>3. Readable(Written(b, ds), b, n)
    BY <1>1, <1>3, <2>2, WrittenReadable
  <2> QED
    BY <2>3
<1>7. Readable(disk, bits, file)'
  <2>1. Readable(disk', bits', file')
    BY <1>1, <1>6
  <2> QED
    BY <1>2, <2>1 DEF Readable, WellWritten, Untouched, Older
<1>8. ASSUME NEW i \in Indexes(chain)
      PROVE  /\ disk'[chain[i + 1]] # ZeroImage <=> i \in ds \/ disk[chain[i + 1]] # ZeroImage
             /\ disk[chain[i + 1]] = ZeroImage => i \in ds
             /\ i \notin ds => disk'[chain[i + 1]] = disk[chain[i + 1]]
  <2>1. i \in ds => disk'[chain[i + 1]] # ZeroImage
    <3> PICK b : b = bits'
      OBVIOUS
    <3>1. \A p \in ChainPages : b[p] = Blocks
      BY <1>4
    <3>2. i \in ds => Written(b, ds)[chain[i + 1]] # ZeroImage
      BY <1>1, <3>1, WrittenMarks
    <3> QED
      BY <1>1, <3>2
  <2>2. i \notin ds => disk'[chain[i + 1]] = disk[chain[i + 1]]
    <3> PICK b : b = bits'
      OBVIOUS
    <3>1. Written(b, ds)[chain[i + 1]] =
            IF i \in ds THEN [next |-> NextOf(chain, i), data |-> DataOf(b, i)]
            ELSE disk[chain[i + 1]]
      BY <1>1, WrittenAt
    <3>2. disk' = Written(b, ds)
      BY <1>1
    <3> QED
      BY <3>1, <3>2
  <2>3. disk[chain[i + 1]] = ZeroImage => i \in ds
    BY <1>1 DEF Dirtied
  <2> QED
    BY <2>1, <2>2, <2>3
<1>9. \A i \in Indexes(chain) : disk'[chain[i + 1]] # ZeroImage
  BY <1>8
<1>10. Linked'
  <2>1. ASSUME NEW i \in Indexes(chain), i + 1 < Len(chain)
        PROVE  disk'[chain[i + 2]] # ZeroImage
    <3>1. i + 1 \in Indexes(chain) /\ (i + 1) + 1 = i + 2
      BY <2>1, ChainFacts DEF Indexes
    <3> QED
      BY <1>9, <3>1
  <2> QED
    BY <1>2, <2>1 DEF Linked
<1>11. ASSUME NEW p \in PageIds, p < Cover(chain)
       PROVE  OnDisk(disk', p) = bits'[p]
  <2> PICK b : b = bits'
    OBVIOUS
  <2>1. OnDisk(Written(b, ds), p) = IF InfoOf(p) \in ds THEN b[p] ELSE OnDisk(disk, p)
    BY <1>1, <1>11, OnDiskWritten
  <2>2. OnDisk(disk', p) = IF InfoOf(p) \in ds THEN b[p] ELSE OnDisk(disk, p)
    BY <1>1, <2>1
  <2>3. InfoOf(p) \notin ds => OnDisk(disk, p) = bits[p] /\ bits'[p] = bits[p]
    BY <1>1, <1>11 DEF Dirtied
  <2> QED
    BY <2>2, <2>3
<1>12. Dirtied'
  BY <1>2, <1>9, <1>11 DEF Dirtied
<1>13. ChainShape'
  BY <1>2 DEF ChainShape
<1> QED
  BY <1>7, <1>10, <1>12, <1>13

LEMMA SeenDisk ==
  ASSUME FileInv, FileInv', DiskInv, StepSeen
  PROVE  ChainShape' /\ Readable(disk, bits, file)' /\ Linked' /\ Dirtied'
<1>1. /\ ChainShape /\ Readable(disk, bits, file) /\ Linked /\ Dirtied
      /\ \A p \in PageIds : p < file /\ bits'[p] # {} => p < file'
  BY DEF DiskInv, StepSeen
<1>2. CASE Gathers
  <2>1. Readable(disk, bits, file)'
    BY <1>1, <1>2, GatheredReadable
  <2>2. Linked' /\ Dirtied'
    BY <1>1, <1>2, GatheredRest
  <2>3. ChainShape'
    BY <1>1, <1>2, GatheredChain
  <2> QED
    BY <2>1, <2>2, <2>3
<1>3. CASE Writes
  BY <1>1, <1>3, WritesDisk
<1> QED
  BY <1>2, <1>3 DEF StepSeen

LEMMA SeenCovered ==
  ASSUME FileInv', DiskInv, StepSeen, ChainShape'
  PROVE  OwnedCovered'
<1>1. CASE call' \in {Hung, Broken}
  <2>1. UNCHANGED <<chain, holders, usage>>
    BY <1>1 DEF StepSeen
  <2>2. OwnedCovered /\ Cover(chain') = Cover(chain)
    BY <2>1 DEF DiskInv
  <2> QED
    BY <2>1, <2>2 DEF OwnedCovered
<1>2. CASE call' \notin {Hung, Broken}
  <2>1. file' <= Cover(chain') /\ OwnedAreUsed'
    BY <1>2 DEF FileInv, ChainFits
  <2>2. file' \in Nat /\ holders' \in [PageIds -> Nat] /\ PageIds \subseteq Nat
    BY SetFacts DEF FileInv, Types, TypeOK
  <2>3. Cover(chain') \in Nat
    <3>1. Len(chain') \in Nat
      BY DEF ChainShape
    <3> QED
      BY <3>1, SetFacts DEF Cover
  <2>4. ASSUME NEW p \in PageIds, p < file' PROVE p < Cover(chain')
    BY <2>1, <2>2, <2>3, <2>4
  <2>5. ASSUME NEW p \in PageIds, holders'[p] # 0 PROVE p < Cover(chain')
    <3>1. holders'[p] > 0
      BY <2>2, <2>5
    <3> QED
      BY <2>1, <2>4, <3>1 DEF OwnedAreUsed
  <2>6. ASSUME NEW r \in Records, NEW p \in PageIds, usage'[r][p] # {}
        PROVE  p < Cover(chain')
    BY <2>1, <2>4, <2>6 DEF OwnedAreUsed
  <2> QED
    BY <2>5, <2>6 DEF OwnedCovered
<1> QED
  BY <1>1, <1>2

LEMMA SeenKeeps ==
  ASSUME FileInv', DiskInv, RecordsClear', StepSeen,
         ChainShape', Dirtied', OwnedCovered',
         durable' = IF dirty' = {} THEN Owners' ELSE StillHeld(durable, Owners'),
         committed' = (committed \/ dirty' = {})
  PROVE  Keeps(disk)'
<1>1. CASE dirty' = {}
  <2>1. /\ durable' = Owners' /\ OwnedAreUsed' /\ holders' \in [PageIds -> Nat]
        /\ usage' \in [Records -> [PageIds -> SUBSET Blocks]]
    BY <1>1 DEF FileInv, Types, TypeOK
  <2>2. durable'.holders = holders' /\ durable'.usage = usage'
    BY <2>1 DEF Owners
  <2>3. \A p \in PageIds : p < Cover(chain') => OnDisk(disk, p)' = bits'[p]
    BY <1>1 DEF Dirtied
  <2>4. ASSUME NEW p \in PageIds, holders'[p] # 0
        PROVE  p < Cover(chain') /\ OnDisk(disk, p)' = Blocks
    <3>1. holders'[p] > 0
      BY <2>1, <2>4
    <3> QED
      BY <2>1, <2>3, <2>4, <3>1 DEF OwnedAreUsed, OwnedCovered
  <2>5. ASSUME NEW r \in Records, NEW p \in PageIds, usage'[r][p] # {}
        PROVE  p < Cover(chain') /\ usage'[r][p] \subseteq OnDisk(disk, p)'
    BY <2>1, <2>3, <2>5 DEF OwnedAreUsed, OwnedCovered
  <2>6. ASSUME NEW p \in System PROVE OnDisk(disk, p)' = Blocks
    <3>1. p \in PageIds /\ bits'[p] = Blocks
      BY <2>1, SetFacts DEF OwnedAreUsed
    <3>2. p < Cover(chain')
      <4>1. Len(chain') \in Nat \ {0}
        BY DEF ChainShape
      <4>2. p \in Nat /\ p < PerPage /\ PerPage \in Nat \ {0}
        BY SetFacts, LayoutAssumption DEF System
      <4>3. InfoOf(p) = 0 /\ 0 \in 0 .. Len(chain') - 1
        BY <4>1, <4>2 DEF InfoOf
      <4>4. p < PerPage * Len(chain')
        BY <4>1, <4>2, <4>3, CoverDiv
      <4> QED
        BY <4>4 DEF Cover
    <3> QED
      BY <2>3, <3>1, <3>2
  <2> QED
    BY <2>2, <2>4, <2>5, <2>6 DEF Keeps
<1>2. CASE dirty' # {}
  <2>1. durable' = StillHeld(durable, Owners')
    BY <1>2
  <2>2. committed' => committed
    BY <1>2
  <2>3. Gathers
    BY <1>2 DEF StepSeen, Writes
  <2>4. /\ ChainShape /\ Untouched(disk) /\ Keeps(disk) /\ Durable
        /\ holders' \in [PageIds -> Nat]
    BY DEF DiskInv, Readable, FileInv, Types, TypeOK
  <2>5. /\ \A p \in PageIds : durable'.holders[p] = Least(durable.holders[p], holders'[p])
        /\ \A r \in Records : durable'.usage[r] \in {NoUsage, durable.usage[r]}
    BY <2>1 DEF StillHeld, Owners
  <2>6. ASSUME NEW p \in PageIds, p < Cover(chain)
        PROVE  p < Cover(chain') /\ OnDisk(disk, p)' = OnDisk(disk, p)
    BY <2>3, <2>4, <2>6, GatheredDisk
  <2>7. ASSUME NEW p \in PageIds, durable'.holders[p] # 0
        PROVE  p < Cover(chain') /\ OnDisk(disk, p)' = Blocks
    <3>1. durable.holders[p] \in Nat /\ holders'[p] \in Nat
      BY <2>4 DEF Durable
    <3>2. durable.holders[p] # 0
      BY <2>5, <2>7, <3>1 DEF Least
    <3>3. p < Cover(chain) /\ OnDisk(disk, p) = Blocks
      BY <2>4, <3>2 DEF Keeps
    <3> QED
      BY <2>6, <3>3
  <2>8. ASSUME NEW r \in Records, NEW p \in PageIds, durable'.usage[r][p] # {}
        PROVE  p < Cover(chain') /\ durable'.usage[r][p] \subseteq OnDisk(disk, p)'
    <3>1. durable'.usage[r] # NoUsage
      BY <2>8 DEF NoUsage
    <3>2. durable'.usage[r] = durable.usage[r]
      BY <2>5, <3>1
    <3>3. p < Cover(chain) /\ durable.usage[r][p] \subseteq OnDisk(disk, p)
      BY <2>4, <2>8, <3>2 DEF Keeps
    <3> QED
      BY <2>6, <3>2, <3>3
  <2>9. ASSUME committed', NEW p \in System PROVE OnDisk(disk, p)' = Blocks
    <3>1. OnDisk(disk, p) = Blocks
      BY <2>2, <2>4, <2>9 DEF Keeps
    <3>2. p \in PageIds /\ p < Cover(chain)
      BY <2>4, CoverFacts
    <3> QED
      BY <2>6, <3>1, <3>2
  <2> QED
    BY <2>7, <2>8, <2>9 DEF Keeps
<1> QED
  BY <1>1, <1>2

LEMMA SeenDurable ==
  ASSUME FileInv', DiskInv, RecordsClear', StepSeen,
         durable' = IF dirty' = {} THEN Owners' ELSE StillHeld(durable, Owners')
  PROVE  Durable'
<1>1. /\ holders' \in [PageIds -> Nat]
      /\ usage' \in [Records -> [PageIds -> SUBSET Blocks]]
      /\ len' \in [Records -> Nat]
      /\ \A r \in Records : len'[r] = 0 => usage'[r] = NoUsage
  BY DEF FileInv, Types, TypeOK, RecordsClear
<1>2. CASE dirty' = {}
  <2>1. durable'.holders = holders' /\ durable'.usage = usage' /\ durable'.len = len'
    BY <1>2 DEF Owners
  <2>2. \A p \in PageIds : holders'[p] <= holders'[p]
    BY <1>1
  <2> QED
    BY <1>1, <2>1, <2>2 DEF Durable
<1>3. CASE dirty' # {}
  <2>1. durable' = StillHeld(durable, Owners')
    BY <1>3
  <2>2. Gathers /\ Durable
    BY <1>3 DEF StepSeen, Writes, DiskInv
  <2>3. /\ durable'.holders =
             [p \in PageIds |-> Least(durable.holders[p], holders'[p])]
        /\ durable'.usage =
             [r \in Records |-> IF len'[r] = 0 THEN NoUsage ELSE durable.usage[r]]
        /\ durable'.len =
             [r \in Records |-> IF len'[r] = 0 THEN 0 ELSE durable.len[r]]
    BY <2>1 DEF StillHeld, Owners
  <2>4. ASSUME NEW p \in PageIds
        PROVE  /\ Least(durable.holders[p], holders'[p]) \in Nat
               /\ Least(durable.holders[p], holders'[p]) <= holders'[p]
    <3>1. durable.holders[p] \in Nat /\ holders'[p] \in Nat
      BY <1>1, <2>2 DEF Durable
    <3> QED
      BY <3>1 DEF Least
  <2>5. durable'.holders \in [PageIds -> Nat]
    BY <2>3, <2>4
  <2>6. \A p \in PageIds : durable'.holders[p] <= holders'[p]
    BY <2>3, <2>4
  <2>7. NoUsage \in [PageIds -> SUBSET Blocks]
    BY DEF NoUsage
  <2>8. durable'.usage \in [Records -> [PageIds -> SUBSET Blocks]]
    BY <2>2, <2>3, <2>7 DEF Durable
  <2>9. durable'.len \in [Records -> Nat]
    BY <2>2, <2>3 DEF Durable
  <2>10. ASSUME NEW r \in Records
         PROVE  /\ durable'.usage[r] \in {NoUsage, usage'[r]}
                /\ durable'.len[r] = 0 => durable'.usage[r] = NoUsage
    <3>1. usage[r] \in {usage'[r], NoUsage}
      BY <2>2 DEF Gathers
    <3>2. /\ durable.usage[r] \in {NoUsage, usage[r]}
          /\ durable.len[r] = 0 => durable.usage[r] = NoUsage
      BY <2>2 DEF Durable
    <3> QED
      BY <2>3, <3>1, <3>2
  <2> QED
    BY <2>5, <2>6, <2>8, <2>9, <2>10 DEF Durable
<1> QED
  BY <1>2, <1>3

LEMMA StepDisk ==
  ASSUME FileInv, FileInv', RecordsClear', DiskInv, StepSeen,
         durable' = IF dirty' = {} THEN Owners' ELSE StillHeld(durable, Owners'),
         committed' = (committed \/ dirty' = {})
  PROVE  DiskInv'
<1>1. ChainShape' /\ Readable(disk, bits, file)' /\ Linked' /\ Dirtied'
  BY SeenDisk
<1>2. OwnedCovered'
  BY <1>1, SeenCovered
<1>3. Keeps(disk)'
  BY <1>1, <1>2, SeenKeeps
<1>4. Durable'
  BY SeenDurable
<1> QED
  BY <1>1, <1>2, <1>3, <1>4 DEF DiskInv

-----------------------------------------------------------------------------
(* The invariant of the sessions.                                            *)

LEMMA InitSession == ReopenInit => SessionInv
<1> SUFFICES ASSUME ReopenInit PROVE SessionInv
  OBVIOUS
<1>1. /\ Init /\ committed = FALSE /\ durable = Owners
      /\ FileInv /\ Counted /\ RecordsClear /\ ChainShape
  <2>1. Init /\ committed = FALSE /\ durable = Owners
    BY DEF ReopenInit
  <2> QED
    BY <2>1, InitInv, InitTidy, InitClear, InitImage DEF Tidy, ImageTrue
<1>2. /\ chain = <<InfoPage>> /\ Len(chain) = 1 /\ Indexes(chain) = {0}
      /\ file = MinPages /\ dirty = {0} /\ InfoPage \in PageIds
      /\ chain[0 + 1] = InfoPage /\ ChainPages = {InfoPage}
  BY <1>1, SetFacts DEF Init, Indexes, ChainPages
<1>3. /\ disk[InfoPage].next = NoId
      /\ disk[InfoPage].data =
           [o \in 0 .. PerPage - 1 |-> IF o = InfoPage THEN Blocks ELSE {}]
      /\ \A p \in PageIds : p # InfoPage => disk[p] = ZeroImage
      /\ \A p \in PageIds : holders[p] = 0 /\ \A r \in Records : usage[r][p] = {}
  BY <1>1, <1>2 DEF Init, NoUsage
<1>4. ASSUME NEW p \in PageIds, p < Cover(chain)
      PROVE  InfoOf(p) = 0 /\ OnDisk(disk, p) = IF p = InfoPage THEN Blocks ELSE {}
  <2>1. InfoOf(p) \in Indexes(chain) /\ p \in Nat
    BY <1>1, <1>4, CoverFacts, SetFacts
  <2>2. InfoOf(p) = 0
    BY <1>2, <2>1
  <2>3. p % PerPage \in 0 .. PerPage - 1 /\ p % PerPage = p
    <3>1. p % PerPage \in 0 .. PerPage - 1 /\ PerPage * 0 + (p % PerPage) = p
      BY <2>1, <2>2, PlaceOf
    <3> QED
      BY <3>1, SetFacts
  <2>4. OnDisk(disk, p) = disk[InfoPage].data[p]
    BY <1>2, <2>2, <2>3 DEF OnDisk
  <2>5. p \in 0 .. PerPage - 1
    BY <2>3
  <2> QED
    BY <1>3, <2>2, <2>4, <2>5
<1>5. Readable(disk, bits, file)
  <2>1. InfoPage < Cover(chain)
    BY <1>1, <1>2, CoverFacts
  <2>2. WellWritten(disk)
    <3>1. OnDisk(disk, chain[0 + 1]) = Blocks
      BY <1>2, <1>4, <2>1
    <3> QED
      BY <1>2, <1>3, <3>1 DEF WellWritten
  <2>3. Untouched(disk)
    BY <1>2, <1>3 DEF Untouched
  <2>4. Older(disk, bits, file)
    BY <1>4 DEF Older
  <2> QED
    BY <2>2, <2>3, <2>4 DEF Readable
<1>6. Linked
  BY <1>2 DEF Linked
<1>7. durable.holders = holders /\ durable.usage = usage /\ durable.len = len
  BY <1>1 DEF Owners
<1>8. Keeps(disk)
  BY <1>1, <1>3, <1>7 DEF Keeps
<1>9. OwnedCovered
  BY <1>3 DEF OwnedCovered
<1>10. Dirtied
  BY <1>2, <1>4 DEF Dirtied
<1>11. Durable
  <2>1. /\ holders \in [PageIds -> Nat] /\ len \in [Records -> Nat]
        /\ usage \in [Records -> [PageIds -> SUBSET Blocks]]
    BY <1>1 DEF FileInv, Types, TypeOK
  <2>2. \A p \in PageIds : holders[p] <= holders[p]
    BY <2>1
  <2> QED
    BY <1>1, <1>7, <2>1, <2>2 DEF Durable, RecordsClear
<1> QED
  BY <1>1, <1>5, <1>6, <1>8, <1>9, <1>10, <1>11 DEF SessionInv, DiskInv

LEMMA QuietSession ==
  ASSUME SessionInv, UNCHANGED <<vars, committed, durable>> PROVE SessionInv'
<1>1. /\ UNCHANGED <<file, chain, bits, dirty, disk, hist, lastAcquired, call, holders>>
      /\ UNCHANGED <<usage, len, committed, durable>>
  BY DEF vars
<1>2. UNCHANGED <<ChainPages, InRecord>> /\ Cover(chain') = Cover(chain)
      /\ UNCHANGED TakenMap
  BY <1>1 DEF ChainPages, InRecord, TakenMap, Taken
<1>3. FileInv'
  <2>1. Types' /\ OwnersDisjoint' /\ OwnedAreUsed' /\ Lost'
    BY <1>1, <1>2 DEF SessionInv, FileInv, Types, TypeOK, OwnersDisjoint, OwnedAreUsed, Lost
  <2>2. WitnessTrue' /\ CallOK' /\ ChainFits'
    BY <1>1, <1>2 DEF SessionInv, FileInv, WitnessTrue, Valid, CallOK, ChainFits
  <2> QED
    BY <2>1, <2>2 DEF FileInv
<1>4. Counted' /\ RecordsClear'
  BY <1>1, <1>2 DEF SessionInv, Counted, RecordsClear
<1>5. ChainShape' /\ Readable(disk, bits, file)' /\ Linked' /\ Dirtied'
  BY <1>1, <1>2 DEF SessionInv, DiskInv, ChainShape, Readable, WellWritten, Untouched,
     Older, OnDisk, Linked, Dirtied
<1>6. Keeps(disk)' /\ OwnedCovered' /\ Durable'
  BY <1>1, <1>2 DEF SessionInv, DiskInv, Keeps, OnDisk, OwnedCovered, Durable
<1> QED
  BY <1>3, <1>4, <1>5, <1>6 DEF SessionInv, DiskInv

LEMMA NextSession ==
  ASSUME SessionInv, SinglePage, FirstCommit, [ReopenNext]_<<vars, sessionVars>>
  PROVE  SessionInv'
<1>1. CASE SessionStep
  <2>1. /\ [Next]_vars
        /\ durable' = IF dirty' = {} THEN Owners' ELSE StillHeld(durable, Owners')
        /\ committed' = (committed \/ dirty' = {})
    BY <1>1 DEF SessionStep
  <2>2. FileInv /\ Counted /\ RecordsClear /\ DiskInv /\ ChainShape
    BY DEF SessionInv, DiskInv
  <2>3. FileInv'
    BY <2>1, <2>2, NextInv
  <2>4. Counted'
    BY <2>1, <2>2, <2>3, NextCounted DEF Kept
  <2>5. RecordsClear'
    BY <2>1, <2>2, NextClear
  <2>6. StepSeen
    BY <2>1, <2>2, NextSeen
  <2>7. DiskInv'
    BY <2>1, <2>2, <2>3, <2>5, <2>6, StepDisk
  <2> QED
    BY <2>3, <2>4, <2>5, <2>7 DEF SessionInv
<1>2. CASE Reopen
  <2>1. committed /\ UNCHANGED <<committed, durable>>
    BY <1>2 DEF Reopen
  <2>2. PICK d \in Images, n \in Sizes :
          IF Loadable(d, n) THEN Load(d, n)
          ELSE session' = "unopenable" /\ UNCHANGED vars
    BY <1>2 DEF Reopen
  <2>3. CASE Loadable(d, n)
    <3>1. Load(d, n)
      BY <2>2, <2>3
    <3> QED
      BY <2>1, <2>3, <3>1, LoadOwners, LoadFile, LoadDisk DEF SessionInv
  <2>4. CASE ~Loadable(d, n)
    BY <2>1, <2>2, <2>4, QuietSession
  <2> QED
    BY <2>3, <2>4
<1>3. CASE UNCHANGED <<vars, sessionVars>>
  BY <1>3, QuietSession DEF sessionVars
<1> QED
  BY <1>1, <1>2, <1>3 DEF ReopenNext

-----------------------------------------------------------------------------
(* The theorems.  Their hypotheses are that no record is longer than a page, *)
(* and that the process is not killed between createStructure and its first  *)
(* commit.                                                                   *)

(* SessionInv is an invariant of any number of sessions, each killed between
   any two of its writes. *)
THEOREM SessionInvariance ==
  ASSUME SinglePage, FirstCommit PROVE ReopenSpec => []SessionInv
<1>1. ReopenInit => SessionInv
  BY InitSession
<1>2. SessionInv /\ [ReopenNext]_<<vars, sessionVars>> => SessionInv'
  BY NextSession
<1> QED
  BY <1>1, <1>2, PTL DEF ReopenSpec

(* load() gives no block to two owners, and neither does the session after it:
   what was released since the last commit is free or still marked, never
   somebody else's. *)
THEOREM DisjointAfterKill ==
  ASSUME SinglePage, FirstCommit PROVE ReopenSpec => []OwnersDisjoint
<1>1. SessionInv => OwnersDisjoint
  BY DEF SessionInv, FileInv
<1> QED
  BY <1>1, SessionInvariance, PTL

(* What an owner had at the last commit and has not given back is marked in the
   bitmaps load() reads, and lies in the file it finds. *)
THEOREM MarkedAfterKill ==
  ASSUME SinglePage, FirstCommit PROVE ReopenSpec => []OwnedAreUsed
<1>1. SessionInv => OwnedAreUsed
  BY DEF SessionInv, FileInv
<1> QED
  BY <1>1, SessionInvariance, PTL

(* initHistogram rebuilds a histogram that agrees with the bitmaps it has read,
   and the steps of the session keep it so. *)
THEOREM HistogramAfterKill ==
  ASSUME SinglePage, FirstCommit PROVE ReopenSpec => []HistogramTrue
<1>1. SessionInv => HistogramTrue
  BY CountedMeans DEF SessionInv
<1> QED
  BY <1>1, SessionInvariance, PTL

(* The step of DamageOnlyFromTail. *)
LEMMA NextFromTail ==
  ASSUME SessionInv, [ReopenNext]_<<vars, sessionVars>>, call'.mode = "broken"
  PROVE  call.mode = "broken" \/ (InRecord /\ bits[file] # {})
<1>1. CASE SessionStep \/ UNCHANGED <<vars, sessionVars>>
  <2>1. [Next]_vars /\ FileInv /\ Counted
    BY <1>1 DEF SessionStep, SessionInv
  <2> QED
    BY <2>1, NextDamage
<1>2. CASE Reopen
  <2>1. call' = Idle \/ UNCHANGED vars
    BY <1>2 DEF Reopen, Load
  <2> QED
    BY <2>1, Modes DEF vars
<1> QED
  BY <1>1, <1>2 DEF ReopenNext

(* However a session began, acquirePage finds what the histogram counts, and
   reserveBlocks stays in a page unless the file grows into one that the disk
   still shows used from before the kill. *)
THEOREM DamageFromTail ==
  ASSUME SinglePage, FirstCommit PROVE ReopenSpec => DamageOnlyFromTail
<1>1. SessionInv /\ [ReopenNext]_<<vars, sessionVars>>
        => [call'.mode = "broken" =>
              call.mode = "broken" \/ (InRecord /\ bits[file] # {})]_<<vars, sessionVars>>
  BY NextFromTail
<1> QED
  BY <1>1, SessionInvariance, PTL DEF ReopenSpec, DamageOnlyFromTail

-----------------------------------------------------------------------------
(* The chain on disk.                                                        *)

(* It is the beginning of the chain in memory, as far as the links have been
   written. *)
LEMMA ReadsSome ==
  ASSUME ChainShape, NEW d, WellWritten(d),
         \A i \in Indexes(chain) :
           i + 1 < Len(chain) /\ d[chain[i + 1]].next = chain[i + 2]
             => d[chain[i + 2]] # ZeroImage
  PROVE  \E k : ReadsTo(d, k)
<1> DEFINE Bad == {i \in Indexes(chain) : \/ i + 1 = Len(chain)
                                          \/ d[chain[i + 1]].next # NextOf(chain, i)}
           f == [i \in Bad |-> i]
<1>1. Len(chain) \in Nat \ {0} /\ \A i \in Indexes(chain) : i \in Nat
  BY ChainFacts
<1>2. Bad # {}
  <2>1. Len(chain) - 1 \in Indexes(chain) /\ (Len(chain) - 1) + 1 = Len(chain)
    BY <1>1 DEF Indexes
  <2>2. Len(chain) - 1 \in Bad
    BY <2>1
  <2> QED
    BY <2>2
<1>3. f \in [Bad -> Nat]
  BY <1>1
<1>4. PICK i \in Bad : \A q \in Bad : f[i] <= f[q]
  <2> HIDE DEF f, Bad
  <2> QED
    BY <1>2, <1>3, LeastExists
<1>5. /\ i \in Indexes(chain) /\ i \in Nat
      /\ i + 1 = Len(chain) \/ d[chain[i + 1]].next # NextOf(chain, i)
  BY <1>1
<1>6. \A q \in Bad : i <= q
  <2>1. ASSUME NEW q \in Bad PROVE i <= q
    <3>1. f[i] <= f[q] /\ f[i] = i /\ f[q] = q
      <4>1. f[i] <= f[q]
        BY <1>4
      <4> HIDE DEF Bad
      <4> QED
        BY <4>1
    <3> HIDE DEF f, Bad
    <3> QED
      BY <3>1
  <2> HIDE DEF f, Bad
  <2> QED
    BY <2>1
<1>7. ASSUME NEW j \in 0 .. i - 1
      PROVE  /\ j \in Indexes(chain) /\ j + 1 < Len(chain)
             /\ d[chain[j + 1]].next = chain[j + 2]
  <2>1. j \in Indexes(chain) /\ j \in Nat /\ j + 1 < Len(chain) /\ ~(i <= j)
    BY <1>1, <1>5 DEF Indexes
  <2>2. j \notin Bad
    <3> HIDE DEF Bad
    <3> QED
      BY <1>6, <2>1
  <2>3. d[chain[j + 1]].next = NextOf(chain, j)
    BY <2>1, <2>2
  <2> QED
    BY <2>1, <2>3 DEF NextOf
<1> HIDE DEF Bad, f
<1>8. d[chain[i + 1]] = ZeroImage => i = 0
  <2>1. SUFFICES ASSUME i # 0 PROVE d[chain[i + 1]] # ZeroImage
    OBVIOUS
  <2>2. i - 1 \in 0 .. i - 1 /\ (i - 1) + 1 = i /\ (i - 1) + 2 = i + 1
    BY <1>5, <2>1
  <2>3. /\ i - 1 \in Indexes(chain) /\ (i - 1) + 1 < Len(chain)
        /\ d[chain[(i - 1) + 1]].next = chain[(i - 1) + 2]
    BY <1>7, <2>2
  <2>4. d[chain[(i - 1) + 2]] # ZeroImage
    BY <2>3
  <2> QED
    BY <2>2, <2>4
<1>9. d[chain[i + 1]].next \in {NoId, NextOf(chain, i)}
  BY <1>5, <1>8 DEF WellWritten
<1>10. d[chain[i + 1]].next = NoId
  BY <1>5, <1>9 DEF NextOf
<1>11. i + 1 \in 1 .. Len(chain)
  BY <1>1, <1>5 DEF Indexes
<1>12. ASSUME NEW m \in 1 .. (i + 1) - 1 PROVE d[chain[m]].next = chain[m + 1]
  <2>1. m - 1 \in 0 .. i - 1 /\ (m - 1) + 1 = m /\ (m - 1) + 2 = m + 1
    BY <1>5
  <2>2. d[chain[(m - 1) + 1]].next = chain[(m - 1) + 2]
    BY <1>7, <2>1
  <2> QED
    BY <2>1, <2>2
<1>13. ReadsTo(d, i + 1)
  BY <1>10, <1>11, <1>12 DEF ReadsTo
<1> QED
  BY <1>13

LEMMA PrefixGrows ==
  ASSUME ChainShape, NEW k \in 1 .. Len(chain), NEW m \in 1 .. Len(chain), k <= m
  PROVE  /\ Len(Prefix(m)) >= Len(Prefix(k))
         /\ SubSeq(Prefix(m), 1, Len(Prefix(k))) = Prefix(k)
<1>1. Len(Prefix(m)) = m /\ Len(Prefix(k)) = k /\ k \in Nat \ {0} /\ m \in Nat
  <2>1. Len(Prefix(m)) = m /\ Len(Prefix(k)) = k
    BY PrefixFacts
  <2>2. Len(chain) \in Nat
    BY ChainFacts
  <2> QED
    BY <2>1, <2>2
<1>2. \A i \in 1 .. k : Prefix(m)[i] = chain[i]
  BY <1>1 DEF Prefix
<1>3. SubSeq(Prefix(m), 1, k) = [i \in 1 .. k |-> Prefix(m)[i]]
  <2>1. Prefix(m) \in Seq(PageIds)
    BY PrefixFacts
  <2>2. SubSeq(Prefix(m), 1, k) = [i \in 1 .. (k - 1) + 1 |-> Prefix(m)[(i + 1) - 1]]
    BY <1>1, <2>1
  <2> QED
    BY <1>1, <2>2
<1>4. SubSeq(Prefix(m), 1, k) = Prefix(k)
  BY <1>2, <1>3 DEF Prefix
<1> QED
  BY <1>1, <1>4

(* The chain c is the beginning of e. *)
Begins(c, e) == Len(e) >= Len(c) /\ SubSeq(e, 1, Len(c)) = c

LEMMA WritesBegin ==
  ASSUME FileInv, FileInv', DiskInv, Writes,
         \A p \in PageIds : p < file /\ bits'[p] # {} => p < file'
  PROVE  Begins(ChainOn(disk), ChainOn(disk'))
<1>1. ChainShape /\ Readable(disk, bits, file) /\ Linked /\ Dirtied
  BY DEF DiskInv
<1>2. Readable(disk, bits, file)' /\ Linked' /\ chain' = chain /\ ChainPages' = ChainPages
  BY <1>1, WritesDisk DEF Writes, ChainPages
<1>3. PICK k : ReadsTo(disk, k)
  BY <1>1, ReadsSome DEF Readable, Linked
<1>4. PICK d : d = disk'
  OBVIOUS
<1>5. WellWritten(d)
  BY <1>2, <1>4 DEF Readable, WellWritten, OnDisk
<1>6. \A i \in Indexes(chain) :
        i + 1 < Len(chain) /\ d[chain[i + 1]].next = chain[i + 2]
          => d[chain[i + 2]] # ZeroImage
  BY <1>2, <1>4 DEF Linked
<1>7. PICK m : ReadsTo(d, m)
  BY <1>1, <1>5, <1>6, ReadsSome
<1>8. /\ k \in 1 .. Len(chain) /\ m \in 1 .. Len(chain) /\ Len(chain) \in Nat
      /\ \A j \in 1 .. k - 1 : disk[chain[j]].next = chain[j + 1]
      /\ d[chain[m]].next = NoId
  BY <1>1, <1>3, <1>7, ChainFacts DEF ReadsTo
<1>9. k <= m
  <2>1. SUFFICES ASSUME m < k PROVE FALSE
    BY <1>8
  <2>2. /\ m - 1 \in Indexes(chain) /\ (m - 1) + 1 = m /\ (m - 1) + 2 = m + 1
        /\ m \in 1 .. k - 1 /\ m \in Indexes(chain) /\ m < Len(chain)
    BY <1>8, <2>1 DEF Indexes
  <2>3. disk[chain[m]].next = chain[m + 1] /\ chain[m + 1] # NoId
    BY <1>1, <1>8, <2>2, ChainFacts, SetFacts
  <2>4. PICK ds \in SUBSET Indexes(chain) : disk' = Written(bits', ds)
    BY DEF Writes
  <2>5. PICK b : b = bits'
    OBVIOUS
  <2>6. Written(b, ds)[chain[(m - 1) + 1]] =
          IF m - 1 \in ds THEN [next |-> NextOf(chain, m - 1), data |-> DataOf(b, m - 1)]
          ELSE disk[chain[(m - 1) + 1]]
    BY <1>1, <2>2, WrittenAt
  <2>7. d = Written(b, ds)
    BY <1>4, <2>4, <2>5
  <2>8. NextOf(chain, m - 1) = chain[m + 1]
    BY <2>2 DEF NextOf
  <2>9. d[chain[m]].next = chain[m + 1]
    BY <2>2, <2>3, <2>6, <2>7, <2>8
  <2> QED
    BY <1>8, <2>3, <2>9
<1>10. ChainOn(disk) = Prefix(k) /\ ChainOn(d) = Prefix(m)
  BY <1>1, <1>3, <1>7, PrefixRead
<1> QED
  BY <1>1, <1>4, <1>8, <1>9, <1>10, PrefixGrows DEF Begins

LEMMA SameBegins ==
  ASSUME DiskInv PROVE Begins(ChainOn(disk), ChainOn(disk)) /\ Begins(ChainOn(disk), chain)
<1>1. ChainShape /\ WellWritten(disk) /\ Linked
  BY DEF DiskInv, Readable
<1>2. PICK k : ReadsTo(disk, k)
  BY <1>1, ReadsSome DEF Linked
<1>3. k \in 1 .. Len(chain) /\ Len(chain) \in Nat \ {0} /\ ChainOn(disk) = Prefix(k)
  BY <1>1, <1>2, ChainFacts, PrefixRead DEF ReadsTo
<1>4. Len(chain) \in 1 .. Len(chain) /\ k <= Len(chain) /\ k <= k
  BY <1>3
<1>5. Prefix(Len(chain)) = chain
  BY <1>1, <1>4, PrefixFacts
<1>6. Begins(Prefix(k), Prefix(k))
  BY <1>1, <1>3, <1>4, PrefixGrows DEF Begins
<1>7. Begins(Prefix(k), Prefix(Len(chain)))
  BY <1>1, <1>3, <1>4, PrefixGrows DEF Begins
<1> QED
  BY <1>3, <1>5, <1>6, <1>7

LEMMA NextBegins ==
  ASSUME SessionInv, SinglePage, FirstCommit, [ReopenNext]_<<vars, sessionVars>>
  PROVE  Begins(ChainOn(disk), ChainOn(disk'))
<1>1. FileInv /\ DiskInv /\ RecordsClear /\ ChainShape
  BY DEF SessionInv, DiskInv
<1>2. CASE disk' = disk
  BY <1>1, <1>2, SameBegins
<1>3. CASE SessionStep
  <2>1. [Next]_vars
    BY <1>3 DEF SessionStep
  <2>2. FileInv' /\ StepSeen
    BY <1>1, <2>1, NextInv, NextSeen
  <2>3. Gathers => disk' = disk
    BY DEF Gathers
  <2> QED
    BY <1>1, <1>2, <2>2, <2>3, WritesBegin DEF StepSeen
<1>4. CASE Reopen
  <2>1. PICK d \in Images, n \in Sizes :
          IF Loadable(d, n) THEN Load(d, n)
          ELSE session' = "unopenable" /\ UNCHANGED vars
    BY <1>4 DEF Reopen
  <2>2. CASE Loadable(d, n)
    <3>1. disk' = d /\ chain' = ChainOn(d) /\ Load(d, n)
      BY <2>1, <2>2 DEF Load
    <3>2. chain' = chain
      BY <2>2, <3>1, LoadMaps
    <3>3. ChainOn(disk') = chain
      BY <3>1, <3>2
    <3> QED
      BY <1>1, <3>3, SameBegins
  <2>3. CASE ~Loadable(d, n)
    BY <1>2, <2>1, <2>3 DEF vars
  <2> QED
    BY <2>2, <2>3
<1>5. CASE UNCHANGED <<vars, sessionVars>>
  BY <1>2, <1>5 DEF vars
<1> QED
  BY <1>3, <1>4, <1>5 DEF ReopenNext

(* The chain a load would find on disk never loses a page and never changes
   its order: freeSpaceInfoCommit writes an info page only with a link that is
   part of the chain. *)
THEOREM ChainGrowsOnly ==
  ASSUME SinglePage, FirstCommit PROVE ReopenSpec => ChainOnlyGrows
<1>1. SessionInv /\ [ReopenNext]_<<vars, sessionVars>> =>
        [session' = "open" =>
           /\ Len(ChainOn(disk')) >= Len(ChainOn(disk))
           /\ SubSeq(ChainOn(disk'), 1, Len(ChainOn(disk))) = ChainOn(disk)
        ]_<<vars, sessionVars>>
  BY NextBegins DEF Begins
<1> QED
  BY <1>1, SessionInvariance, PTL DEF ReopenSpec, ChainOnlyGrows

=============================================================================
