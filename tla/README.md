# Jello: a verification development

Jello is an embedded object database for Android. Objects are written to the
blocks of a paged file; a *space manager policy* decides which pages and blocks
are free; a B-tree per class maps object ids to the places of the objects; class
and schema lists live in linked list pages. Most of the logic below the object
API is C and C++ behind JNI.

This directory holds TLA+ modules for its parts, TLC configurations that check
them on small instances, and TLAPS proofs for all instances. Paths below are
those of the repository (`jni/...`, `src/com/atteo/jello/...`, `test/...`).

## 1. The system

| part | state | operations | works with |
|---|---|---|---|
| paged file, `jni/store/PagedFileNative.c`, `PagedFileRAF.java` | length, mapping, open and read-only flags | open, close, addPages, removePages, readPage, writePage, sync | everything that keeps pages |
| pages, `Page`, `HeaderPage`, `ListPage` | id and bytes, next id of a list | load and save of the header, getNext, setNext | paged file |
| space manager policy: `jni/space/Hybrid.c` (bound by default), `AppendOnly.c`, `NextFit.c` | bitmaps of the blocks in info pages, where to look next | acquirePage, releasePage, acquireRecord, releaseRecord, reacquireRecord, create, load, commit, setPageUsed | paged file; called by transactions, klass and schema managers, B-tree |
| helpers of policies: `SpaceManagerNative.c`, `NextFitHistogramNative.c`, `VanillaHistogram.java`, `AppendOnlyCacheNative.c` | bitmaps; counts and witnesses; a list of pages with their free space | update and search | `AppendOnly.c`, `NextFit.c` (Hybrid has copies) |
| records, `Record`, `PageUsage` | the pages and blocks of one object | setChunkUsed, clearUsage | policies, B-tree, pools |
| pools, `android/util/FinitePool` | a linked list and a count | acquire, release | application thread and finalizer thread |
| index, `jni/btree` | a B-tree of AVL-tree leaves, its list of pages | insert, find, update, remove, load, commit | policy (pages), transactions |
| klass manager, schema manager | a list each, and its pages | add, remove, load, commit | policy (pages) |
| transactions, `SimpleTransactionManager` | none | insert, find, update, delete | policy, index, klass and schema managers, paged file |
| lifecycle, `DatabaseFile`, `Jello` | which parts are open | open, createStructure, loadStructure, close | all |

Calls are synchronous and come from one application thread; only `finalize`
runs on another. The hard behaviours are therefore not interleavings of messages
but these:

- *long legal sequences*: the histogram, the bitmaps, the length of the file and
  the info chain are four descriptions of the same thing, each kept by
  differences on a path of its own;
- *boundaries*: the page that no info page describes yet, the full storage, the
  length that is a multiple of the block or the page;
- *crashes*: writes go to a mapped file and commits are a number of page writes,
  ordered by nobody; a change of the file's length takes effect at once;
- *reading one's own reservations*: `acquireRecord` takes blocks chunk by chunk
  and enters them in the bitmaps at the end.

What makes each part correct, in short: the paged file keeps what was written
and says when it cannot grow; a policy never gives a block out twice, never
loses one and finds what it committed; the histogram and the cache agree with
the bitmaps; the B-tree is a map; the lists come back from their pages; a
transaction leaves index, record and bitmaps in agreement, after a crash too; a
pooled object has one user.

`PROJECT.json` has the components, the hazards by line, and which properties
are aimed at each.

## 2. What is modelled

| module | what |
|---|---|
| `BlockAllocator` | what any policy promises: pages to callers, blocks to records, never the same twice, back exactly what was taken |
| `Hybrid` | `jni/space/Hybrid.c` in one session |
| `HybridReopen` | sessions of `Hybrid` on one file, with kills and `load()` between them; `MCHybridReopen` adds the symmetry of the records for TLC |
| `AppendOnlyCache` | `jni/space/AppendOnlyCacheNative.c` |
| `SpaceManager` | `jni/space/SpaceManagerNative.c`, as operators on the state of a space manager |
| `AppendOnly` | `jni/space/AppendOnly.c` with its space manager and its cache; implements `BlockAllocator` |
| `OrderedMap` | what an AVL tree promises: a set of ids and the neighbours of an id |
| `AVLTree` | `jni/btree/AVLTree.cpp`, pointer by pointer; implements `OrderedMap` |
| `BTree` | the other files of `jni/btree`: tree, leaves, nodes, page list, commit and load; its elements look entries up with `OrderedMap` |
| `Transactions` | `SimpleTransactionManager` over a policy, the managers and an index, in memory and in the file |
| `Hybrid_proofs`, `Hybrid_histogram`, `Hybrid_image` | theorems about `Hybrid`: ownership, the chain, and that it implements `BlockAllocator`; the histogram, the length of the file and the size of records; the image on disk |
| `HybridReopen_proofs` | theorems about `HybridReopen`: all of these properties that survive a kill |
| `AppendOnlyCache_proofs` | theorems about `AppendOnlyCache` |
| `AppendOnly_proofs` | theorems about `AppendOnly`, with records of any number of pages, and that it implements `BlockAllocator` |
| `Transactions_proofs` | theorems about `Transactions` with an index of one leaf |
| `Counting` | lemmas on division, least elements and the ranks in a set of numbers, for the proofs of both policies |

Definitions whose name ends in `_fault` are seeded faults: variants of the
definition they stand before, each a mistake the code could plausibly have (a
dropped update, an off-by-one). They are used by no specification. Every
property of a passing run is violated when the fault listed for it in
`PROJECT.json` takes the place of the original.

### Hybrid

State and code:

| variable | code |
|---|---|
| `file` | `pagedFile.getPageCount()` |
| `chain`, `dirty` | `freeSpaceInfo[i].pageId`, `.dirty` |
| `bits` | `freeSpaceInfo[i].data`, as the set of used blocks of every page |
| `hist` | `counts[]`, `witnesses[]` without class 0, which no search reads |
| `lastAcquired` | `lastAcquired` |
| `disk` | the info pages as they are in the file |
| `call` | the local variables of a running `acquireRecordNF`, with the blocks in its `Record` |
| `holders`, `usage`, `len` | the callers' side: who was given what and not yet gave it back |

One call is one step, except `acquireRecord`: `StartRecord`, then one step for
each turn of its loop (`ChunkByWitness`, `ChunkByScan`, `ChunkByGrowth`: the
three outcomes of `getWitness`), then `FinishRecord` (`setRecordUsed`). The
steps of one call are never interleaved with another call, as there is one
thread; they are apart because a kill may fall between them (`HybridReopen`) and
because each must keep histogram and bitmaps in step.

Two outcomes end a session in the model. `Hung`: `freeSpaceInfoUpdate`
needs an info page, `addPages` fails, and it calls itself again for ever
(`Hybrid.c:303-311`); the call has not come back and never does. `Broken`: a search
came back with page -1, or `reserveBlocks` has run past the bitmap of a page.
`NoHeapDamage` says that the second never happens in the first session of a file with
records of at most a page; what a kill leaves behind can make it happen (finding 3).
The first does happen.

What the model abstracts: the bytes of pages that are not info pages; bytes of a
bitmap are a set of blocks; `short` and `int` are integers (a page has 4096
bytes, nothing comes near 2^15); a `Record`'s slots are a function from pages to
blocks, so its limit of pages and the order of its slots are not seen (where the
order decides which page becomes a witness, in `releaseRecord`, any order is
allowed); `realloc` and the byte arrays are taken to be large enough, which
`Hybrid.c:256` and `Hybrid.c:882` do not see to; `addPages` fails by returning
`PAGE_ADD_FAILED` only, as `PagedFileRAF` may, without the exception that
`PagedFileNative` also raises. The application releases only what it was given
and reads no length above `maxRecordSize`.

Callers of `acquirePage` that hold a page are counted (`holders`), not named: no
property needs to know which of them it is.

### HybridReopen

`Reopen` ends a session at any point and starts one with `load()`. The file's
length is what it was, or one page more if the call was about to grow it
(`Sizes`). The info pages in it are those written so far; in the middle of a
commit they may be the first few of the dirty ones (`Images`). `durable` is the
specification's memory of what owners had when everything was last written and
still have: these owners are the ones that come back, since an index that is
read from the file names nothing newer. A release that is running is taken to
be finished or not begun.

`load()` can also fail: a page of the file that no info page of the loaded
chain describes makes `initHistogram` throw. Then `session` is `"unopenable"`.

`FirstCommit` keeps kills out of the time between `createStructure` and the
first commit; in that window the file shows the header page and the class list
as free (`DatabaseFile.java:69`).

### AppendOnlyCache

`cache` is the linked list from its head, `minFreeSpace` the C variable, `space`
remembers the last update of each page. `update` is split into its five
outcomes. `getBestId` is the operator `GetBestId`, its loop the function `Searched`:
the best element after each turn, replaced where the code replaces it (`Better`).
`getFreeSpace` and `isEmpty` are looks at the list.

### SpaceManager and AppendOnly

The Java object behind `SpaceManagerNative.c` has no thread and no life of its
own: it changes when a policy calls it. `SpaceManager` therefore has no variables;
each of its operators takes the state of a manager and gives the next one, and
`AppendOnly` holds that state in `sm`. `hung` is the endless recursion of
`update` when the storage has no page for an info page. `AppendOnly` holds an
`AppendOnlyCache` too (`INSTANCE` with its own variables `cache`,
`minFreeSpace`, `space`).

A call is a step when it updates the cache once. `acquireRecord`, `releaseRecord`
and the cut of the tail update it once a turn, and a turn is a step; `call` has
the local variables and where the call goes on. An `acquireRecord` that fails
leaves its `Record` with blocks that are marked nowhere; the application is taken
to drop such a `Record` (`failed`), and `Reopen` is left out after one. What a commit
writes after such a failure need not come back: an info page that the file has just
got is in the chain in memory and no dirty page names it, so that the commit writes
the new page and a load does not find it. `CommittedImage` excludes these
sessions by name, as no document says what a failed call may leave; without the exclusion
TLC finds it violated with a storage of 5 pages.
`Reopen` comes right after a commit; kills are the matter of `HybridReopen`.

### AVLTree and BTree

`AVLTree.tree` is the nodes with their pointers, heights and balances, a node
named by its record id. The operators follow the code in what they do to
pointers that are about to be wrong: heights are updated before the
links that the code sets later, `removeNode` copies its predecessor's place. The
pre-order bytes of `nodeToBytes` are a sequence of records with `Null` for the
missing child.

`BTree.tree` is a heap of elements: type, `minId`, `freeSpace`, `count`, parent
and entries. Sizes are in words of four bytes (a record's length is 8 bytes
and 4 and 4 for each of its pages, with `freeSpaceInfoSize` 4). Entries are a function, as
`AVLTree` shows they may be; the order in which `commit` visits children, which
in the code is that of the AVL tree, is by key, so that only the numbers of
their pages differ. New pages get the next free number, and the ids grow, since
the klass manager gives them so. `index` remembers the length of each record,
which stands for the record. `BTreeAssumption` limits records to half a leaf, as
beyond it `split` walks past the last entry (`BTreeLeaf.cpp:97`). Freed elements give
their names to later ones. `SplitRootLeaf` keeps finding 4 out of the run
`btree`. `Reload` is `Commit` and the load of a new `BTree`; `load` of older
pages gives a tree that an earlier commit had.

### Transactions

One class, one page for a record, and pages given by an abstract policy:
any page that is not used. What is in memory (`used`, `klass`, `index`,
`pageIds`) stands beside what is in the file (`usedDisk`, `klassDisk`, `page`).
The index is a map (`With` enters an id, `Without` removes one) that is committed in
one step to one leaf, or, with more than `LeafSize` entries, to a root and its leaves. Each call of a transaction is a
step. `Close` happens between transactions and commits nothing, as in the
code. `Kill` interrupts the transactions in `Kills`: `"insert"`, an insert into a
class that is managed; `"first"`, the insert that adds the class; `"delete"`.
The run includes the first of these. A kill in the other two leaves states
that no document speaks of and the code does not repair: after a killed delete
the index in the file names a record whose blocks are free, because
`releaseRecord` commits the bitmaps; after a killed first insert the class list
names pages that the bitmaps do not show. A full storage is left out too
(`performInsertTransaction` ignores that `acquireRecord` failed).

## 3. What is checked

| run | shows | bounds |
|---|---|---|
| `hybrid` | the properties of `Hybrid` below; about 69 000 states | pages of 4 blocks in 2 classes (plus "empty"), 4 pages to an info page, 3 system pages, storage for 8 pages, 2 records of 1 to 4 blocks, one of the lengths not whole blocks |
| `chunks` | a record of several chunks gets too few blocks (finding 1) | as above, 7 pages, lengths 2 and 12 |
| `reopen` | what was committed survives kills; about 170 000 states | pages of 2 blocks, 7 pages, 2 records, 2 reopens |
| `unopenable` | a file that does not open again (finding 2) | the same, 1 reopen |
| `stale_tail` | a record gets blocks beyond its page (finding 3) | the same, 1 reopen |
| `cache` | the properties of `AppendOnlyCache`; about 29 000 states | 4 pages, spaces 0 to 4, a cache of 2 |
| `append_only` | the properties of `AppendOnly`; about 330 000 states | pages of 2 blocks, 4 pages to an info page, 3 system pages, storage for 4, 5, 7 or 8, a cache of 2, 2 records of two, three and five blocks |
| `avl` | the properties of `AVLTree`; about 15 600 trees | ids 0 to 8 in any order |
| `btree` | the properties of `BTree`; about 137 000 states | 6 ids, two lengths of records, 2 to 3 records to a leaf, 2 children to a node |
| `btree_update` | an update of a record in a root leaf loses ids (finding 4) | the same, with `SplitRootLeaf` |
| `transactions` | the properties of `Transactions`; about 380 000 states | 5 pages, 4 ids, an index of one leaf, kills inside an insert |
| `transactions_split` | an index page is given to a record (finding 5) | 7 pages, one entry to a leaf, no kills |

Why these are enough: 4 pages to an info page and storage for 8 make the chain
grow once past its first page at page 4 and ask for a third info page at page 8,
where the storage is full, so the growing, the settled and the failing branch
of `freeSpaceInfoUpdate` all occur; classes of two blocks make a page pass
through class 0, class 1 and "empty"; two records and a page holder can share a
page, leave holes in it and fill them; losing a witness while pages of its class
are left, which makes the scan necessary, takes two pages of a class. With
one reopen after another, what one load leaves behind meets a second kill.

Nine ids give AVL trees of four levels and more, all four kinds of rotation, and removals
of nodes with two children whose predecessor has a child of its own. Nodes of two
children and leaves of two or three records make the six ids of `btree` a tree of
three levels, in which a split and a merge can reach the root. In
`append_only`, pages of two blocks, a cache of two and records of two, three and
five blocks give records of one, two and three pages whose last page is shared, a full
cache, and a growth of the chain at page 4. A storage for 7 fills up and makes
`acquirePage` and `acquireRecord` fail; one for 5 makes `acquireRecord` fail right after
the chain has grown; storages for 4 and 8 want an info page when there is no room for it,
and hang.

Deadlock is not checked for `Hybrid`, `HybridReopen` and `AppendOnly`: a session
that hangs, or a file that does not open, is an end the code really has. It is
checked for the others.

The properties of `Hybrid`:

- `OwnersDisjoint`, `OwnedAreUsed`: no block has two owners; what is owned is in
  the file and marked.
- `HistogramTrue`: counts and witnesses agree with the bitmaps, in the middle of
  an `acquireRecord` too.
- `RecordLength`: a record has the blocks its length needs.
- `InfoPagesFit`: the chain describes the whole file and is never longer than
  needed. The shrinking branch of `freeSpaceInfoUpdate` is therefore dead code,
  and the model leaves it out on the strength of this property.
- `FileTrimmed`: between calls the file ends with a page in use.
- `CommittedImage`: with nothing dirty, a walk along the chain on disk gives back
  the chain and the bitmaps.
- `NoHeapDamage`: no search ends with page -1.
- `GrowsOnlyWhenNeeded`: the file grows only when no page has the room that the
  classes searched promise.
- `AllocatorSpec`: `Hybrid` implements `BlockAllocator`, with the pages of the
  system, of the chain and of the callers of `acquirePage` as `held`.

The properties of sessions: the two of ownership and the histogram again, with
`ChainOnlyGrows` (a later load finds at least the chain an earlier one would have
found) and `DamageOnlyFromTail`: a call breaks only on a page that the file has just
grown by and whose blocks are still marked, as a kill between a release and its commit
leaves them. In particular no search ends with page -1 in a later session either.
`HistogramTrue` and the others go on to hold of the sessions that are not broken; how
one breaks is finding 3.

The properties of the cache: it is bounded and has one element for a page
(`CacheBounded`), knows the space each page was last updated with (`CacheTrue`),
and offers a page that fits with the least space left over, if there is one
(`OffersFit`).

The properties of `AppendOnly`: what is owned is in the file, marked, and as long as
asked for (`OwnedAreUsed`); a cached page is in the file and has the space it is
cached with, beside what the running call has reserved (`CachedSpaceIsThere`);
`load` gives back what `commit` wrote (`CommittedImage`); every call comes back or is
`Hung` (`CallReturns`); the policy implements
`BlockAllocator` (`AllocatorSpec`). That the shrinking branch of `update` is
never taken is part of its `TypeOK`.

`CallReturns` is the one liveness property, under weak fairness of `Turn`, the next step
of the call that is running: the application's only thread is in it, and nothing
else can disable the step. Nothing forces the application to make another call. `Hybrid`
has no such property. With one chunk to a record its loop has one turn and there is
nothing to say; with several, a second turn reads bitmaps without the first (finding 1) and the
histogram it keeps goes wrong, and a later call can end `Broken`.

The properties of the index: an AVL tree is a search tree with true links
(`SearchTree`), answers as a set does (`Lookups`), comes back from its bytes
(`RoundTrip`), and implements `OrderedMap` (`Implements`). Its heights, stale as they may
be, never make a rotation lift a child that is not there (`LeansOnChild`), which
would be a NULL pointer used. They do not make it shallow: see below the findings. The B-tree finds every id with its record and no other
(`FindsAll`), its links and least ids are true (`LinksTrue`), elements fit in pages
(`PagesFit`), iteration meets all ids in order (`WalkTrue`), and commit and load
lose nothing (`Committed`).

The properties of transactions: an object in the last index committed is found
and is what its page holds (`ObjectsKept`); the file holds the objects of that commit
and no others, and will not give their ids again (`DurableIndex`); what the
file refers to is marked in the bitmaps of the file, and no page is used
twice (`OwnersMarked`).

### Findings

1. **A record longer than a page may get one page** (`chunks`). With two empty
   pages, the first chunk takes the witness; the class is not empty but has no
   witness left, so the second chunk scans the bitmaps, which show nothing of
   the first chunk, and finds the same page. `setChunkUsed` sets the same
   bits and `acquireRecord` returns true. `SpaceManagerPolicyTest.java:83`
   expects a record of 4224 bytes to have 4224 bytes.
2. **A file may not open again** (`unopenable`). Pages taken after the policy's
   commit can make the file longer than the committed chain describes;
   `initHistogram` then throws in `load()`. `performInsertTransaction` commits
   the policy before the managers and the index, whose commits take pages.
   `SimpleJelloTest.java:82` expects a closed file to open.
3. **A record gets blocks beyond its page** (`stale_tail`). `removeEmptyPages`
   shortens the file at once (`Hybrid.c:696`); the bits it clears are committed later. A
   kill in between leaves pages beyond the end of the file marked used. When a later
   session adds such a page for a record, `acquireRecord` takes it as empty
   (`Hybrid.c:793-795`), and `reserveBlocks`, which finds no free block on it, reads on
   behind its bitmap and reserves blocks that the page does not have.
   `SpaceManagerPolicyTest.java:76` expects a record of 512 bytes to have them.
4. **An update loses ids** (`btree_update`). `BTree::update` puts a node above a root
   leaf that it splits and, unlike `add`, does not make the node the root
   (`BTree.cpp:198`). `IndexTest.java:305` expects `find` to succeed after an
   `update`.
5. **A page of the index is given to a record** (`transactions_split`).
   `performInsertTransaction` commits the policy before the index, whose commit
   takes pages; nothing writes their bits before the database is closed.
   `SimpleJelloTest.java:89` expects to read an object after a close and an open.

Two disagreements no test or document of the repository speaks of, or that harm nobody:

- The trees of the index may become lists. A rotation leaves the heights of the ancestors
  stale, later rotations are chosen by them, and a removal rebalances only upwards from
  the node removed. With twelve ids (`Ids = 0..11` in place of those of
  `AVLTree.cfg`), thirty insertions and removals leave six nodes in a chain of six. Up to
  eleven ids no tree of n nodes has 2^depth > (n + 1)^2, so a small instance
  does not show it. Search, links and counts stay right.
- The full cache of `AppendOnly` turns down a page with *more* space than
  `minFreeSpace` (`AppendOnlyCacheNative.c:146`); the comment over the test speaks of
  less. A page turned down is not offered until its next update.

A second way to finding 2 came up in the proofs. `CommittedImage` is a theorem of
`Hybrid` and not true of `HybridReopen` (TLC shows it with `CommittedImage` as the invariant of
`MCHybridUnopenable.cfg`): a kill between the two `addPages` calls of an acquisition can
leave a file that ends exactly where the chain ends, and `load` accepts it. In the next
session the page that the file grows by lies in the part of the new info page, so
nothing makes the page in front of it dirty (`Hybrid.c:263`), and `freeSpaceInfoCommit`
does not write the link. Everything is committed, and the file does not open again.
The proof of `CleanImage` rests on `Tight`, which such a file does not satisfy.

## 4. What is proved

`Hybrid_proofs` proves, for every page size, block size, number of classes,
layout, length of the storage and set of records that meet the assumptions of
`Hybrid`, and **under the hypothesis `SinglePage`: no record is longer than a
page**,

| theorem | statement |
|---|---|
| `Invariance` | `Spec => []IInv` |
| `TypeCorrect` | `Spec => []TypeOK` |
| `Disjointness` | `Spec => []OwnersDisjoint` |
| `Marked` | `Spec => []OwnedAreUsed` |
| `ChainMeetsFile` | `Spec => []InfoPagesFit` |

`SinglePage` is needed as the code stands: finding 1 is what a longer record
meets, and the same reading of old bitmaps gives the histogram a wrong class for
the page.

The argument. `OwnersDisjoint` and `OwnedAreUsed` are not inductive: a page
from the histogram goes to its new owner without a look at the bitmaps. `IInv` is
`FileInv /\ Fresh /\ Tight`. `FileInv` is what every step keeps whatever file the
session has started from, a file that a killed session left included. Beside the types
and the two properties it has

- `WitnessTrue`: each witness is a page of the file whose blocks in use, the
  reservations of the running call included, put it in that class. The top class
  holds exactly the empty pages, so a whole page taken by its witness is empty,
  and an empty page has no owner (`EmptyUnowned`). The counts are not needed here:
  a wrong count makes the search miss a page, not take a used one;
- `Lost`: a page beyond the end of the file has no bit set or all of them; in
  neither case can a record get a part of it, and nobody owns it;
- `CallOK`: what a running `acquireRecord` has reserved is free in the bitmaps
  and inside the file, until `setRecordUsed` marks it;
- `ChainFits`: the last page of the chain lies in the part of the file it
  describes, and the chain describes the file. The first half stays
  true under releases because that page is owned and therefore used.

`Fresh` and `Tight` hold in a session that has started with `createStructure`: pages
beyond the end of the file have no bit set, and the chain describes more than the file.

Each action has a lemma. The releases share `CutInv` (clear bits, move pages in
the histogram, cut the tail: `TailFacts` says that exactly the pages of the tail
go), page acquisitions share `GivePageInv`, the turns of the loop `TurnInv`.
Below them are lemmas on the arithmetic of blocks and classes (`FreeBytesFacts`,
`ClassOfBlocks`, `ReserveFacts`), on the histogram (`MovedValid`, `LearnValid`,
`MovedAllValid`, `CutValid`) and on the chain (`ChainGrows`). The assumptions
used are the three of `Hybrid`; TLC evaluates them in the runs.

`Hybrid_histogram` builds on it, under the same hypothesis:

| theorem | statement |
|---|---|
| `TidyInvariance` | `Spec => []Tidy` |
| `TrueHistogram` | `Spec => []HistogramTrue` |
| `Trimmed` | `Spec => []FileTrimmed` |
| `NoDamage` | `Spec => []NoHeapDamage` |
| `GrowthNeeded` | `Spec => GrowsOnlyWhenNeeded` |
| `ExactLength` | `Spec => []RecordLength` |

`Tidy` says that the session is not `Broken`, that the counts are true, and that the
last page of the file has a block that is used or reserved. The three hold each
other up. With true counts a search means what it says (`SearchMeans`): `NoPage`,
that the classes searched are empty, so the file must grow; `NoWitness`, that one
of them has a page. For a whole page that is the top class, which holds the empty
pages only, so the scan finds one and the session does not break. And `WithoutTail`
takes the pages of the tail from the top class, which keeps the counts because
exactly empty pages are cut (`CutCounts`). What the steps do to the counts is in
`MovedCounts`, `LearnCounts`, `SameCounts` and `MovedAllCounts`, by the cardinality
of the pages of a class; that a page added for a chunk is in use when the call ends
is `ReserveSome`. `IInv` is used throughout, before and after the step.

For `ExactLength`, the invariant `LengthsMet` says that every live record, and the one that
`acquireRecord` is about to finish, has its blocks on one page and as many as its length
needs. `ReserveCount` counts what `reserveBlocks` takes: the free blocks of a page have
the ranks 0, 1, 2 and so on (`RankFacts`, a counting argument in place of an
induction), and those with a rank below the number needed are that many
(`FirstOnes`). That the page has enough follows, by witness or by scan, from its class
(`ClassEnough`). The code would skip a chunk whose scan finds nothing and still return
true; it does not happen, because the counts of `Tidy` are true and the scan covers the
whole file, nothing having grown since the call began.

`Hybrid_image` proves `CleanImage`, `Spec => []CommittedImage`, under the same
hypothesis. Its invariant `ImageTrue` says where the info pages lie (`ChainShape`: each
in the part it describes, so that no two are the same), that what they do not describe is free, and of each info page that is not
dirty that the disk has its bitmaps and its link to the next one. The link is the
delicate part: `freeSpaceInfoUpdate` makes the new info page dirty and not the page in
front of it, which must be written again to name it. That page is made dirty for another
reason: the file reaches the end of the chain only with a page that the running call
takes, and the old last info page describes that page (`SettledGains`). In
`acquireRecord` this happens only when `setRecordUsed` ends the call; until then the
link may be missing (`Unlinked`), and the new page, still dirty, says that nothing is
promised yet. A step that writes nothing keeps `ImageTrue` if what it changes is dirty
afterwards (`ImageKept`), a commit restores all of it (`ImageWritten`). What `ChainOn`
reads is by well-foundedness: any walk over true links visits the chain page by page,
since a first place where it does not would be preceded by one where it does
(`WalkIsPrefix`), and there is such a walk (`WalkExists`).

`Hybrid_proofs` also proves `Refinement`: under `SinglePage`,
`Spec => AllocatorSpec`. `BlockAllocator` demands of a step that what is handed out
was nobody's. Nothing in `Hybrid` says so where a page is handed out; it follows from
`IInv` after the step: whoever has a page or a block then has it alone, so,
as the step took nothing from anybody, nobody had it before (`TakesPages`). That
needs one more invariant, `RecordsClear`: a record that `acquireRecord` is
working for has no blocks yet, or `FinishRecord` would drop some. Each action has
a lemma (`AcquirePageImplements`, `ChunkImplements`, `FinishImplements` and so on)
that names the abstract step it is, or shows it to be a stutter.

`HybridReopen_proofs` proves, for every value of the constants and any number of
sessions, **under the hypotheses `SinglePage` and `FirstCommit`** (the second: no kill
between `createStructure` and the first commit),

| theorem | statement |
|---|---|
| `SessionInvariance` | `ReopenSpec => []SessionInv` |
| `DisjointAfterKill` | `ReopenSpec => []OwnersDisjoint` |
| `MarkedAfterKill` | `ReopenSpec => []OwnedAreUsed` |
| `HistogramAfterKill` | `ReopenSpec => []HistogramTrue` |
| `ChainGrowsOnly` | `ReopenSpec => ChainOnlyGrows` |
| `DamageFromTail` | `ReopenSpec => DamageOnlyFromTail` |

`FirstCommit` is needed as the code stands: with `FirstCommit = FALSE` TLC finds
`OwnedAreUsed` violated, since the file shows system pages as free until the first
commit (`DatabaseFile.java:69`).

`SessionInv` is `FileInv`, true counts (`Counted`), `RecordsClear` and `DiskInv`, which
relates the file to memory and to what is durable:

- `Readable`: an info page of the chain is on disk as the file was extended by it, or has
  been written: then it marks itself used and its link is absent or true
  (`WellWritten`). No other page has been written (`Untouched`). What the disk says of a
  page of the file is no, or all, or some blocks of a page that nobody holds as a whole
  and of which memory has at least these blocks marked (`Older`);
- `Linked`: a page that is linked to has been written;
- `Dirtied`: what differs between disk and memory belongs to a dirty info page;
- `Keeps`, `Durable`, `OwnedCovered`: what is durable is marked on disk, and its owners
  still have it; the chain describes every page that has an owner.

That none of the pages on disk is newer than the others matters at a load. A walk
along the links can only leave the chain through an info page that was never written,
whose link reads 0, and from there it never comes to an end (`NoEnd`). So if `load`
accepts the file, it has read every link of the chain in memory (`LoadableLinks`), and
the bitmaps it gets are those of `OnDisk`, some of them older than others. The new
session then satisfies `SessionInv` again: whoever comes back is durable, therefore
marked (`LoadOwners`); a page beyond the end of the file is all free or all used, because
partly used pages are inside it (`LoadFile`); nothing is dirty (`LoadDisk`). A kill inside a commit is
covered by `ImageFacts`: writing any set of the dirty pages keeps `Readable` and `Keeps`.

A step of the session reaches the disk in one of two ways, and `NextSeen` says of each
action which: it `Gathers` (nothing is written, what changes becomes dirty, the chain may
gain a page that describes itself) or it `Writes` (all that is dirty, and what it has changed).
`StepDisk` derives `DiskInv` after the step from that alone. For `ChainGrowsOnly`, the
chain on disk is a prefix of the chain in memory, as long as the links reach
(`ReadsSome`), a write takes no link away (`WritesBegin`), and a load that succeeds
has found all of it. For `DamageOnlyFromTail`, the counts in `Counted` are true in
every session, so a search that says there is a page finds one, and a page the file
grows by has room for a whole record if no block of it is marked (`NextDamage`,
`GrowthRoom`). In the first session of a file such a page is never marked
(`NewPageEmpty`).

`AppendOnlyCache_proofs` proves, for every size of the cache, set of pages and amount
of space:

| theorem | statement |
|---|---|
| `Invariance` | `Spec => []IInv`, with `IInv == TypeOK /\ CacheBounded /\ CacheTrue` |
| `TypeCorrect` | `Spec => []TypeOK` |
| `Bounded` | `Spec => []CacheBounded` |
| `TrueSpace` | `Spec => []CacheTrue` |
| `BestOffer` | `Spec => []OffersFit` |

`BestOffer` is about the loop of `getBestId`. Each turn keeps that the element remembered is
the first with the least space of those seen that have enough (`TurnKeepsBest`); so a function that
satisfies the equation of `Searched` exists (`SearchExists`), and it has that
element after every turn, since a first turn after which it had not would follow one
after which it had (`SearchFindsBest`).

`update` searches the list for the poorest page in a loop, which the module states as the first
element with the least space. That such an element exists is by well-foundedness of the
natural numbers (`LeastExists`, `FirstLeast`); each of the branches of `update` then
keeps the three parts of `IInv`, `CacheBounded` in the one that inserts because the
list is shorter than its limit and the page is not in it.

`AppendOnly_proofs` proves, for every page size, block size, layout, size of the cache,
set of storages and of records, and **for records of any length**:

| theorem | statement |
|---|---|
| `Invariance` | `Spec => []IInv` |
| `TypeCorrect` | `Spec => []TypeOK` |
| `Marked` | `Spec => []OwnedAreUsed` |
| `SpaceIsThere` | `Spec => []CachedSpaceIsThere` |
| `CleanImage` | `Spec => []CommittedImage` |
| `Refinement` | `Spec => AllocatorSpec` |

There is no `SinglePage` here: finding 1 is a fault of `Hybrid` alone. What keeps the
chunks of a record apart is the cache, not the bitmaps, which show nothing of a record
before its end. None of the properties is inductive, and they need each other; `IInv`
has six parts:

- `Typed`: beside the types, the invariant of the cache (the one proved in
  `AppendOnlyCache_proofs`, used here through `CP`), and `Sound(sm)`: each info page
  lies at the start of the part it describes, is in the file and marked, the chain
  describes the file, and no bit is set behind its end;
- `Owners`: a page is held for one reason, what is owned is marked, no two records
  share a block, and a record without a length has no blocks;
- `Sizes`: a record has the blocks its length needs;
- `Offered`: a page in the cache is in the file, is nobody's as a whole, and the space
  it was last updated with is a number of whole blocks that are free and not reserved
  by the call in progress;
- `CallOK`: what a call in progress relies on. A running `acquireRecord` has reserved
  free blocks that are as many as the bytes it has dealt with (`Reserved`), and **until its
  last chunk the pages it has used are no longer in the cache**. That is the core of
  the argument: a page is taken from the cache only if it has at least `PageSize - spare`
  bytes, so every chunk but the last uses all the space of its page, and `update` drops
  a page without space (`ChunkSizes`, `ChunkFacts`). Without it a page could be chosen twice. A release
  has pages to enter that are in the file and nobody's; a cut has found every page
  behind its place free and taken it out of the cache;
- `Image`: an info page that is not dirty is on disk as it would be written now, but for
  the link to a page that has joined the chain within the running call (`Unlinked`), and
  but for the links after a failed call, as in `CommittedImage`.

Each action has a lemma that keeps all six. The operators of `SpaceManager` have
theirs below that (`GrownFacts`, `CutFacts`, `SetRecordSound`, `CommitFacts`,
`LoadSame`): growing the file settles in one step or hangs, cutting it never needs
`RemovePages`, which the policy therefore never reaches. `BytesMore` counts the bytes of a record page by
page, `ReserveFacts` and `Counting` what `reserveBlocks` takes. The chunk from the cache
and the chunk from a new page are one argument (`ChunkInv`), about a manager that has at
least what there was (`Widens`). The refinement follows as for `Hybrid`, from `IInv`
after the step (`TakesPages`).

`Transactions_proofs` proves, for every number of pages and of ids and every size of a
leaf, **under the hypothesis `OneLeaf`: all ids fit in one leaf of the index, and a kill
interrupts only inserts into a class that is managed**,

| theorem | statement |
|---|---|
| `Invariance` | `Spec => []IInv` |
| `ObjectsStay` | `Spec => []ObjectsKept` |
| `IndexDurable` | `Spec => []DurableIndex` |
| `FileMarked` | `Spec => []OwnersMarked` |

Both halves of `OneLeaf` are needed as the code stands: an index of two leaves loses
objects (finding 5), and what a kill in a delete or in the first insert leaves behind is
said under "Transactions" in section 2. What is true of the file and what is
true of memory are separate parts of `IInv`, since a kill leaves only the first:

- `FileOK`: the index in the file (`Durable`) has the ids of the last commit; the pages of
  its objects hold them and are marked in the file, except for the object a delete is
  removing; and the class list names other pages, marked too once the first insert is over.
  This holds after every step, so nothing has to be repaired when the file is opened;
- `MemoryOK`, while the database is open: how far memory is ahead of the file at each
  step. The bitmaps are ahead until the policy is committed, the next id until the class
  list is, the entry until the index is;
- `TransOK`: the page of the insert in progress is nobody's in the file although only
  memory knows that it is taken, holds the object before the index that names
  it is committed, and its id has not been given out.

An index of one leaf is committed without taking a page (`OneLeafIsEnough`,
`CommitOneLeaf`), and a load of it gives back the map (`LoadedIsDurable`). Each action has
a lemma; `ForgetHolds` serves `Close` and `Kill`. That no two objects share a page
(`OwnersMarked`) follows from what the pages hold, through the cardinality of an image
(`AsManyValues`). With `IInv` in place of the properties, TLC finds no violation on the
bounds of `Transactions.cfg`.

So every safety property that `Hybrid.cfg`, `MCHybridReopen.cfg`,
`AppendOnlyCache.cfg`, `AppendOnly.cfg` and `Transactions.cfg` check is also a theorem.
Only model-checked: the liveness of `AppendOnly` (`CallReturns`), and all of `OrderedMap`,
`AVLTree` and `BTree`. `AVLTree` and `BTree` are recursive in the code and have RECURSIVE
operators, which the prover does not take. Liveness and anything with ENABLED are out of
its reach, and so is what a recursive function computes where it takes more than a walk
like that of `ChainOn`; they stay with TLC.

## 5. Plan

Modelled, checked and in part proved: both policies that are built on info pages,
the cache, the index down to the AVL tree, and the transactions over them. What
could come next, in this order:

1. `NextFit` on `SpaceManager` and a histogram without the copies of `Hybrid`.
2. Class and schema lists over several pages, with their versions after a load.
3. `FinitePool` with the finalizer thread.
4. The kills of a first insert and of a delete in `Transactions`, once the code repairs
   what they leave behind.

## 6. Not modelled

Reflection and formatting in the object API (`Storable`, `Expression`,
`StorableCollection`), dependency injection, the Android packaging, the lock
manager (its functions are empty), logging, and the test hooks. Performance
tests say nothing that a model could check.

`NextFit` is not modelled: its search is the one `Hybrid` contains and its bitmaps
are those of `SpaceManager`. The object pools, the lists of classes and schemas
over several pages, the storable writer and the header page are not modelled;
`PROJECT.json` lists what can go wrong there.

In `jni/btree`, `join` and most of `mergeNode` are dead code. `performUpdateTransaction` has
no caller (`Storable.update` inserts), so `BTree.update` is checked in `BTree` and is
not in `Transactions`. The memory of the C code is out of the models' sight: what
`realloc` was given (`SpaceManagerNative.c:181`), byte arrays released without a copy
back (`BTree.cpp:399`), a missing return value (`BTreeNative.cpp:188`).
