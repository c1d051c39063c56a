---------------------------- MODULE HybridReopen ----------------------------
(***************************************************************************)
(* Sessions of the default policy on one file: the process is killed (or   *)
(* closes the file, which commits nothing more) and load() of jni/space/   *)
(* Hybrid.c starts the next session from what is in the file.              *)
(*                                                                         *)
(* The file is mapped, so a page written before the kill is there after it,*)
(* and a change of the file's size takes effect at once; the bitmaps and   *)
(* the chain in memory are lost.  A kill may fall between two steps of an  *)
(* acquireRecord and between two writes of a commit.                       *)
(***************************************************************************)
EXTENDS Hybrid

CONSTANTS
  FirstCommit,  \* TRUE: no kill between createStructure and a first commit
  MaxReopens    \* bound: sessions after the first

ASSUME ReopenAssumption == FirstCommit \in BOOLEAN /\ MaxReopens \in Nat

VARIABLES
  session,    \* "open", or "unopenable": load threw or did not return
  committed,  \* has the chain been committed since createStructure?
  durable,    \* what owners had at the last commit and still have
  reopens     \* sessions started

sessionVars == <<session, committed, durable, reopens>>

Owners == [holders |-> holders, usage |-> usage, len |-> len]

(* What is still held of d once the owners have become now: something given
   back is no longer durable, even if it is taken again. *)
StillHeld(d, now) ==
  [holders |-> [p \in PageIds |-> Least(d.holders[p], now.holders[p])],
   usage   |-> [r \in Records |-> IF now.len[r] = 0 THEN NoUsage ELSE d.usage[r]],
   len     |-> [r \in Records |-> IF now.len[r] = 0 THEN 0 ELSE d.len[r]]]

(* A step of the running session.  freeSpaceInfoCommit leaves nothing dirty. *)
SessionStep ==
  /\ session = "open"
  /\ Next
  /\ durable' = IF dirty' = {} THEN Owners' ELSE StillHeld(durable, Owners')
  /\ committed' = (committed \/ dirty' = {})
  /\ UNCHANGED <<session, reopens>>

(* The chain a load finds is readable when it ends, and describes the n pages
   of the file: initHistogram asks for the free space of every one. *)
Loadable(d, n) ==
  /\ d[ChainOn(d)[Len(ChainOn(d))]].next = NoId
  /\ n <= Cover(ChainOn(d))

(* Fault: the last page of the file is left out. *)
Rebuilt_fault(b, n) ==
  LET class(c) == {p \in 0 .. n - 2 : ClassFor(FreeBytes(b[p])) = c} IN
  [counts  |-> [c \in ClassIds |-> Cardinality(class(c))],
   witness |-> [c \in ClassIds |->
                  IF class(c) = {} THEN NoId
                  ELSE CHOOSE p \in class(c) : \A q \in class(c) : q <= p]]

(* initHistogram: the last page of a class becomes its witness. *)
Rebuilt(b, n) ==
  LET class(c) == {p \in 0 .. n - 1 : ClassFor(FreeBytes(b[p])) = c} IN
  [counts  |-> [c \in ClassIds |-> Cardinality(class(c))],
   witness |-> [c \in ClassIds |->
                  IF class(c) = {} THEN NoId
                  ELSE CHOOSE p \in class(c) : \A q \in class(c) : q <= p]]

(* What the file can hold when the process dies: the pages written so far, or,
   in the middle of a commit, also the first dirty info pages. *)
Images ==
  IF call = Idle THEN {Written(bits, {i \in dirty : i < k}) : k \in 0 .. Len(chain)}
  ELSE {disk}

(* The sizes it can have then: a page is added before its info page is. *)
Growing ==
  \/ call = Idle /\ GetWitness(PageSize) = NoPage
  \/ InRecord /\ call.chunks > 0 /\ GetWitness(Need) = NoPage

Sizes == {file} \cup IF Growing /\ file < MaxPages THEN {file + 1} ELSE {}

(* Fault: the bitmaps are left as calloc made them. *)
Load_fault(d, n) ==
  /\ file' = n
  /\ chain' = ChainOn(d)
  /\ bits' = WithInfo([p \in PageIds |-> {}], ChainOn(d))
  /\ dirty' = {}
  /\ disk' = d
  /\ hist' = Rebuilt(bits', n)
  /\ lastAcquired' = 0
  /\ call' = Idle
  /\ holders' = durable.holders
  /\ usage' = durable.usage
  /\ len' = durable.len
  /\ UNCHANGED session

Load(d, n) ==
  /\ file' = n
  /\ chain' = ChainOn(d)
  /\ bits' = BitsOn(d)
  /\ dirty' = {}
  /\ disk' = d
  /\ hist' = Rebuilt(BitsOn(d), n)
  /\ lastAcquired' = 0
  /\ call' = Idle
  /\ holders' = durable.holders
  /\ usage' = durable.usage
  /\ len' = durable.len
  /\ UNCHANGED session

(* The owners take up what they had at the last commit. *)
Reopen ==
  /\ session = "open"
  /\ reopens < MaxReopens
  /\ FirstCommit => committed
  /\ reopens' = reopens + 1
  /\ \E d \in Images, n \in Sizes :
       IF Loadable(d, n) THEN Load(d, n)
       ELSE session' = "unopenable" /\ UNCHANGED vars
  /\ UNCHANGED <<committed, durable>>

ReopenInit ==
  /\ Init
  /\ session = "open"
  /\ committed = FALSE
  /\ durable = Owners
  /\ reopens = 0

ReopenNext == SessionStep \/ Reopen

ReopenSpec == ReopenInit /\ [][ReopenNext]_<<vars, sessionVars>>

-----------------------------------------------------------------------------
(* Properties: those of Hybrid that a kill must not break, and some more.    *)

(* What a kill can spoil of the searches is told by one thing: acquirePage    *)
(* never goes on with page -1 in any session, whatever histogram load built,  *)
(* and reserveBlocks runs past a page's bitmap only when the file grows into  *)
(* a page that was cut off before the kill and is still marked on disk.       *)
DamageOnlyFromTail ==
  [][call'.mode = "broken" =>
       call.mode = "broken" \/ (InRecord /\ bits[file] # {})]_<<vars, sessionVars>>

(* An info page is never lost: the chain one load finds is the beginning of  *)
(* the chain any later one finds.                                            *)
ChainOnlyGrows ==
  [][session' = "open" =>
       /\ Len(ChainOn(disk')) >= Len(ChainOn(disk))
       /\ SubSeq(ChainOn(disk'), 1, Len(ChainOn(disk))) = ChainOn(disk)
    ]_<<vars, sessionVars>>

(* acquireRecord gives a record the blocks of its length in every session, as *)
(* SpaceManagerPolicyTest.java:76 expects of the first; it does not, when     *)
(* reserveBlocks looks for them past the bitmap of the page.                  *)
AcquiredInFull == call.mode # "broken" /\ RecordLength

(* A file that a session has used opens again (SimpleJelloTest.java:82).     *)
EveryReopenSucceeds == session = "open"
=============================================================================
