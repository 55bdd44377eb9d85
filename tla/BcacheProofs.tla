---------------------------- MODULE BcacheProofs ----------------------------
(***************************************************************************)
(* The inductive invariant of module Bcache, the safety properties it      *)
(* gives and the refinement of BlockStore, for any finite set of processes *)
(* and any number of buffers and blocks.                                   *)
(***************************************************************************)
EXTENDS Bcache, FiniteSetTheorems, WellFoundedInduction, TLAPS

\* Between bget()'s choice of a buffer and the end of bread().
Asking == {"acquire", "asleep", "bread"}

\* refcnt counts the processes that use the buffer or wait for it, and the log.
Counts == \A s \in Bufs : refcnt[s] = Cardinality(Users(s)) + pinned[s]

\* A block has one buffer.
Unique == \A s, t \in Bufs : s # t /\ blockno[s] = blockno[t] => blockno[s] = NoBlock

\* bget() panics with every buffer in use.
Full == panicked = 1 => \A s \in Bufs : Users(s) # {} \/ pinned[s] = 1

\* Who has the lock of a buffer.
Owned == \A s \in Bufs, p \in Procs :
           owner[s] = p <=> s \in held[p] \/ (pc[p] = "bread" /\ b[p] = s)

\* What a process uses or waits for is the buffer of the block it asked for.
Using ==
  \A p \in Procs :
    /\ \A s \in held[p] : blockno[s] \in Blocks /\ valid[s] = 1
    /\ pc[p] # "run" => b[p] \notin held[p]
    /\ pc[p] \in Asking => blockno[b[p]] \in Blocks
    /\ pc[p] = "asleep" => owner[b[p]] # NoProc

\* A buffer with contents has those of a block, and so has one in the log.
Filled == \A s \in Bufs : (valid[s] = 1 => blockno[s] \in Blocks) /\ (pinned[s] = 1 => valid[s] = 1)

\* A block belongs to one file, and so to one process that has the file's lock.
Apart ==
  /\ \A p, q \in Procs : p # q => mine[p] \intersect mine[q] = {}
  /\ \A p \in Procs : mine[p] \subseteq inuse

\* Who holds a buffer and asks for another: one that commits, and then the buffer is
\* one of the log; or one that has a block of its file, and then it asks for the
\* bitmap or for a block of its own that it does not have.
Habit(p) ==
  /\ \A s, t \in held[p] : s # t /\ blockno[s] \in FileBlocks \ mine[p] => blockno[t] \in LogBlocks
  /\ fresh[p] # NoBlock => fresh[p] \in mine[p] /\ \A s \in held[p] : blockno[s] # fresh[p]
  /\ pc[p] \in Asking =>
       /\ fresh[p] = NoBlock
       /\ \A s \in held[p] :
            \/ blockno[s] \in LogBlocks /\ blockno[b[p]] \notin LogBlocks
            \/ blockno[s] \in mine[p] /\ blockno[b[p]] \in Bitmap \union mine[p]

Nested == \A p \in Procs : Habit(p)

(***************************************************************************)
(* RefcntCountsUsers is not inductive: that a recycled buffer is unused,   *)
(* and that a process never counts twice, needs to know who has the locks, *)
(* which block each process asked for, and that it did not have it.  Apart *)
(* and Nested are what the callers' habits come to; Filled is for the      *)
(* refinement.                                                             *)
(***************************************************************************)
IInv == TypeOK /\ Counts /\ Unique /\ Full /\ Owned /\ Using /\ Filled /\ Apart /\ Nested

-----------------------------------------------------------------------------
\* The search for the oldest buffer rests on this.
LEMMA MaxExists ==
  ASSUME NEW K \in SUBSET Nat, IsFiniteSet(K), K # {}
  PROVE  \E k \in K : \A j \in K : j <= k
<1> DEFINE Above(k) == {j \in K : j > k}
           F == {Above(k) : k \in K}
<1>1. F \subseteq FiniteSubsetsOf(K) /\ F # {}
  <2>1. ASSUME NEW k \in K PROVE Above(k) \in FiniteSubsetsOf(K)
    <3>1. Above(k) \in SUBSET K
      OBVIOUS
    <3> QED
      BY <3>1, FS_Subset, ZenonT(60) DEF FiniteSubsetsOf
  <2> QED
    BY <2>1, Zenon
<1>2. PICK T \in F : \A U \in F : ~(<<U, T>> \in StrictSubsetOrdering(K))
  BY <1>1, FS_StrictSubsetOrderingWellFounded, WFMin, Zenon
<1>3. PICK k \in K : T = Above(k)
  BY <1>2, ZenonT(60)
<1>4. ASSUME NEW j \in K, ~(j <= k) PROVE FALSE
  <2>1. j > k
    BY <1>4
  <2>2. Above(j) \subseteq Above(k) /\ Above(j) # Above(k)
    <3>1. \A i \in K : i > j => i > k
      BY <2>1
    <3>2. j \in Above(k) /\ ~(j > j)
      BY <2>1
    <3> QED
      BY <3>1, <3>2, Zenon
  <2>3. Above(j) \in SUBSET K /\ Above(k) \in SUBSET K /\ Above(j) \in F
    OBVIOUS
  <2> HIDE DEF Above
  <2>4. <<Above(j), Above(k)>> \in StrictSubsetOrdering(K)
    BY <2>2, <2>3, ZenonT(60) DEF StrictSubsetOrdering
  <2> QED
    BY <1>2, <1>3, <2>3, <2>4, ZenonT(60)
<1> QED
  BY <1>4, ZenonT(60)

\* bget() finds the free buffer that was released longest ago.
LEMMA OldestIsFree ==
  ASSUME lru \in [Bufs -> Bufs], \A s \in Bufs : \E k \in Bufs : lru[k] = s, Free # {}
  PROVE  Oldest \in Bufs /\ Oldest \in Free
<1> DEFINE K == {k \in Bufs : lru[k] \in Free}
           Last(k) == lru[k] \in Free /\ \A j \in k + 1..NBUF : lru[j] \notin Free
<1>1. K \in SUBSET Nat /\ IsFiniteSet(K)
  <2>1. IsFiniteSet(Bufs) /\ Bufs \subseteq Nat
    BY BcacheAssumption, FS_Interval DEF Bufs
  <2>2. K \in SUBSET Bufs
    OBVIOUS
  <2> QED
    BY <2>1, <2>2, FS_Subset, Zenon
<1>2. K # {}
  BY ZenonT(60) DEF Free
<1>3. PICK k \in K : \A j \in K : j <= k
  BY <1>1, <1>2, MaxExists, Zenon
<1>4. \A j \in k + 1..NBUF : lru[j] \notin Free
  <2> SUFFICES ASSUME NEW j \in k + 1..NBUF, lru[j] \in Free PROVE FALSE
    OBVIOUS
  <2>1. j \in Bufs /\ ~(j <= k)
    BY <1>1, BcacheAssumption DEF Bufs
  <2> QED
    BY <1>3, <2>1, ZenonT(60)
<1>5. \E i \in Bufs : Last(i)
  BY <1>3, <1>4, ZenonT(60)
<1> HIDE DEF Last
<1>6. Last(CHOOSE i \in Bufs : Last(i)) /\ (CHOOSE i \in Bufs : Last(i)) \in Bufs
  BY <1>5, ZenonT(60)
<1> QED
  BY <1>6, ZenonT(60) DEF Last, Oldest

\* The list that brelse() leaves still has every buffer.
LEMMA FrontIsList ==
  ASSUME lru \in [Bufs -> Bufs], \A s \in Bufs : \E k \in Bufs : lru[k] = s, NEW s \in Bufs
  PROVE  /\ Front(s) \in [Bufs -> Bufs]
         /\ \A t \in Bufs : \E k \in Bufs : Front(s)[k] = t
<1> DEFINE k == CHOOSE k \in Bufs : lru[k] = s
           f == [j \in Bufs |-> IF j = 1 THEN s ELSE IF j <= k THEN lru[j - 1] ELSE lru[j]]
<1>1. k \in Bufs /\ lru[k] = s
  OBVIOUS
<1>2. Front(s) = f
  BY ZenonT(60) DEF Front
<1> HIDE DEF k
<1>3. f \in [Bufs -> Bufs]
  <2>1. \A j \in Bufs : j # 1 => j - 1 \in Bufs
    BY BcacheAssumption DEF Bufs
  <2> QED
    BY <2>1, ZenonT(60)
<1>4. ASSUME NEW t \in Bufs PROVE \E j \in Bufs : f[j] = t
  <2>1. PICK i \in Bufs : lru[i] = t
    OBVIOUS
  <2>2. CASE i = k
    <3>1. 1 \in Bufs
      BY BcacheAssumption DEF Bufs
    <3>2. f[1] = t
      BY <1>1, <2>1, <2>2, <3>1, ZenonT(60)
    <3> QED
      BY <3>1, <3>2, ZenonT(60)
  <2>3. CASE i < k
    <3>1. PICK m \in Bufs : m # 1 /\ m <= k /\ m - 1 = i
      <4>1. i + 1 \in Bufs /\ i + 1 # 1 /\ i + 1 <= k /\ (i + 1) - 1 = i
        BY <1>1, <2>3, BcacheAssumption DEF Bufs
      <4> QED
        BY <4>1, ZenonT(60)
    <3>2. f[m] = t
      BY <2>1, <3>1, ZenonT(60)
    <3> QED
      BY <3>2, ZenonT(60)
  <2>4. CASE i > k
    <3>1. i # 1 /\ ~(i <= k)
      BY <1>1, <2>4, BcacheAssumption DEF Bufs
    <3>2. f[i] = t
      BY <2>1, <3>1, ZenonT(60)
    <3> QED
      BY <3>2, ZenonT(60)
  <2> QED
    BY <1>1, <2>2, <2>3, <2>4 DEF Bufs
<1> QED
  BY <1>2, <1>3, <1>4, ZenonT(60)

\* A buffer has no more users than there are processes.
LEMMA UsersFinite ==
  ASSUME NEW s
  PROVE  IsFiniteSet(Users(s)) /\ Cardinality(Users(s)) \in 0..Cardinality(Procs)
<1>1. Users(s) \in SUBSET Procs
  BY ZenonT(60) DEF Users
<1> QED
  BY <1>1, BcacheAssumption, FS_Subset, FS_CardinalityType

\* Nobody uses a free buffer, waits for it, has its lock or has it in the log.
LEMMA FreeUnused ==
  ASSUME IInv, NEW s \in Bufs, refcnt[s] = 0
  PROVE  /\ pinned[s] = 0 /\ owner[s] = NoProc /\ Users(s) = {}
         /\ \A q \in Procs : s \notin held[q] /\ (pc[q] # "run" => b[q] # s)
<1>1. Cardinality(Users(s)) \in Nat /\ pinned[s] \in {0, 1} /\ refcnt[s] = Cardinality(Users(s)) + pinned[s]
  BY UsersFinite DEF IInv, TypeOK, Counts
<1>2. Cardinality(Users(s)) = 0 /\ pinned[s] = 0
  BY <1>1
<1>3. Users(s) = {}
  BY <1>2, UsersFinite, FS_EmptySet, ZenonT(60)
<1>4. \A q \in Procs : s \notin held[q] /\ (pc[q] # "run" => b[q] # s)
  BY <1>3, ZenonT(60) DEF Users
<1>5. owner[s] = NoProc
  BY <1>4 DEF IInv, Owned, TypeOK
<1> QED
  BY <1>2, <1>3, <1>4, <1>5, ZenonT(60)

\* What bget() recycles.
LEMMA OldestUnused ==
  ASSUME IInv, Free # {}
  PROVE  /\ Oldest \in Bufs /\ pinned[Oldest] = 0 /\ owner[Oldest] = NoProc /\ Users(Oldest) = {}
         /\ \A q \in Procs : Oldest \notin held[q] /\ (pc[q] # "run" => b[q] # Oldest)
<1>1. Oldest \in Bufs /\ refcnt[Oldest] = 0
  BY OldestIsFree, ZenonT(60) DEF IInv, TypeOK, Free
<1> QED
  BY <1>1, FreeUnused, ZenonT(60)

\* Who asks for a block does not have it, and keeps to the habits that Nested states.
LEMMA Asked ==
  ASSUME IInv, NEW p \in Procs, NEW bn \in Blocks, MayAsk(p, bn)
  PROVE  /\ pc[p] = "run"
         /\ \A s \in held[p] :
              /\ blockno[s] # bn
              /\ \/ blockno[s] \in LogBlocks /\ bn \notin LogBlocks
                 \/ blockno[s] \in mine[p] /\ bn \in Bitmap \union mine[p]
<1>0. /\ \A s \in held[p] : blockno[s] \in Has(p)
      /\ mine[p] \in SUBSET FileBlocks /\ LogBlocks \intersect (MetaBlocks \union FileBlocks) = {}
      /\ MetaBlocks \intersect FileBlocks = {} /\ Bitmap \subseteq MetaBlocks
  BY BcacheAssumption, ZenonT(60) DEF IInv, TypeOK, Has
<1>1. CASE fresh[p] = NoBlock /\ AskFirst(p, bn)
  BY <1>0, <1>1, ZenonT(60) DEF MayAsk, AskFirst
<1>2. CASE fresh[p] = NoBlock /\ AskHome(p, bn)
  BY <1>0, <1>2, ZenonT(60) DEF MayAsk, AskHome
<1>3. CASE fresh[p] = NoBlock /\ AskBitmap(p, bn)
  BY <1>0, <1>3, ZenonT(60) DEF MayAsk, AskBitmap
<1>4. CASE fresh[p] # NoBlock /\ AskFresh(p, bn)
  <2>1. bn \in mine[p] /\ \A s \in held[p] : blockno[s] # bn
    BY <1>4, ZenonT(60) DEF AskFresh, IInv, Nested, Habit
  <2> QED
    BY <1>0, <1>4, <2>1, ZenonT(60) DEF MayAsk, AskFresh
<1> QED
  BY <1>1, <1>2, <1>3, <1>4, ZenonT(60) DEF MayAsk

CountsOK == refcnt \in [Bufs -> 0..Cardinality(Procs) + 1] /\ Counts

\* refcnt stays within bounds if it counts users.
LEMMA CountsBound ==
  ASSUME NEW R \in [Bufs -> Int], NEW G \in [Bufs -> {0, 1}], NEW U \in [Bufs -> SUBSET Procs],
         \A t \in Bufs : R[t] = Cardinality(U[t]) + G[t]
  PROVE  R \in [Bufs -> 0..Cardinality(Procs) + 1]
<1>1. Cardinality(Procs) \in Nat
  BY BcacheAssumption, FS_CardinalityType, ZenonT(60)
<1>2. ASSUME NEW t \in Bufs PROVE R[t] \in 0..Cardinality(Procs) + 1
  <2>1. IsFiniteSet(U[t]) /\ Cardinality(U[t]) <= Cardinality(Procs) /\ Cardinality(U[t]) \in Nat
    BY BcacheAssumption, FS_Subset, FS_CardinalityType, ZenonT(60)
  <2> QED
    BY <1>1, <2>1
<1> QED
  BY <1>2, ZenonT(60)

\* The same for the state after a step.
LEMMA CountsNext ==
  ASSUME refcnt' \in [Bufs -> Int], pinned' \in [Bufs -> {0, 1}], Counts'
  PROVE  CountsOK'
<1> DEFINE U == [t \in Bufs |-> Users(t)']
<1>1. U \in [Bufs -> SUBSET Procs] /\ \A t \in Bufs : U[t] = Users(t)'
  BY ZenonT(60) DEF Users
<1>2. \A t \in Bufs : refcnt'[t] = Cardinality(U[t]) + pinned'[t]
  BY <1>1, ZenonT(60) DEF Counts
<1> HIDE DEF U
<1> QED
  BY <1>1, <1>2, CountsBound, ZenonT(60) DEF CountsOK

\* A step that changes no count.
LEMMA CountsSame ==
  ASSUME IInv, UNCHANGED <<refcnt, pinned>>, \A t \in Bufs : Users(t)' = Users(t)
  PROVE  CountsOK'
  BY ZenonT(60) DEF IInv, TypeOK, Counts, CountsOK

\* A step counts the references that it takes and gives back.
LEMMA CountsOKStep == IInv /\ Next => CountsOK'
<1> SUFFICES ASSUME IInv, Next PROVE CountsOK'
  OBVIOUS
<1>0. /\ Counts /\ Using /\ refcnt \in [Bufs -> Int] /\ pinned \in [Bufs -> {0, 1}] /\ b \in [Procs -> Bufs]
      /\ held \in [Procs -> SUBSET Bufs] /\ pc \in [Procs -> {"run", "acquire", "asleep", "bread", "brelse"}]
  BY BcacheAssumption, FS_CardinalityType, SMTT(60) DEF IInv, TypeOK
<1> USE <1>0
<1>1. ASSUME NEW p \in Procs, acquiresleep_sleep(p) PROVE CountsOK'
  <2>1. \A t \in Bufs : Users(t)' = Users(t)
    BY <1>1, ZenonT(60) DEF acquiresleep_sleep, Users, Wait, Woken
  <2> QED
    BY <1>1, <2>1, CountsSame, ZenonT(60) DEF acquiresleep_sleep, buf
<1>2. ASSUME NEW p \in Procs, acquiresleep(p) PROVE CountsOK'
  <2>1. \A t \in Bufs : Users(t)' = Users(t)
    BY <1>2, ZenonT(60) DEF acquiresleep, Users, Wait, Woken
  <2> QED
    BY <1>2, <2>1, CountsSame, ZenonT(60) DEF acquiresleep, buf
<1>3. ASSUME NEW p \in Procs, bread(p) PROVE CountsOK'
  <2>1. \A t \in Bufs : Users(t)' = Users(t)
    BY <1>3, ZenonT(60) DEF bread, Users, Wait, Woken
  <2> QED
    BY <1>3, <2>1, CountsSame, ZenonT(60) DEF bread, buf
<1>4. ASSUME NEW p \in Procs, brelse_refcnt(p) PROVE CountsOK'
  <2>1. PICK s \in Bufs :
          /\ s = b[p] /\ pc[p] = "brelse" /\ refcnt' = [refcnt EXCEPT ![s] = @ - 1] /\ s \notin held[p]
          /\ pc' = [pc EXCEPT ![p] = "run"] /\ b' = [b EXCEPT ![p] = 1] /\ UNCHANGED <<held, pinned>>
    BY <1>4, ZenonT(60) DEF brelse_refcnt, Using
  <2>2. Users(s)' = Users(s) \ {p} /\ p \in Users(s)
    BY <2>1, ZenonT(60) DEF Users
  <2>3. \A t \in Bufs : t # s => Users(t)' = Users(t)
    BY <2>1, ZenonT(60) DEF Users
  <2>4. Cardinality(Users(s)') = Cardinality(Users(s)) - 1
    BY <2>2, UsersFinite, FS_RemoveElement, Zenon
  <2>5. Counts'
    BY <2>1, <2>3, <2>4, UsersFinite DEF Counts
  <2> QED
    BY <2>1, <2>5, CountsNext
<1>5. ASSUME NEW p \in Procs, NEW bn \in Blocks, bget_cached(p, bn) PROVE CountsOK'
  <2>1. PICK s \in Cached(bn) : refcnt' = [refcnt EXCEPT ![s] = @ + 1] /\ Wait(p, s)
    BY <1>5, ZenonT(60) DEF bget_cached
  <2>2. s \in Bufs /\ pc[p] = "run" /\ s \notin held[p] /\ UNCHANGED <<held, pinned>>
    BY <1>5, <2>1, Asked, ZenonT(60) DEF bget_cached, Cached
  <2>3. Users(s)' = Users(s) \union {p} /\ p \notin Users(s)
    BY <2>1, <2>2, ZenonT(60) DEF Users, Wait
  <2>4. \A t \in Bufs : t # s => Users(t)' = Users(t)
    BY <2>1, <2>2, ZenonT(60) DEF Users, Wait
  <2>5. Cardinality(Users(s)') = Cardinality(Users(s)) + 1
    BY <2>3, UsersFinite, FS_AddElement, Zenon
  <2>6. Counts'
    BY <2>1, <2>2, <2>4, <2>5, UsersFinite DEF Counts
  <2> QED
    BY <2>1, <2>2, <2>6, CountsNext
<1>6. ASSUME NEW p \in Procs, NEW bn \in Blocks, bget_recycle(p, bn) PROVE CountsOK'
  <2>1. CASE Free = {}
    <3>1. \A t \in Bufs : Users(t)' = Users(t)
      BY <1>6, <2>1, ZenonT(60) DEF bget_recycle, Users
    <3> QED
      BY <1>6, <2>1, <3>1, CountsSame, ZenonT(60) DEF bget_recycle
  <2>2. CASE Free # {}
    <3>1. PICK s \in Bufs :
            /\ pinned[s] = 0 /\ Users(s) = {} /\ refcnt' = [refcnt EXCEPT ![s] = 1] /\ Wait(p, s)
            /\ pc[p] = "run" /\ UNCHANGED <<held, pinned>>
      BY <1>6, <2>2, OldestUnused, ZenonT(60) DEF bget_recycle, MayAsk
    <3>2. Users(s)' = {p}
      BY <3>1, ZenonT(60) DEF Users, Wait
    <3>3. \A t \in Bufs : t # s => Users(t)' = Users(t)
      BY <3>1, ZenonT(60) DEF Users, Wait
    <3>4. Cardinality({p}) = 1
      BY FS_Singleton, Zenon
    <3>5. Counts'
      BY <3>1, <3>2, <3>3, <3>4 DEF Counts
    <3> QED
      BY <3>1, <3>5, CountsNext
  <2> QED
    BY <2>1, <2>2, ZenonT(60)
<1>7. ASSUME NEW p \in Procs, NEW s \in Bufs, bwrite(p, s) PROVE CountsOK'
  <2>1. \A t \in Bufs : Users(t)' = Users(t)
    BY <1>7, ZenonT(60) DEF bwrite, Users, Wait, Woken
  <2> QED
    BY <1>7, <2>1, CountsSame, ZenonT(60) DEF bwrite, buf
<1>8. ASSUME NEW p \in Procs, NEW s \in Bufs, bpin(p, s) PROVE CountsOK'
  <2>1. \A t \in Bufs : Users(t)' = Users(t)
    BY <1>8, ZenonT(60) DEF bpin, Users
  <2>2. Counts'
    BY <1>8, <2>1, UsersFinite DEF bpin, Counts
  <2>3. refcnt' \in [Bufs -> Int] /\ pinned' \in [Bufs -> {0, 1}]
    BY <1>8 DEF bpin
  <2> QED
    BY <2>2, <2>3, CountsNext, ZenonT(60)
<1>9. ASSUME NEW p \in Procs, NEW s \in Bufs, bunpin(p, s) PROVE CountsOK'
  <2>1. \A t \in Bufs : Users(t)' = Users(t)
    BY <1>9, ZenonT(60) DEF bunpin, Users
  <2>2. Counts'
    BY <1>9, <2>1, UsersFinite DEF bunpin, Counts
  <2>3. refcnt' \in [Bufs -> Int] /\ pinned' \in [Bufs -> {0, 1}]
    BY <1>9 DEF bunpin
  <2> QED
    BY <2>2, <2>3, CountsNext, ZenonT(60)
<1>10. ASSUME NEW p \in Procs, NEW s \in Bufs, brelse(p, s) PROVE CountsOK'
  <2>1. \A t \in Bufs : Users(t)' = Users(t)
    BY <1>10, ZenonT(60) DEF brelse, Users, Wait, Woken
  <2> QED
    BY <1>10, <2>1, CountsSame, ZenonT(60) DEF brelse, buf
<1>11. ASSUME NEW p \in Procs, NEW s \in Bufs, NEW v \in Values, store(p, s, v)
       PROVE  CountsOK'
  <2>1. \A t \in Bufs : Users(t)' = Users(t)
    BY <1>11, ZenonT(60) DEF store, Users, Wait, Woken
  <2> QED
    BY <1>11, <2>1, CountsSame, ZenonT(60) DEF store, buf
<1>12. ASSUME NEW p \in Procs, NEW S \in SUBSET FileBlocks, ilock(p, S) PROVE CountsOK'
  <2>1. \A t \in Bufs : Users(t)' = Users(t)
    BY <1>12, ZenonT(60) DEF ilock, Users
  <2> QED
    BY <1>12, <2>1, CountsSame, ZenonT(60) DEF ilock, buf
<1>13. ASSUME NEW p \in Procs, NEW S \in SUBSET FileBlocks, iunlock(p, S) PROVE CountsOK'
  <2>1. \A t \in Bufs : Users(t)' = Users(t)
    BY <1>13, ZenonT(60) DEF iunlock, Users
  <2> QED
    BY <1>13, <2>1, CountsSame, ZenonT(60) DEF iunlock, buf
<1>14. ASSUME NEW p \in Procs, NEW s \in Bufs, NEW bn \in FileBlocks, NEW v \in Values, balloc(p, s, bn, v)
       PROVE  CountsOK'
  <2>1. \A t \in Bufs : Users(t)' = Users(t)
    BY <1>14, ZenonT(60) DEF balloc, Users
  <2> QED
    BY <1>14, <2>1, CountsSame, ZenonT(60) DEF balloc, buf
<1>15. ASSUME NEW p \in Procs, NEW s \in Bufs, NEW bn \in FileBlocks, NEW v \in Values, bfree(p, s, bn, v)
       PROVE  CountsOK'
  <2>1. \A t \in Bufs : Users(t)' = Users(t)
    BY <1>15, ZenonT(60) DEF bfree, Users
  <2> QED
    BY <1>15, <2>1, CountsSame, ZenonT(60) DEF bfree, buf
<1> QED
  BY <1>1, <1>2, <1>3, <1>4, <1>5, <1>6, <1>7, <1>8, <1>9, <1>10, <1>11, <1>12, <1>13, <1>14,
     <1>15, ZenonT(60) DEF Next, Step

\* A step keeps the types, and every buffer in the list.
LEMMA TypeOKStep == IInv /\ Next => TypeOK'
<1> SUFFICES ASSUME IInv, Next PROVE TypeOK'
  OBVIOUS
<1>l. \A s \in Bufs : /\ Front(s) \in [Bufs -> Bufs]
                     /\ \A t \in Bufs : \E k \in Bufs : Front(s)[k] = t
  BY FrontIsList, ZenonT(60) DEF IInv, TypeOK
<1>0. TypeOK /\ Using /\ CountsOK' /\ 1 \in Bufs
  BY CountsOKStep, BcacheAssumption DEF IInv, Bufs
<1> USE <1>0
<1> USE DEF TypeOK, CountsOK, buf, files
<1>1. ASSUME NEW p \in Procs, acquiresleep_sleep(p) PROVE TypeOK'
  BY <1>1, ZenonT(60) DEF acquiresleep_sleep
<1>2. ASSUME NEW p \in Procs, acquiresleep(p) PROVE TypeOK'
  BY <1>2, ZenonT(60) DEF acquiresleep
<1>3. ASSUME NEW p \in Procs, bread(p) PROVE TypeOK'
  <2>1. blockno[b[p]] \in Blocks /\ b[p] \in Bufs
    BY <1>3, ZenonT(60) DEF bread, Using, Asking
  <2>2. data' \in [Bufs -> Values] /\ held' \in [Procs -> SUBSET Bufs]
    BY <1>3, <2>1, ZenonT(60) DEF bread
  <2> QED
    BY <1>3, <2>2, ZenonT(60) DEF bread
<1>4. ASSUME NEW p \in Procs, brelse_refcnt(p) PROVE TypeOK'
  <2>1. b[p] \in Bufs /\ (lru' = lru \/ lru' = Front(b[p]))
    BY <1>4, ZenonT(60) DEF brelse_refcnt
  <2>2. lru' \in [Bufs -> Bufs] /\ \A s \in Bufs : \E k \in Bufs : lru'[k] = s
    <3>1. CASE lru' = lru
      BY <3>1, ZenonT(60)
    <3>2. CASE lru' = Front(b[p])
      <4>1. /\ Front(b[p]) \in [Bufs -> Bufs]
            /\ \A s \in Bufs : \E k \in Bufs : Front(b[p])[k] = s
        BY <1>l, <2>1, ZenonT(60)
      <4> QED
        BY <3>2, <4>1, ZenonT(60)
    <3> QED
      BY <2>1, <3>1, <3>2, ZenonT(60)
  <2> QED
    BY <1>4, <2>2, ZenonT(60) DEF brelse_refcnt
<1>5. ASSUME NEW p \in Procs, NEW bn \in Blocks, bget_cached(p, bn) PROVE TypeOK'
  BY <1>5 DEF bget_cached, Wait, Cached
<1>6. ASSUME NEW p \in Procs, NEW bn \in Blocks, bget_recycle(p, bn) PROVE TypeOK'
  <2>1. Free # {} => Oldest \in Bufs
    BY OldestUnused, ZenonT(60)
  <2>2. CASE Free = {}
    BY <1>6, <2>2, ZenonT(60) DEF bget_recycle
  <2>3. CASE Free # {}
    <3>1. PICK s \in Bufs :
            /\ blockno' = [blockno EXCEPT ![s] = bn] /\ valid' = [valid EXCEPT ![s] = 0]
            /\ Wait(p, s) /\ UNCHANGED <<panicked, disk, lru, data, owner, pinned, held, inuse, mine>>
      BY <1>6, <2>1, <2>3, ZenonT(60) DEF bget_recycle, Recycled
    <3> QED
      BY <3>1, ZenonT(60) DEF Wait
  <2> QED
    BY <2>2, <2>3, ZenonT(60)
<1>7. ASSUME NEW p \in Procs, NEW s \in Bufs, bwrite(p, s) PROVE TypeOK'
  BY <1>7, ZenonT(60) DEF bwrite
<1>8. ASSUME NEW p \in Procs, NEW s \in Bufs, bpin(p, s) PROVE TypeOK'
  BY <1>8, ZenonT(60) DEF bpin
<1>9. ASSUME NEW p \in Procs, NEW s \in Bufs, bunpin(p, s) PROVE TypeOK'
  BY <1>9, ZenonT(60) DEF bunpin
<1>10. ASSUME NEW p \in Procs, NEW s \in Bufs, brelse(p, s) PROVE TypeOK'
  BY <1>10, ZenonT(60) DEF brelse, Woken
<1>11. ASSUME NEW p \in Procs, NEW s \in Bufs, NEW v \in Values, store(p, s, v)
       PROVE  TypeOK'
  BY <1>11, ZenonT(60) DEF store
<1>12. ASSUME NEW p \in Procs, NEW S \in SUBSET FileBlocks, ilock(p, S) PROVE TypeOK'
  BY <1>12, ZenonT(60) DEF ilock
<1>13. ASSUME NEW p \in Procs, NEW S \in SUBSET FileBlocks, iunlock(p, S) PROVE TypeOK'
  BY <1>13, ZenonT(60) DEF iunlock
<1>14. ASSUME NEW p \in Procs, NEW s \in Bufs, NEW bn \in FileBlocks, NEW v \in Values, balloc(p, s, bn, v)
       PROVE  TypeOK'
  BY <1>14, ZenonT(60) DEF balloc, Marked
<1>15. ASSUME NEW p \in Procs, NEW s \in Bufs, NEW bn \in FileBlocks, NEW v \in Values, bfree(p, s, bn, v)
       PROVE  TypeOK'
  BY <1>15, ZenonT(60) DEF bfree
<1> QED
  BY <1>1, <1>2, <1>3, <1>4, <1>5, <1>6, <1>7, <1>8, <1>9, <1>10, <1>11, <1>12, <1>13, <1>14,
     <1>15, ZenonT(60) DEF Next, Step

\* A step gives no block a second buffer.
LEMMA UniqueStep == IInv /\ Next => Unique'
<1> SUFFICES ASSUME IInv, Next PROVE Unique'
  OBVIOUS
<1>0. Unique /\ blockno \in [Bufs -> Blocks \union {NoBlock}] /\ NoBlock \notin Blocks
  BY BcacheAssumption, ZenonT(60) DEF IInv, TypeOK
<1> USE <1>0
<1> USE DEF Unique, buf
<1>1. ASSUME NEW p \in Procs, acquiresleep_sleep(p) PROVE Unique'
  BY <1>1, ZenonT(60) DEF acquiresleep_sleep
<1>2. ASSUME NEW p \in Procs, acquiresleep(p) PROVE Unique'
  BY <1>2, ZenonT(60) DEF acquiresleep
<1>3. ASSUME NEW p \in Procs, bread(p) PROVE Unique'
  BY <1>3, ZenonT(60) DEF bread
<1>4. ASSUME NEW p \in Procs, brelse_refcnt(p) PROVE Unique'
  BY <1>4, ZenonT(60) DEF brelse_refcnt
<1>5. ASSUME NEW p \in Procs, NEW bn \in Blocks, bget_cached(p, bn) PROVE Unique'
  BY <1>5, ZenonT(60) DEF bget_cached
<1>6. ASSUME NEW p \in Procs, NEW bn \in Blocks, bget_recycle(p, bn) PROVE Unique'
  <2>1. Free # {} => Oldest \in Bufs
    BY OldestUnused, ZenonT(60)
  <2> HIDE DEF Oldest
  <2> QED
    BY <1>6, <2>1, ZenonT(60) DEF bget_recycle, Cached
<1>7. ASSUME NEW p \in Procs, NEW s \in Bufs, bwrite(p, s) PROVE Unique'
  BY <1>7, ZenonT(60) DEF bwrite
<1>8. ASSUME NEW p \in Procs, NEW s \in Bufs, bpin(p, s) PROVE Unique'
  BY <1>8, ZenonT(60) DEF bpin
<1>9. ASSUME NEW p \in Procs, NEW s \in Bufs, bunpin(p, s) PROVE Unique'
  BY <1>9, ZenonT(60) DEF bunpin
<1>10. ASSUME NEW p \in Procs, NEW s \in Bufs, brelse(p, s) PROVE Unique'
  BY <1>10, ZenonT(60) DEF brelse
<1>11. ASSUME NEW p \in Procs, NEW s \in Bufs, NEW v \in Values, store(p, s, v)
       PROVE  Unique'
  BY <1>11, ZenonT(60) DEF store
<1>12. ASSUME NEW p \in Procs, NEW S \in SUBSET FileBlocks, ilock(p, S) PROVE Unique'
  BY <1>12, ZenonT(60) DEF ilock
<1>13. ASSUME NEW p \in Procs, NEW S \in SUBSET FileBlocks, iunlock(p, S) PROVE Unique'
  BY <1>13, ZenonT(60) DEF iunlock
<1>14. ASSUME NEW p \in Procs, NEW s \in Bufs, NEW bn \in FileBlocks, NEW v \in Values, balloc(p, s, bn, v)
       PROVE  Unique'
  BY <1>14, ZenonT(60) DEF balloc
<1>15. ASSUME NEW p \in Procs, NEW s \in Bufs, NEW bn \in FileBlocks, NEW v \in Values, bfree(p, s, bn, v)
       PROVE  Unique'
  BY <1>15, ZenonT(60) DEF bfree
<1> QED
  BY <1>1, <1>2, <1>3, <1>4, <1>5, <1>6, <1>7, <1>8, <1>9, <1>10, <1>11, <1>12, <1>13, <1>14,
     <1>15, ZenonT(60) DEF Next, Step

\* bget() panics only when no buffer is free.
LEMMA FullStep == IInv /\ Next => Full'
<1> SUFFICES ASSUME IInv, Next PROVE Full'
  OBVIOUS
<1>p. panicked = 0
  BY ZenonT(60) DEF Next
<1>0. /\ Counts /\ Owned /\ panicked = 0 /\ refcnt \in [Bufs -> Int]
      /\ pinned \in [Bufs -> {0, 1}] /\ NoProc \notin Procs
  BY <1>p, BcacheAssumption, FS_CardinalityType DEF IInv, TypeOK
<1> USE <1>0
<1>1. ASSUME NEW p \in Procs, acquiresleep_sleep(p) PROVE Full'
  <2>1. panicked' # 1
    BY <1>1 DEF acquiresleep_sleep
  <2> QED
    BY <2>1, ZenonT(60) DEF Full
<1>2. ASSUME NEW p \in Procs, acquiresleep(p) PROVE Full'
  <2>1. panicked' # 1
    BY <1>2 DEF acquiresleep
  <2> QED
    BY <2>1, ZenonT(60) DEF Full
<1>3. ASSUME NEW p \in Procs, bread(p) PROVE Full'
  <2>1. panicked' # 1
    BY <1>3 DEF bread
  <2> QED
    BY <2>1, ZenonT(60) DEF Full
<1>4. ASSUME NEW p \in Procs, brelse_refcnt(p) PROVE Full'
  <2>1. panicked' # 1
    BY <1>4 DEF brelse_refcnt
  <2> QED
    BY <2>1, ZenonT(60) DEF Full
<1>5. ASSUME NEW p \in Procs, NEW bn \in Blocks, bget_cached(p, bn) PROVE Full'
  <2>1. panicked' # 1
    BY <1>5 DEF bget_cached
  <2> QED
    BY <2>1, ZenonT(60) DEF Full
<1>6. ASSUME NEW p \in Procs, NEW bn \in Blocks, bget_recycle(p, bn) PROVE Full'
  <2>1. CASE Free = {}
    <3>1. \A s \in Bufs : Users(s)' = Users(s) /\ pinned'[s] = pinned[s]
      BY <1>6, <2>1, ZenonT(60) DEF bget_recycle, Users
    <3>2. ASSUME NEW s \in Bufs PROVE Users(s) # {} \/ pinned[s] = 1
      <4>1. refcnt[s] # 0 /\ refcnt[s] = Cardinality(Users(s)) + pinned[s] /\ pinned[s] \in {0, 1}
        BY <2>1, ZenonT(60) DEF Free, Counts
      <4>2. pinned[s] = 0 => Cardinality(Users(s)) # 0
        BY <4>1
      <4> QED
        BY <4>1, <4>2, FS_EmptySet, Zenon
    <3> QED
      BY <3>1, <3>2, Zenon DEF Full
  <2>2. CASE Free # {}
    BY <1>6, <2>2, ZenonT(60) DEF bget_recycle, Full
  <2> QED
    BY <2>1, <2>2, ZenonT(60)
<1>7. ASSUME NEW p \in Procs, NEW s \in Bufs, bwrite(p, s) PROVE Full'
  <2>1. panicked' # 1
    BY <1>7 DEF bwrite, Owned
  <2> QED
    BY <2>1, ZenonT(60) DEF Full
<1>8. ASSUME NEW p \in Procs, NEW s \in Bufs, bpin(p, s) PROVE Full'
  <2>1. panicked' # 1
    BY <1>8 DEF bpin
  <2> QED
    BY <2>1, ZenonT(60) DEF Full
<1>9. ASSUME NEW p \in Procs, NEW s \in Bufs, bunpin(p, s) PROVE Full'
  <2>1. panicked' # 1
    BY <1>9 DEF bunpin
  <2> QED
    BY <2>1, ZenonT(60) DEF Full
<1>10. ASSUME NEW p \in Procs, NEW s \in Bufs, brelse(p, s) PROVE Full'
  <2>1. panicked' # 1
    BY <1>10 DEF brelse, Owned
  <2> QED
    BY <2>1, ZenonT(60) DEF Full
<1>11. ASSUME NEW p \in Procs, NEW s \in Bufs, NEW v \in Values, store(p, s, v) PROVE Full'
  <2>1. panicked' # 1
    BY <1>11 DEF store
  <2> QED
    BY <2>1, ZenonT(60) DEF Full
<1>12. ASSUME NEW p \in Procs, NEW S \in SUBSET FileBlocks, ilock(p, S) PROVE Full'
  <2>1. panicked' # 1
    BY <1>12 DEF ilock
  <2> QED
    BY <2>1, ZenonT(60) DEF Full
<1>13. ASSUME NEW p \in Procs, NEW S \in SUBSET FileBlocks, iunlock(p, S) PROVE Full'
  <2>1. panicked' # 1
    BY <1>13 DEF iunlock
  <2> QED
    BY <2>1, ZenonT(60) DEF Full
<1>14. ASSUME NEW p \in Procs, NEW s \in Bufs, NEW bn \in FileBlocks, NEW v \in Values, balloc(p, s, bn, v)
       PROVE  Full'
  <2>1. panicked' # 1
    BY <1>14 DEF balloc
  <2> QED
    BY <2>1, ZenonT(60) DEF Full
<1>15. ASSUME NEW p \in Procs, NEW s \in Bufs, NEW bn \in FileBlocks, NEW v \in Values, bfree(p, s, bn, v)
       PROVE  Full'
  <2>1. panicked' # 1
    BY <1>15 DEF bfree
  <2> QED
    BY <2>1, ZenonT(60) DEF Full
<1> QED
  BY <1>1, <1>2, <1>3, <1>4, <1>5, <1>6, <1>7, <1>8, <1>9, <1>10, <1>11, <1>12, <1>13, <1>14,
     <1>15, ZenonT(60) DEF Next, Step

\* A step keeps the lock of a buffer with the process that uses it.
LEMMA OwnedStep == IInv /\ Next => Owned'
<1> SUFFICES ASSUME IInv, Next PROVE Owned'
  OBVIOUS
<1>0. /\ Owned /\ Using
      /\ disk \in [Blocks -> Values] /\ blockno \in [Bufs -> Blocks \union {NoBlock}]
      /\ valid \in [Bufs -> {0, 1}] /\ data \in [Bufs -> Values] /\ b \in [Procs -> Bufs]
      /\ owner \in [Bufs -> Procs \union {NoProc}] /\ pinned \in [Bufs -> {0, 1}]
      /\ held \in [Procs -> SUBSET Bufs]
      /\ pc \in [Procs -> {"run", "acquire", "asleep", "bread", "brelse"}]
      /\ NoProc \notin Procs /\ NoBlock \notin Blocks
  BY BcacheAssumption, ZenonT(60) DEF IInv, TypeOK
<1> USE <1>0
<1> USE DEF Owned, buf
<1>1. ASSUME NEW p \in Procs, acquiresleep_sleep(p) PROVE Owned'
  BY <1>1 DEF acquiresleep_sleep
<1>2. ASSUME NEW p \in Procs, acquiresleep(p) PROVE Owned'
  BY <1>2 DEF acquiresleep
<1>3. ASSUME NEW p \in Procs, bread(p) PROVE Owned'
  BY <1>3 DEF bread, Using
<1>4. ASSUME NEW p \in Procs, brelse_refcnt(p) PROVE Owned'
  BY <1>4 DEF brelse_refcnt
<1>5. ASSUME NEW p \in Procs, NEW bn \in Blocks, bget_cached(p, bn) PROVE Owned'
  BY <1>5 DEF bget_cached, Wait, MayAsk
<1>6. ASSUME NEW p \in Procs, NEW bn \in Blocks, bget_recycle(p, bn) PROVE Owned'
  BY <1>6 DEF bget_recycle, Wait, MayAsk
<1>7. ASSUME NEW p \in Procs, NEW s \in Bufs, bwrite(p, s) PROVE Owned'
  BY <1>7 DEF bwrite
<1>8. ASSUME NEW p \in Procs, NEW s \in Bufs, bpin(p, s) PROVE Owned'
  BY <1>8 DEF bpin
<1>9. ASSUME NEW p \in Procs, NEW s \in Bufs, bunpin(p, s) PROVE Owned'
  BY <1>9 DEF bunpin
<1>10. ASSUME NEW p \in Procs, NEW s \in Bufs, brelse(p, s) PROVE Owned'
  BY <1>10 DEF brelse, Woken
<1>11. ASSUME NEW p \in Procs, NEW s \in Bufs, NEW v \in Values, store(p, s, v) PROVE Owned'
  BY <1>11 DEF store
<1>12. ASSUME NEW p \in Procs, NEW S \in SUBSET FileBlocks, ilock(p, S) PROVE Owned'
  BY <1>12 DEF ilock
<1>13. ASSUME NEW p \in Procs, NEW S \in SUBSET FileBlocks, iunlock(p, S) PROVE Owned'
  BY <1>13 DEF iunlock
<1>14. ASSUME NEW p \in Procs, NEW s \in Bufs, NEW bn \in FileBlocks, NEW v \in Values, balloc(p, s, bn, v)
       PROVE  Owned'
  BY <1>14 DEF balloc
<1>15. ASSUME NEW p \in Procs, NEW s \in Bufs, NEW bn \in FileBlocks, NEW v \in Values, bfree(p, s, bn, v)
       PROVE  Owned'
  BY <1>15 DEF bfree
<1> QED
  BY <1>1, <1>2, <1>3, <1>4, <1>5, <1>6, <1>7, <1>8, <1>9, <1>10, <1>11, <1>12, <1>13, <1>14,
     <1>15, ZenonT(60) DEF Next, Step

\* A step leaves the buffer that a process uses or waits for to the block it asked for.
LEMMA UsingStep == IInv /\ Next => Using'
<1> SUFFICES ASSUME IInv, Next PROVE Using'
  OBVIOUS
<1>0. /\ Using /\ Owned
      /\ disk \in [Blocks -> Values] /\ blockno \in [Bufs -> Blocks \union {NoBlock}]
      /\ valid \in [Bufs -> {0, 1}] /\ data \in [Bufs -> Values] /\ b \in [Procs -> Bufs]
      /\ owner \in [Bufs -> Procs \union {NoProc}] /\ pinned \in [Bufs -> {0, 1}]
      /\ held \in [Procs -> SUBSET Bufs]
      /\ pc \in [Procs -> {"run", "acquire", "asleep", "bread", "brelse"}]
      /\ NoProc \notin Procs /\ NoBlock \notin Blocks
  BY BcacheAssumption, ZenonT(60) DEF IInv, TypeOK
<1> USE <1>0
<1> USE DEF Using, Asking, buf
<1>1. ASSUME NEW p \in Procs, acquiresleep_sleep(p) PROVE Using'
  BY <1>1, ZenonT(60) DEF acquiresleep_sleep
<1>2. ASSUME NEW p \in Procs, acquiresleep(p) PROVE Using'
  BY <1>2, ZenonT(60) DEF acquiresleep
<1>3. ASSUME NEW p \in Procs, bread(p) PROVE Using'
  BY <1>3 DEF bread
<1>4. ASSUME NEW p \in Procs, brelse_refcnt(p) PROVE Using'
  BY <1>4, ZenonT(60) DEF brelse_refcnt
<1>5. ASSUME NEW p \in Procs, NEW bn \in Blocks, bget_cached(p, bn) PROVE Using'
  <2>1. PICK s \in Bufs : blockno[s] = bn /\ Wait(p, s)
    BY <1>5, ZenonT(60) DEF bget_cached, Cached
  <2>2. pc[p] = "run" /\ \A t \in held[p] : blockno[t] # bn
    BY <1>5, Asked, ZenonT(60) DEF bget_cached
  <2> QED
    BY <1>5, <2>1, <2>2, ZenonT(60) DEF bget_cached, Wait
<1>6. ASSUME NEW p \in Procs, NEW bn \in Blocks, bget_recycle(p, bn) PROVE Using'
  <2>1. CASE Free = {}
    BY <1>6, <2>1, ZenonT(60) DEF bget_recycle
  <2>2. CASE Free # {}
    <3>1. PICK s \in Bufs :
            /\ blockno' = [blockno EXCEPT ![s] = bn] /\ valid' = [valid EXCEPT ![s] = 0] /\ Wait(p, s)
            /\ \A q \in Procs : s \notin held[q] /\ (pc[q] # "run" => b[q] # s)
      BY <1>6, <2>2, OldestUnused, ZenonT(60) DEF bget_recycle, Recycled
    <3>2. pc[p] = "run" /\ UNCHANGED <<owner, held>>
      BY <1>6, ZenonT(60) DEF bget_recycle, MayAsk
    <3> QED
      BY <3>1, <3>2, ZenonT(60) DEF Wait
  <2> QED
    BY <2>1, <2>2, ZenonT(60)
<1>7. ASSUME NEW p \in Procs, NEW s \in Bufs, bwrite(p, s) PROVE Using'
  BY <1>7, ZenonT(60) DEF bwrite
<1>8. ASSUME NEW p \in Procs, NEW s \in Bufs, bpin(p, s) PROVE Using'
  BY <1>8, ZenonT(60) DEF bpin
<1>9. ASSUME NEW p \in Procs, NEW s \in Bufs, bunpin(p, s) PROVE Using'
  BY <1>9, ZenonT(60) DEF bunpin
<1>10. ASSUME NEW p \in Procs, NEW s \in Bufs, brelse(p, s) PROVE Using'
  BY <1>10, ZenonT(60) DEF brelse, Woken
<1>11. ASSUME NEW p \in Procs, NEW s \in Bufs, NEW v \in Values, store(p, s, v) PROVE Using'
  BY <1>11, ZenonT(60) DEF store
<1>12. ASSUME NEW p \in Procs, NEW S \in SUBSET FileBlocks, ilock(p, S) PROVE Using'
  BY <1>12, ZenonT(60) DEF ilock
<1>13. ASSUME NEW p \in Procs, NEW S \in SUBSET FileBlocks, iunlock(p, S) PROVE Using'
  BY <1>13, ZenonT(60) DEF iunlock
<1>14. ASSUME NEW p \in Procs, NEW s \in Bufs, NEW bn \in FileBlocks, NEW v \in Values, balloc(p, s, bn, v)
       PROVE  Using'
  BY <1>14, ZenonT(60) DEF balloc
<1>15. ASSUME NEW p \in Procs, NEW s \in Bufs, NEW bn \in FileBlocks, NEW v \in Values, bfree(p, s, bn, v)
       PROVE  Using'
  BY <1>15, ZenonT(60) DEF bfree
<1> QED
  BY <1>1, <1>2, <1>3, <1>4, <1>5, <1>6, <1>7, <1>8, <1>9, <1>10, <1>11, <1>12, <1>13, <1>14,
     <1>15, ZenonT(60) DEF Next, Step

\* A step fills a buffer before it goes to the log, and empties only one that is not in it.
LEMMA FilledStep == IInv /\ Next => Filled'
<1> SUFFICES ASSUME IInv, Next PROVE Filled'
  OBVIOUS
<1>0. /\ Filled /\ Owned /\ Using /\ Unique
      /\ disk \in [Blocks -> Values] /\ blockno \in [Bufs -> Blocks \union {NoBlock}]
      /\ valid \in [Bufs -> {0, 1}] /\ data \in [Bufs -> Values] /\ b \in [Procs -> Bufs]
      /\ owner \in [Bufs -> Procs \union {NoProc}] /\ pinned \in [Bufs -> {0, 1}]
      /\ held \in [Procs -> SUBSET Bufs]
      /\ pc \in [Procs -> {"run", "acquire", "asleep", "bread", "brelse"}]
      /\ NoProc \notin Procs /\ NoBlock \notin Blocks
  BY BcacheAssumption, ZenonT(60) DEF IInv, TypeOK
<1> USE <1>0
<1> USE DEF Filled, buf
<1>1. ASSUME NEW p \in Procs, acquiresleep_sleep(p) PROVE Filled'
  BY <1>1, ZenonT(60) DEF acquiresleep_sleep
<1>2. ASSUME NEW p \in Procs, acquiresleep(p) PROVE Filled'
  BY <1>2, ZenonT(60) DEF acquiresleep
<1>3. ASSUME NEW p \in Procs, bread(p) PROVE Filled'
  <2>1. blockno[b[p]] \in Blocks /\ b[p] \in Bufs
    BY <1>3, ZenonT(60) DEF bread, Using, Asking
  <2> QED
    BY <1>3, <2>1, ZenonT(60) DEF bread
<1>4. ASSUME NEW p \in Procs, brelse_refcnt(p) PROVE Filled'
  BY <1>4, ZenonT(60) DEF brelse_refcnt
<1>5. ASSUME NEW p \in Procs, NEW bn \in Blocks, bget_cached(p, bn) PROVE Filled'
  BY <1>5, ZenonT(60) DEF bget_cached
<1>6. ASSUME NEW p \in Procs, NEW bn \in Blocks, bget_recycle(p, bn) PROVE Filled'
  <2>1. Free # {} => Oldest \in Bufs /\ pinned[Oldest] = 0
    BY OldestUnused, ZenonT(60)
  <2> HIDE DEF Oldest
  <2> QED
    BY <1>6, <2>1 DEF bget_recycle, Recycled
<1>7. ASSUME NEW p \in Procs, NEW s \in Bufs, bwrite(p, s) PROVE Filled'
  BY <1>7, ZenonT(60) DEF bwrite
<1>8. ASSUME NEW p \in Procs, NEW s \in Bufs, bpin(p, s) PROVE Filled'
  BY <1>8, ZenonT(60) DEF bpin, Using
<1>9. ASSUME NEW p \in Procs, NEW s \in Bufs, bunpin(p, s) PROVE Filled'
  BY <1>9 DEF bunpin
<1>10. ASSUME NEW p \in Procs, NEW s \in Bufs, brelse(p, s) PROVE Filled'
  BY <1>10, ZenonT(60) DEF brelse
<1>11. ASSUME NEW p \in Procs, NEW s \in Bufs, NEW v \in Values, store(p, s, v) PROVE Filled'
  BY <1>11, ZenonT(60) DEF store
<1>12. ASSUME NEW p \in Procs, NEW S \in SUBSET FileBlocks, ilock(p, S) PROVE Filled'
  BY <1>12, ZenonT(60) DEF ilock
<1>13. ASSUME NEW p \in Procs, NEW S \in SUBSET FileBlocks, iunlock(p, S) PROVE Filled'
  BY <1>13, ZenonT(60) DEF iunlock
<1>14. ASSUME NEW p \in Procs, NEW s \in Bufs, NEW bn \in FileBlocks, NEW v \in Values, balloc(p, s, bn, v)
       PROVE  Filled'
  BY <1>14, ZenonT(60) DEF balloc
<1>15. ASSUME NEW p \in Procs, NEW s \in Bufs, NEW bn \in FileBlocks, NEW v \in Values, bfree(p, s, bn, v)
       PROVE  Filled'
  BY <1>15, ZenonT(60) DEF bfree
<1> QED
  BY <1>1, <1>2, <1>3, <1>4, <1>5, <1>6, <1>7, <1>8, <1>9, <1>10, <1>11, <1>12, <1>13, <1>14,
     <1>15, ZenonT(60) DEF Next, Step

\* A step gives no block to two processes: balloc() takes one that is not in use.
LEMMA ApartStep == IInv /\ Next => Apart'
<1> SUFFICES ASSUME IInv, Next PROVE Apart'
  OBVIOUS
<1>0. Apart /\ mine \in [Procs -> SUBSET FileBlocks]
  BY ZenonT(60) DEF IInv, TypeOK
<1> USE <1>0
<1> USE DEF Apart, buf, files
<1>1. ASSUME NEW p \in Procs, acquiresleep_sleep(p) PROVE Apart'
  BY <1>1, ZenonT(60) DEF acquiresleep_sleep
<1>2. ASSUME NEW p \in Procs, acquiresleep(p) PROVE Apart'
  BY <1>2, ZenonT(60) DEF acquiresleep
<1>3. ASSUME NEW p \in Procs, bread(p) PROVE Apart'
  BY <1>3, ZenonT(60) DEF bread
<1>4. ASSUME NEW p \in Procs, brelse_refcnt(p) PROVE Apart'
  BY <1>4, ZenonT(60) DEF brelse_refcnt
<1>5. ASSUME NEW p \in Procs, NEW bn \in Blocks, bget_cached(p, bn) PROVE Apart'
  BY <1>5, ZenonT(60) DEF bget_cached, Wait
<1>6. ASSUME NEW p \in Procs, NEW bn \in Blocks, bget_recycle(p, bn) PROVE Apart'
  BY <1>6, ZenonT(60) DEF bget_recycle, Wait
<1>7. ASSUME NEW p \in Procs, NEW s \in Bufs, bwrite(p, s) PROVE Apart'
  BY <1>7, ZenonT(60) DEF bwrite
<1>8. ASSUME NEW p \in Procs, NEW s \in Bufs, bpin(p, s) PROVE Apart'
  BY <1>8, ZenonT(60) DEF bpin
<1>9. ASSUME NEW p \in Procs, NEW s \in Bufs, bunpin(p, s) PROVE Apart'
  BY <1>9, ZenonT(60) DEF bunpin
<1>10. ASSUME NEW p \in Procs, NEW s \in Bufs, brelse(p, s) PROVE Apart'
  BY <1>10, ZenonT(60) DEF brelse
<1>11. ASSUME NEW p \in Procs, NEW s \in Bufs, NEW v \in Values, store(p, s, v) PROVE Apart'
  BY <1>11, ZenonT(60) DEF store
<1>12. ASSUME NEW p \in Procs, NEW S \in SUBSET FileBlocks, ilock(p, S) PROVE Apart'
  BY <1>12 DEF ilock
<1>13. ASSUME NEW p \in Procs, NEW S \in SUBSET FileBlocks, iunlock(p, S) PROVE Apart'
  BY <1>13 DEF iunlock
<1>14. ASSUME NEW p \in Procs, NEW s \in Bufs, NEW bn \in FileBlocks, NEW v \in Values, balloc(p, s, bn, v)
       PROVE  Apart'
  BY <1>14 DEF balloc, Marked
<1>15. ASSUME NEW p \in Procs, NEW s \in Bufs, NEW bn \in FileBlocks, NEW v \in Values, bfree(p, s, bn, v)
       PROVE  Apart'
  BY <1>15 DEF bfree
<1> QED
  BY <1>1, <1>2, <1>3, <1>4, <1>5, <1>6, <1>7, <1>8, <1>9, <1>10, <1>11, <1>12, <1>13, <1>14,
     <1>15, ZenonT(60) DEF Next, Step

\* A step keeps to the habits of the callers.
LEMMA NestedStep == IInv /\ Next => Nested'
<1> SUFFICES ASSUME IInv, Next PROVE Nested'
  OBVIOUS
<1>0. /\ Nested /\ Apart /\ Using
      /\ blockno \in [Bufs -> Blocks \union {NoBlock}] /\ b \in [Procs -> Bufs]
      /\ held \in [Procs -> SUBSET Bufs] /\ mine \in [Procs -> SUBSET FileBlocks]
      /\ fresh \in [Procs -> FileBlocks \union {NoBlock}]
      /\ pc \in [Procs -> {"run", "acquire", "asleep", "bread", "brelse"}]
  BY ZenonT(60) DEF IInv, TypeOK
<1>d. /\ LogBlocks \intersect (MetaBlocks \union FileBlocks) = {} /\ MetaBlocks \intersect FileBlocks = {}
      /\ Bitmap \subseteq MetaBlocks /\ NoBlock \notin FileBlocks
  BY BcacheAssumption, ZenonT(60) DEF Blocks
<1> USE <1>0
<1> USE DEF Nested, Habit, Asking, buf, files
<1>1. ASSUME NEW p \in Procs, acquiresleep_sleep(p) PROVE Nested'
  BY <1>1, ZenonT(60) DEF acquiresleep_sleep
<1>2. ASSUME NEW p \in Procs, acquiresleep(p) PROVE Nested'
  BY <1>2, ZenonT(60) DEF acquiresleep
<1>3. ASSUME NEW p \in Procs, bread(p) PROVE Nested'
  <2>1. PICK s \in Bufs :
          /\ s = b[p] /\ pc[p] = "bread" /\ s \notin held[p] /\ held' = [held EXCEPT ![p] = @ \union {s}]
          /\ pc' = [pc EXCEPT ![p] = "run"] /\ b' = [b EXCEPT ![p] = 1] /\ UNCHANGED <<blockno, mine, fresh>>
    BY <1>3, ZenonT(60) DEF bread, Using
  <2>2. /\ fresh[p] = NoBlock
        /\ \A t \in held[p] : \/ blockno[t] \in LogBlocks /\ blockno[s] \notin LogBlocks
                              \/ blockno[t] \in mine[p] /\ blockno[s] \in Bitmap \union mine[p]
    BY <2>1, ZenonT(60)
  <2>3. \A t \in held[p] : /\ blockno[s] \in FileBlocks \ mine[p] => blockno[t] \in LogBlocks
                           /\ ~(blockno[t] \in FileBlocks \ mine[p])
    BY <1>d, <2>2, ZenonT(60)
  <2> QED
    BY <2>1, <2>2, <2>3, ZenonT(60)
<1>4. ASSUME NEW p \in Procs, brelse_refcnt(p) PROVE Nested'
  BY <1>4, ZenonT(60) DEF brelse_refcnt
<1>5. ASSUME NEW p \in Procs, NEW bn \in Blocks, bget_cached(p, bn) PROVE Nested'
  <2>1. PICK s \in Bufs : blockno[s] = bn /\ Wait(p, s)
    BY <1>5, ZenonT(60) DEF bget_cached, Cached
  <2>2. UNCHANGED <<blockno, held, mine>> /\ MayAsk(p, bn)
    BY <1>5, ZenonT(60) DEF bget_cached
  <2> QED
    BY <2>1, <2>2, Asked, ZenonT(60) DEF Wait
<1>6. ASSUME NEW p \in Procs, NEW bn \in Blocks, bget_recycle(p, bn) PROVE Nested'
  <2>1. CASE Free = {}
    BY <1>6, <2>1, ZenonT(60) DEF bget_recycle
  <2>2. CASE Free # {}
    <3>1. PICK s \in Bufs :
            /\ blockno' = [blockno EXCEPT ![s] = bn] /\ Wait(p, s)
            /\ \A q \in Procs : s \notin held[q] /\ (pc[q] # "run" => b[q] # s)
      BY <1>6, <2>2, OldestUnused, ZenonT(60) DEF bget_recycle
    <3>2. UNCHANGED <<held, mine>> /\ MayAsk(p, bn)
      BY <1>6, ZenonT(60) DEF bget_recycle
    <3>3. \A q \in Procs : \A t \in held[q] : blockno'[t] = blockno[t]
      BY <3>1, ZenonT(60)
    <3>4. \A q \in Procs : pc[q] \in Asking => blockno'[b[q]] = blockno[b[q]]
      BY <3>1, ZenonT(60)
    <3>5. /\ pc[p] = "run" /\ pc' = [pc EXCEPT ![p] = "acquire"]
          /\ b' = [b EXCEPT ![p] = s] /\ fresh' = [fresh EXCEPT ![p] = NoBlock] /\ blockno'[s] = bn
      BY <3>1, <3>2, ZenonT(60) DEF Wait, MayAsk
    <3>6. \A t \in held[p] : \/ blockno[t] \in LogBlocks /\ bn \notin LogBlocks
                             \/ blockno[t] \in mine[p] /\ bn \in Bitmap \union mine[p]
      BY <3>2, Asked, ZenonT(60)
    <3>7. ASSUME NEW q \in Procs, q # p
          PROVE  pc'[q] = pc[q] /\ b'[q] = b[q] /\ fresh'[q] = fresh[q]
      BY <3>5, <3>7, ZenonT(60)
    <3>8. pc'[p] = "acquire" /\ b'[p] = s /\ fresh'[p] = NoBlock
      BY <3>5, ZenonT(60)
    <3>9. ASSUME NEW q \in Procs, q # p PROVE Habit(q)'
      BY <3>2, <3>3, <3>4, <3>7, <3>9, SMTT(30)
    <3>10. Habit(p)'
      BY <3>2, <3>3, <3>5, <3>6, <3>8, SMTT(30)
    <3> QED
      BY <3>9, <3>10, ZenonT(60) DEF Nested
  <2> QED
    BY <2>1, <2>2, ZenonT(60)
<1>7. ASSUME NEW p \in Procs, NEW s \in Bufs, bwrite(p, s) PROVE Nested'
  BY <1>7, ZenonT(60) DEF bwrite
<1>8. ASSUME NEW p \in Procs, NEW s \in Bufs, bpin(p, s) PROVE Nested'
  BY <1>8, ZenonT(60) DEF bpin
<1>9. ASSUME NEW p \in Procs, NEW s \in Bufs, bunpin(p, s) PROVE Nested'
  BY <1>9, ZenonT(60) DEF bunpin
<1>10. ASSUME NEW p \in Procs, NEW s \in Bufs, brelse(p, s) PROVE Nested'
  BY <1>10 DEF brelse, Woken
<1>11. ASSUME NEW p \in Procs, NEW s \in Bufs, NEW v \in Values, store(p, s, v) PROVE Nested'
  BY <1>11, ZenonT(60) DEF store
<1>12. ASSUME NEW p \in Procs, NEW S \in SUBSET FileBlocks, ilock(p, S) PROVE Nested'
  BY <1>12 DEF ilock
<1>13. ASSUME NEW p \in Procs, NEW S \in SUBSET FileBlocks, iunlock(p, S) PROVE Nested'
  BY <1>13 DEF iunlock
<1>14. ASSUME NEW p \in Procs, NEW s \in Bufs, NEW bn \in FileBlocks, NEW v \in Values, balloc(p, s, bn, v)
       PROVE  Nested'
  <2>1. \A t \in held[p] : blockno[t] # bn
    <3> SUFFICES ASSUME NEW t \in held[p], blockno[t] = bn PROVE FALSE
      OBVIOUS
    <3>1. blockno[t] \in FileBlocks \ mine[p] /\ t # s
      BY <1>14, <1>d, ZenonT(60) DEF balloc, Apart
    <3> QED
      BY <1>14, <3>1, ZenonT(60) DEF balloc
  <2> QED
    BY <1>14, <2>1 DEF balloc
<1>15. ASSUME NEW p \in Procs, NEW s \in Bufs, NEW bn \in FileBlocks, NEW v \in Values, bfree(p, s, bn, v)
       PROVE  Nested'
  BY <1>15 DEF bfree, Has
<1> QED
  BY <1>1, <1>2, <1>3, <1>4, <1>5, <1>6, <1>7, <1>8, <1>9, <1>10, <1>11, <1>12, <1>13, <1>14,
     <1>15, ZenonT(60) DEF Next, Step

-----------------------------------------------------------------------------
\* binit() establishes the invariant.
LEMMA InitInv == Init => IInv
<1> SUFFICES ASSUME Init PROVE IInv
  OBVIOUS
<1>0. 1 \in Bufs /\ NoProc \notin Procs /\ Cardinality(Procs) \in Nat
  BY BcacheAssumption, FS_CardinalityType DEF Bufs
<1>1. \A s \in Bufs : Users(s) = {}
  BY ZenonT(60) DEF Init, Users
<1>2. Counts /\ Full
  <2>1. Cardinality({}) = 0
    BY FS_EmptySet, Zenon
  <2>2. panicked = 0 /\ refcnt = [s \in Bufs |-> 0] /\ pinned = [s \in Bufs |-> 0]
    BY ZenonT(60) DEF Init
  <2> QED
    BY <1>1, <2>1, <2>2 DEF Counts, Full
<1>3. TypeOK
  <2>1. \A s \in Bufs : NBUF + 1 - s \in Bufs /\ NBUF + 1 - (NBUF + 1 - s) = s
    BY BcacheAssumption DEF Bufs
  <2>2. lru \in [Bufs -> Bufs] /\ \A s \in Bufs : \E k \in Bufs : lru[k] = s
    BY <2>1, ZenonT(60) DEF Init
  <2>3. 0 \in 0..Cardinality(Procs) + 1
    BY <1>0
  <2> QED
    BY <1>0, <2>2, <2>3, ZenonT(60) DEF Init, TypeOK
<1>4. Unique /\ Owned /\ Using /\ Filled
  BY <1>0 DEF Init, Unique, Owned, Using, Asking, Filled
<1>5. Apart /\ Nested
  BY DEF Init, Apart, Nested, Habit, Asking
<1> QED
  BY <1>2, <1>3, <1>4, <1>5, ZenonT(60) DEF IInv

\* The invariant depends on the variables of the model only.
LEMMA StutterInv == IInv /\ UNCHANGED vars => IInv'
<1> SUFFICES ASSUME IInv, UNCHANGED vars PROVE IInv'
  OBVIOUS
<1> USE DEF IInv, vars, buf, files
<1>1. TypeOK'
  BY ZenonT(60) DEF TypeOK
<1>2. Counts' /\ Full'
  BY ZenonT(60) DEF Counts, Full, Users
<1>3. Unique' /\ Owned' /\ Using' /\ Filled'
  BY DEF Unique, Owned, Using, Filled
<1>4. Apart' /\ Nested'
  BY ZenonT(60) DEF Apart, Nested, Habit
<1> QED
  BY <1>1, <1>2, <1>3, <1>4, ZenonT(60)

\* The invariant of all of the code is inductive.
LEMMA NextInv == IInv /\ [Next]_vars => IInv'
<1>1. IInv /\ Next => IInv'
  BY TypeOKStep, CountsOKStep, UniqueStep, FullStep, OwnedStep, UsingStep, FilledStep, ApartStep, NestedStep,
     ZenonT(60) DEF IInv, CountsOK
<1> QED
  BY <1>1, StutterInv, Zenon

\* So it holds in every state that the buffer cache reaches.
LEMMA InductiveInv == Spec => []IInv
  BY InitInv, NextInv, PTL DEF Spec

(***************************************************************************)
(* For any processes, buffers and blocks: refcnt counts the users, a block *)
(* has one buffer, and bget() panics only with every buffer in use.        *)
(***************************************************************************)
THEOREM ReferencesCounted == Spec => []RefcntCountsUsers
<1>1. IInv => RefcntCountsUsers
  BY Zenon DEF IInv, RefcntCountsUsers, Counts, Unique, Full
<1> QED
  BY <1>1, InductiveInv, PTL

\* A process that waits for a block and holds another one of its own waits for no one in
\* the circle, and a process that holds a block of the log waits for one that has its own.
LEMMA NoCircleInv == IInv => NoCircle
<1> SUFFICES ASSUME IInv PROVE NoCircle
  OBVIOUS
<1>0. /\ Using /\ Owned /\ Nested /\ Apart /\ NoProc \notin Procs
      /\ b \in [Procs -> Bufs] /\ held \in [Procs -> SUBSET Bufs] /\ mine \in [Procs -> SUBSET FileBlocks]
      /\ LogBlocks \intersect (MetaBlocks \union FileBlocks) = {} /\ MetaBlocks \intersect FileBlocks = {}
      /\ Bitmap \subseteq MetaBlocks
  BY BcacheAssumption, ZenonT(60) DEF IInv, TypeOK
<1>1. ASSUME NEW S \in SUBSET Procs, S # {}, \A p \in S : \E q \in S : WaitsFor(p, q)
      PROVE  FALSE
  <2> DEFINE Next1(p, q) == /\ b[p] \in held[q] /\ p # q
                            /\ \/ blockno[b[p]] \in LogBlocks /\ blockno[b[q]] \notin LogBlocks
                               \/ blockno[b[p]] \in mine[q] /\ blockno[b[q]] \in Bitmap \union mine[q]
  <2>1. ASSUME NEW p \in S PROVE \E q \in S : Next1(p, q)
    <3>1. PICK q \in S : WaitsFor(p, q)
      BY <1>1, ZenonT(60)
    <3>2. pc[p] # "run" /\ pc[q] \in {"acquire", "asleep"} /\ owner[b[p]] = q
      BY <1>1, <3>1 DEF WaitsFor
    <3>3. b[p] \in held[q]
      BY <1>0, <3>2, ZenonT(60) DEF Owned
    <3>4. p # q
      BY <1>0, <3>2, <3>3, ZenonT(60) DEF Using
    <3>5. \/ blockno[b[p]] \in LogBlocks /\ blockno[b[q]] \notin LogBlocks
          \/ blockno[b[p]] \in mine[q] /\ blockno[b[q]] \in Bitmap \union mine[q]
      BY <1>0, <3>2, <3>3, ZenonT(60) DEF Nested, Habit, Asking
    <3> QED
      BY <3>3, <3>4, <3>5, ZenonT(60)
  <2>2. ASSUME NEW p \in S, blockno[b[p]] \notin LogBlocks PROVE FALSE
    <3>1. PICK q \in S : Next1(p, q)
      BY <2>1, ZenonT(60)
    <3>2. blockno[b[q]] \in Bitmap \union mine[q]
      BY <2>2, <3>1, ZenonT(60)
    <3>3. PICK r \in S : Next1(q, r)
      BY <2>1, ZenonT(60)
    <3>4. blockno[b[q]] \in mine[r] /\ q # r /\ q \in Procs /\ r \in Procs
      BY <1>0, <3>2, <3>3
    <3> QED
      BY <1>0, <3>2, <3>4 DEF Apart
  <2>3. PICK p \in S : TRUE
    BY <1>1, ZenonT(60)
  <2>4. PICK q \in S : Next1(p, q)
    BY <2>1, ZenonT(60)
  <2>5. blockno[b[p]] \in LogBlocks /\ blockno[b[q]] \notin LogBlocks
    BY <1>0, <2>2, <2>4, ZenonT(60)
  <2> QED
    BY <2>2, <2>5, ZenonT(60)
<1>2. \A p \in Procs : pc[p] = "asleep" => owner[b[p]] # NoProc
  BY <1>0, ZenonT(60) DEF Using
<1> QED
  BY <1>1, <1>2, Zenon DEF NoCircle

(***************************************************************************)
(* For any processes, buffers and blocks: a process that sleeps in         *)
(* acquiresleep() sleeps for a lock that another one has, and no processes *)
(* wait for each other in a circle, wherever balloc() finds its blocks and *)
(* whatever commits meanwhile.                                             *)
(***************************************************************************)
THEOREM NobodyWaitsInACircle == Spec => []NoCircle
  BY NoCircleInv, InductiveInv, PTL

-----------------------------------------------------------------------------
\* What Contents, Saved and Holder are, by the buffer that a block has.
Reads ==
  /\ Contents \in [Blocks -> Values]
  /\ \A s \in Bufs : valid[s] = 1 => Contents[blockno[s]] = data[s]
  /\ \A bn \in Blocks : (\A s \in Bufs : blockno[s] = bn => valid[s] = 0) => Contents[bn] = disk[bn]
  /\ Saved \in [Blocks -> Values]
  /\ \A bn \in Blocks : Saved[bn] = IF bn \in Logged THEN Contents[bn] ELSE disk[bn]

Holds ==
  /\ Holder \in [Blocks -> Procs \union {NoProc}]
  /\ \A p \in Procs : \A s \in held[p] : Holder[blockno[s]] = p
  /\ \A bn \in Blocks : (\A p \in Procs : \A s \in held[p] : blockno[s] # bn) => Holder[bn] = NoProc

\* The valid buffer of a block has its contents; a block without one is as on the disk.
LEMMA ReadsInv == IInv => Reads
<1> SUFFICES ASSUME IInv PROVE Reads
  OBVIOUS
<1>0. /\ Unique /\ Filled /\ disk \in [Blocks -> Values] /\ data \in [Bufs -> Values]
      /\ valid \in [Bufs -> {0, 1}] /\ NoBlock \notin Blocks
  BY BcacheAssumption, ZenonT(60) DEF IInv, TypeOK
<1> DEFINE C(bn, s) == blockno[s] = bn /\ valid[s] = 1
<1>1. ASSUME NEW s \in Bufs, valid[s] = 1
      PROVE  Contents[blockno[s]] = data[s]
  <2>1. blockno[s] \in Blocks /\ C(blockno[s], s)
    BY <1>0, <1>1, ZenonT(60) DEF Filled
  <2>2. \A t \in Bufs : C(blockno[s], t) => t = s
    BY <1>0, <2>1, ZenonT(60) DEF Unique
  <2>3. (CHOOSE t \in Bufs : C(blockno[s], t)) = s
    BY <2>1, <2>2, ZenonT(60)
  <2> QED
    BY <2>1, <2>3, ZenonT(60) DEF Contents
<1>2. ASSUME NEW bn \in Blocks, \A s \in Bufs : blockno[s] = bn => valid[s] = 0
      PROVE  Contents[bn] = disk[bn]
  <2>1. ~ \E s \in Bufs : blockno[s] = bn /\ valid[s] = 1
    BY <1>2
  <2> QED
    BY <2>1, ZenonT(60) DEF Contents
<1>3. ASSUME NEW bn \in Blocks PROVE Contents[bn] \in Values
  <2>1. CASE \E s \in Bufs : C(bn, s)
    BY <1>0, <1>1, <2>1, ZenonT(60)
  <2>2. CASE \A s \in Bufs : ~C(bn, s)
    BY <1>0, <1>2, <2>2, ZenonT(60)
  <2> QED
    BY <2>1, <2>2, ZenonT(60)
<1>4. Contents \in [Blocks -> Values]
  BY <1>3, ZenonT(60) DEF Contents
<1>5. \A bn \in Blocks : Saved[bn] = IF bn \in Logged THEN Contents[bn] ELSE disk[bn]
  BY ZenonT(60) DEF Saved
<1>6. Saved \in [Blocks -> Values]
  BY <1>0, <1>4, ZenonT(60) DEF Saved
<1> QED
  BY <1>1, <1>2, <1>4, <1>5, <1>6, Zenon DEF Reads

\* The process that has the block's buffer is the holder of the block.
LEMMA HoldsInv == IInv => Holds
<1> SUFFICES ASSUME IInv PROVE Holds
  OBVIOUS
<1>0. /\ Unique /\ Using /\ Owned /\ held \in [Procs -> SUBSET Bufs] /\ NoBlock \notin Blocks
  BY BcacheAssumption, ZenonT(60) DEF IInv, TypeOK
<1> DEFINE H(bn, p) == \E s \in held[p] : blockno[s] = bn
<1>1. ASSUME NEW p \in Procs, NEW s \in held[p]
      PROVE  Holder[blockno[s]] = p
  <2>1. blockno[s] \in Blocks /\ H(blockno[s], p) /\ s \in Bufs
    BY <1>0, ZenonT(60) DEF Using
  <2>2. ASSUME NEW q \in Procs, H(blockno[s], q) PROVE q = p
    <3>1. PICK t \in held[q] : blockno[t] = blockno[s]
      BY <2>2, ZenonT(60)
    <3>2. t = s
      BY <1>0, <2>1, <3>1, ZenonT(60) DEF Unique
    <3> QED
      BY <1>0, <2>1, <3>1, <3>2 DEF Owned
  <2>3. (CHOOSE q \in Procs : H(blockno[s], q)) = p
    BY <2>1, <2>2, ZenonT(60)
  <2> QED
    BY <2>1, <2>3, ZenonT(60) DEF Holder
<1>2. ASSUME NEW bn \in Blocks, \A p \in Procs : \A s \in held[p] : blockno[s] # bn
      PROVE  Holder[bn] = NoProc
  BY <1>2, ZenonT(60) DEF Holder
<1>3. ASSUME NEW bn \in Blocks PROVE Holder[bn] \in Procs \union {NoProc}
  <2>1. CASE \E p \in Procs : H(bn, p)
    BY <1>1, <2>1, ZenonT(60)
  <2>2. CASE \A p \in Procs : ~H(bn, p)
    BY <1>2, <2>2, ZenonT(60)
  <2> QED
    BY <2>1, <2>2, ZenonT(60)
<1>4. Holder \in [Blocks -> Procs \union {NoProc}]
  BY <1>3, ZenonT(60) DEF Holder
<1> QED
  BY <1>1, <1>2, <1>4, Zenon DEF Holds

\* So it is before a step and after it.
LEMMA Characterised == IInv /\ [Next]_vars => Reads /\ Holds /\ Reads' /\ Holds' /\ IInv'
<1>1. IInv => Reads /\ Holds
  BY ReadsInv, HoldsInv, ZenonT(60)
<1>2. IInv' => Reads' /\ Holds'
  BY <1>1, PTL
<1> QED
  BY <1>1, <1>2, NextInv, Zenon

Seen == <<Contents, Saved, Logged, Holder>>

\* What is saved depends on the disk and on which buffers the log has.
LEMMA SavedSame ==
  ASSUME Contents' = Contents, UNCHANGED <<disk, blockno, pinned>>
  PROVE  Logged' = Logged /\ Saved' = Saved
<1>1. Logged' = Logged
  BY ZenonT(60) DEF Logged
<1> QED
  BY <1>1, ZenonT(60) DEF Saved

\* Contents and holders depend on the disk and on the buffers.
LEMMA ViewSame ==
  ASSUME UNCHANGED <<disk, blockno, valid, data, held>>
  PROVE  Contents' = Contents /\ Holder' = Holder
<1>1. Contents' = Contents
  BY ZenonT(60) DEF Contents
<1>2. Holder' = Holder
  BY ZenonT(60) DEF Holder
<1> QED
  BY <1>1, <1>2, ZenonT(60)

\* The store sees nothing else of the cache.
LEMMA SeenSame ==
  ASSUME UNCHANGED <<disk, blockno, valid, data, held, pinned>>
  PROVE  UNCHANGED Seen
  BY ViewSame, SavedSame, ZenonT(60) DEF Seen

\* Who has a buffer and changes its data sets the contents of its block.
LEMMA ChangeIsSet ==
  ASSUME IInv, Reads, Holds, Reads', NEW p \in Procs, NEW s \in held[p], NEW v \in Values,
         data' = [data EXCEPT ![s] = v], UNCHANGED <<disk, blockno, valid, pinned, held>>
  PROVE  Store!Next
<1>0. /\ Using /\ data \in [Bufs -> Values] /\ valid \in [Bufs -> {0, 1}] /\ s \in Bufs
  BY ZenonT(60) DEF IInv, TypeOK
<1>1. PICK m \in Blocks : m = blockno[s] /\ valid[s] = 1 /\ Holder[m] = p
  BY <1>0, ZenonT(60) DEF Using, Holds
<1>2. ASSUME NEW n \in Blocks PROVE Contents'[n] = IF n = m THEN v ELSE Contents[n]
  <2>1. CASE n = m
    <3>1. Contents'[n] = data'[s] /\ data'[s] = v
      BY <1>0, <1>1, <2>1, ZenonT(60) DEF Reads
    <3> QED
      BY <2>1, <3>1, ZenonT(60)
  <2>2. CASE n # m /\ \E t \in Bufs : blockno[t] = n /\ valid[t] = 1
    <3>1. PICK t \in Bufs : blockno[t] = n /\ valid[t] = 1
      BY <2>2, ZenonT(60)
    <3>2. Contents[n] = data[t] /\ t # s
      BY <1>1, <2>2, <3>1, ZenonT(60) DEF Reads
    <3>3. Contents'[n] = data'[t] /\ data'[t] = data[t]
      BY <1>0, <3>1, <3>2, ZenonT(60) DEF Reads
    <3> QED
      BY <2>2, <3>2, <3>3, ZenonT(60)
  <2>3. CASE n # m /\ \A t \in Bufs : ~(blockno[t] = n /\ valid[t] = 1)
    <3>1. \A t \in Bufs : blockno[t] = n => valid[t] = 0
      BY <1>0, <2>3, ZenonT(60)
    <3> QED
      BY <2>3, <3>1, ZenonT(60) DEF Reads
  <2> QED
    BY <2>1, <2>2, <2>3, ZenonT(60)
<1>3. Contents' = [Contents EXCEPT ![m] = v]
  BY <1>2, ZenonT(60) DEF Reads
<1>4. Logged' = Logged
  BY ZenonT(60) DEF Logged
<1>5. Saved' = IF m \in Logged THEN [Saved EXCEPT ![m] = v] ELSE Saved
  <2>1. ASSUME NEW n \in Blocks
        PROVE  Saved'[n] = IF n = m /\ m \in Logged THEN v ELSE Saved[n]
    BY <1>2, <1>4, ZenonT(60) DEF Reads
  <2> QED
    BY <2>1, SMTT(30) DEF Reads
<1>6. Holder' = Holder
  BY ZenonT(60) DEF Holder
<1> QED
  BY <1>1, <1>3, <1>4, <1>5, <1>6, ZenonT(60) DEF Store!Next, Store!Set

\* A step of the cache is a step of the store of blocks, or none.
LEMMA StoreStep == IInv /\ Next => Store!Next \/ UNCHANGED Seen
<1> SUFFICES ASSUME IInv, Next PROVE Store!Next \/ UNCHANGED Seen
  OBVIOUS
<1>0. /\ Reads /\ Holds /\ Reads' /\ Holds' /\ Owned /\ Using /\ Unique /\ Filled
      /\ disk \in [Blocks -> Values] /\ blockno \in [Bufs -> Blocks \union {NoBlock}]
      /\ valid \in [Bufs -> {0, 1}] /\ data \in [Bufs -> Values] /\ b \in [Procs -> Bufs]
      /\ owner \in [Bufs -> Procs \union {NoProc}] /\ pinned \in [Bufs -> {0, 1}]
      /\ held \in [Procs -> SUBSET Bufs]
      /\ pc \in [Procs -> {"run", "acquire", "asleep", "bread", "brelse"}]
      /\ NoProc \notin Procs /\ NoBlock \notin Blocks
  BY Characterised, BcacheAssumption, ZenonT(60) DEF IInv, TypeOK
<1> USE <1>0
<1>1. ASSUME NEW p \in Procs, acquiresleep_sleep(p)
      PROVE  Store!Next \/ UNCHANGED Seen
  BY <1>1, SeenSame, ZenonT(60) DEF acquiresleep_sleep, buf
<1>2. ASSUME NEW p \in Procs, acquiresleep(p)
      PROVE  Store!Next \/ UNCHANGED Seen
  BY <1>2, SeenSame, ZenonT(60) DEF acquiresleep, buf
<1>3. ASSUME NEW p \in Procs, bread(p) PROVE Store!Next \/ UNCHANGED Seen
  <2>1. PICK s \in Bufs, m \in Blocks :
          s = b[p] /\ m = blockno[s] /\ owner[s] = p /\ s \notin held[p] /\ pc[p] = "bread"
    BY <1>3 DEF bread, Using, Asking, Owned
  <2>2. ASSUME NEW n \in Blocks PROVE Contents'[n] = Contents[n]
    <3>1. CASE n = m
      <4>1. Contents'[n] = data'[s]
        BY <1>3, <2>1, <3>1, ZenonT(60) DEF bread, Reads
      <4>2. CASE valid[s] = 1
        BY <1>3, <2>1, <3>1, <4>1, <4>2, ZenonT(60) DEF bread, Reads
      <4>3. CASE valid[s] = 0
        <5>1. \A t \in Bufs : blockno[t] = n => valid[t] = 0
          BY <2>1, <3>1, <4>3, ZenonT(60) DEF Unique
        <5> QED
          BY <1>3, <2>1, <3>1, <4>1, <4>3, <5>1, ZenonT(60) DEF bread, Reads
      <4> QED
        BY <2>1, <4>2, <4>3, ZenonT(60)
    <3>2. CASE n # m /\ \E t \in Bufs : blockno[t] = n /\ valid[t] = 1
      <4>1. PICK t \in Bufs : blockno[t] = n /\ valid[t] = 1
        BY <3>2, ZenonT(60)
      <4>2. Contents[n] = data[t] /\ t # s
        BY <2>1, <3>2, <4>1, ZenonT(60) DEF Reads
      <4>3. Contents'[n] = data'[t] /\ data'[t] = data[t]
        BY <1>3, <2>1, <4>1, <4>2 DEF bread, Reads
      <4> QED
        BY <4>2, <4>3, ZenonT(60)
    <3>3. CASE n # m /\ \A t \in Bufs : blockno[t] = n => valid[t] = 0
      BY <1>3, <2>1, <3>3, ZenonT(60) DEF bread, Reads
    <3> QED
      BY <3>1, <3>2, <3>3, ZenonT(60)
  <2>3. Contents' = Contents
    BY <2>2 DEF Reads
  <2>4. ASSUME NEW q \in Procs, NEW t \in held[q] PROVE blockno[t] # m
    <3>1. t \in Bufs /\ owner[t] = q
      BY ZenonT(60) DEF Owned
    <3>2. t # s
      BY <2>1, <3>1, ZenonT(60)
    <3> QED
      BY <2>1, <3>1, <3>2, ZenonT(60) DEF Unique
  <2>5. Holder[m] = NoProc
    BY <2>1, <2>4, ZenonT(60) DEF Holds
  <2>6. Holder'[m] = p
    BY <1>3, <2>1, ZenonT(60) DEF bread, Holds
  <2>7. ASSUME NEW n \in Blocks, n # m PROVE Holder'[n] = Holder[n]
    <3>1. CASE \E q \in Procs : \E t \in held[q] : blockno[t] = n
      BY <1>3, <2>1, <3>1 DEF bread, Holds
    <3>2. CASE \A q \in Procs : \A t \in held[q] : blockno[t] # n
      BY <1>3, <2>1, <2>7, <3>2, ZenonT(60) DEF bread, Holds
    <3> QED
      BY <3>1, <3>2, ZenonT(60)
  <2>8. Holder' = [Holder EXCEPT ![m] = p]
    BY <2>6, <2>7, ZenonT(60) DEF Holds
  <2>9. UNCHANGED <<Saved, Logged>>
    BY <1>3, <2>3, SavedSame, ZenonT(60) DEF bread
  <2> QED
    BY <2>1, <2>3, <2>5, <2>8, <2>9, ZenonT(60) DEF Store!Next, Store!Get
<1>4. ASSUME NEW p \in Procs, brelse_refcnt(p)
      PROVE  Store!Next \/ UNCHANGED Seen
  BY <1>4, SeenSame, ZenonT(60) DEF brelse_refcnt, buf
<1>5. ASSUME NEW p \in Procs, NEW bn \in Blocks, bget_cached(p, bn)
      PROVE  Store!Next \/ UNCHANGED Seen
  BY <1>5, SeenSame, ZenonT(60) DEF bget_cached, buf
<1>6. ASSUME NEW p \in Procs, NEW bn \in Blocks, bget_recycle(p, bn)
      PROVE  Store!Next \/ UNCHANGED Seen
  <2>1. CASE Free = {}
    BY <1>6, <2>1, SeenSame, ZenonT(60) DEF bget_recycle
  <2>2. CASE Free # {}
    <3>1. PICK s \in Bufs :
            /\ blockno' = [blockno EXCEPT ![s] = bn] /\ valid' = [valid EXCEPT ![s] = 0]
            /\ pinned[s] = 0 /\ owner[s] = NoProc /\ \A q \in Procs : s \notin held[q]
      BY <1>6, <2>2, OldestUnused, ZenonT(60) DEF bget_recycle, Recycled
    <3>2. UNCHANGED <<disk, data, held, pinned>> /\ \A t \in Bufs : blockno[t] # bn
      BY <1>6, ZenonT(60) DEF bget_recycle, Cached
    <3>3. ASSUME NEW n \in Blocks
          PROVE  Contents'[n] = IF n = blockno[s] /\ valid[s] = 1 THEN disk[n] ELSE Contents[n]
      <4>1. CASE \E t \in Bufs : t # s /\ blockno[t] = n /\ valid[t] = 1
        <5>1. PICK t \in Bufs : t # s /\ blockno[t] = n /\ valid[t] = 1
          BY <4>1, ZenonT(60)
        <5>2. Contents[n] = data[t] /\ Contents'[n] = data'[t] /\ blockno[s] # n
          BY <3>1, <5>1 DEF Reads, Unique
        <5> QED
          BY <3>2, <5>2, ZenonT(60)
      <4>2. CASE \A t \in Bufs : t # s /\ blockno[t] = n => valid[t] = 0
        <5>1. Contents'[n] = disk[n]
          BY <3>1, <3>2, <4>2, ZenonT(60) DEF Reads
        <5>2. ~(blockno[s] = n /\ valid[s] = 1) => Contents[n] = disk[n]
          BY <4>2 DEF Reads
        <5> QED
          BY <5>1, <5>2, ZenonT(60)
      <4> QED
        BY <4>1, <4>2, ZenonT(60)
    <3>4. Logged' = Logged
      <4>1. \A t \in Bufs : pinned[t] = 1 => t # s
        BY <3>1
      <4>2. \A t \in Bufs : pinned[t] = 1 => blockno'[t] = blockno[t]
        BY <3>1, <4>1, ZenonT(60)
      <4> QED
        BY <3>2, <4>2, ZenonT(60) DEF Logged
    <3>7. blockno[s] \notin Logged
      <4> SUFFICES ASSUME NEW t \in Bufs, blockno[t] = blockno[s], pinned[t] = 1, blockno[s] \in Blocks
                   PROVE  FALSE
        BY ZenonT(60) DEF Logged
      <4>1. t # s
        BY <3>1
      <4> QED
        BY <4>1, ZenonT(60) DEF Unique
    <3>8. Saved' = Saved
      <4>1. ASSUME NEW n \in Logged PROVE Contents'[n] = Contents[n]
        BY <3>3, <3>7, ZenonT(60) DEF Logged
      <4> QED
        BY <3>2, <3>4, <4>1, SMTT(30) DEF Reads
    <3>5. ASSUME NEW n \in Blocks PROVE Holder'[n] = Holder[n]
      <4>0. \A q \in Procs : \A t \in held[q] : t \in Bufs /\ blockno'[t] = blockno[t]
        BY <3>1, ZenonT(60)
      <4>1. CASE \E q \in Procs : \E t \in held[q] : blockno[t] = n
        <5>1. PICK q \in Procs : \E t \in held[q] : blockno[t] = n
          BY <4>1, ZenonT(60)
        <5>2. PICK t \in held[q] : blockno[t] = n
          BY <5>1, ZenonT(60)
        <5> QED
          BY <3>2, <4>0, <5>2 DEF Holds
      <4>2. CASE \A q \in Procs : \A t \in held[q] : blockno[t] # n
        BY <3>2, <4>0, <4>2, ZenonT(60) DEF Holds
      <4> QED
        BY <4>1, <4>2, ZenonT(60)
    <3>6. Holder' = Holder
      BY <3>5 DEF Holds
    <3>9. CASE valid[s] = 1
      <4>1. PICK m \in Blocks : m = blockno[s]
        BY <3>9, ZenonT(60) DEF Filled
      <4>2. Saved[m] = disk[m]
        BY <3>7, <4>1, ZenonT(60) DEF Reads
      <4>3. Contents' = [Contents EXCEPT ![m] = Saved[m]]
        BY <3>3, <3>9, <4>1, <4>2, ZenonT(60) DEF Reads
      <4>4. Holder[m] = NoProc
        BY <3>1, <4>1 DEF Holds, Unique
      <4> QED
        BY <3>4, <3>6, <3>7, <3>8, <4>1, <4>3, <4>4, ZenonT(60) DEF Store!Next, Store!Revert
    <3>10. CASE valid[s] = 0
      <4>1. Contents' = Contents
        BY <3>3, <3>10 DEF Reads
      <4> QED
        BY <3>4, <3>6, <3>8, <4>1, ZenonT(60) DEF Seen
    <3> QED
      BY <3>9, <3>10, ZenonT(60)
  <2> QED
    BY <2>1, <2>2, ZenonT(60)
<1>7. ASSUME NEW p \in Procs, NEW s \in Bufs, bwrite(p, s)
      PROVE  Store!Next \/ UNCHANGED Seen
  <2>1. valid[s] = 1 /\ blockno[s] \in Blocks
    BY <1>7, ZenonT(60) DEF bwrite, Using
  <2>2. ASSUME NEW n \in Blocks PROVE Contents'[n] = Contents[n]
    <3>1. CASE \E t \in Bufs : blockno[t] = n /\ valid[t] = 1
      BY <1>7, <3>1 DEF bwrite, buf, Reads
    <3>2. CASE \A t \in Bufs : blockno[t] = n => valid[t] = 0
      <4>1. blockno[s] # n
        BY <2>1, <3>2, SMTT(60)
      <4> QED
        BY <1>7, <3>2, <4>1, ZenonT(60) DEF bwrite, buf, Reads
    <3> QED
      BY <3>1, <3>2, ZenonT(60)
  <2>3. Contents' = Contents
    BY <2>2 DEF Reads
  <2>4. Holder' = Holder
    BY <1>7, ZenonT(60) DEF bwrite, buf, Holder
  <2>5. Logged' = Logged
    BY <1>7, ZenonT(60) DEF bwrite, buf, Logged
  <2>6. PICK m \in Blocks : m = blockno[s] /\ Contents[m] = data[s] /\ Holder[m] = p
    BY <1>7, <2>1, ZenonT(60) DEF bwrite, Reads, Holds
  <2>7. ASSUME NEW n \in Blocks PROVE Saved'[n] = IF n = m THEN Contents[m] ELSE Saved[n]
    BY <1>7, <2>3, <2>5, <2>6, SMTT(30) DEF bwrite, Reads
  <2>8. Saved' = [Saved EXCEPT ![m] = Contents[m]]
    BY <2>7, SMTT(30) DEF Reads
  <2> QED
    BY <2>3, <2>4, <2>5, <2>6, <2>8, ZenonT(60) DEF Store!Next, Store!Write
<1>8. ASSUME NEW p \in Procs, NEW s \in Bufs, bpin(p, s)
      PROVE  Store!Next \/ UNCHANGED Seen
  <2>1. UNCHANGED <<Contents, Holder, disk, blockno, data>>
    <3>1. UNCHANGED <<disk, blockno, valid, data, held>>
      BY <1>8, ZenonT(60) DEF bpin
    <3> QED
      BY <3>1, ViewSame, ZenonT(60)
  <2>2. PICK m \in Blocks : m = blockno[s] /\ Holder[m] = p
    <3>1. s \in held[p] /\ blockno[s] \in Blocks
      BY <1>8, ZenonT(60) DEF bpin, Using
    <3> QED
      BY <3>1, ZenonT(60) DEF Holds
  <2>3. Logged' = Logged \union {m}
    <3>1. \A t \in Bufs : pinned'[t] = 1 <=> pinned[t] = 1 \/ t = s
      BY <1>8, ZenonT(60) DEF bpin
    <3> QED
      BY <2>1, <2>2, <3>1, ZenonT(60) DEF Logged
  <2>4. ASSUME NEW n \in Blocks PROVE Saved'[n] = IF n = m THEN Contents[m] ELSE Saved[n]
    BY <2>1, <2>3, SMTT(30) DEF Reads
  <2>5. Saved' = [Saved EXCEPT ![m] = Contents[m]]
    BY <2>4, SMTT(30) DEF Reads
  <2> QED
    BY <2>1, <2>2, <2>3, <2>5, ZenonT(60) DEF Store!Next, Store!Log
<1>9. ASSUME NEW p \in Procs, NEW s \in Bufs, bunpin(p, s)
      PROVE  Store!Next \/ UNCHANGED Seen
  <2>1. UNCHANGED <<Contents, Holder, disk, blockno, data>>
    <3>1. UNCHANGED <<disk, blockno, valid, data, held>>
      BY <1>9, ZenonT(60) DEF bunpin
    <3> QED
      BY <3>1, ViewSame, ZenonT(60)
  <2>2. PICK m \in Blocks : m = blockno[s] /\ Holder[m] = p /\ Contents[m] = disk[m]
    <3>1. s \in held[p] /\ blockno[s] \in Blocks /\ valid[s] = 1 /\ data[s] = disk[blockno[s]]
      BY <1>9, ZenonT(60) DEF bunpin, Using
    <3> QED
      BY <3>1, ZenonT(60) DEF Holds, Reads
  <2>3. Logged' = Logged \ {m}
    <3>1. \A t \in Bufs : pinned'[t] = 1 <=> pinned[t] = 1 /\ t # s
      BY <1>9 DEF bunpin
    <3>2. \A t \in Bufs : blockno[t] = m => t = s
      BY <2>2, ZenonT(60) DEF Unique
    <3> QED
      BY <2>1, <2>2, <3>1, <3>2, ZenonT(60) DEF Logged
  <2>4. ASSUME NEW n \in Blocks PROVE Saved'[n] = Saved[n]
    BY <2>1, <2>2, <2>3, SMTT(30) DEF Reads
  <2>5. Saved' = Saved
    BY <2>4, SMTT(30) DEF Reads
  <2> QED
    BY <2>1, <2>2, <2>3, <2>5, ZenonT(60) DEF Store!Next, Store!Install
<1>10. ASSUME NEW p \in Procs, NEW s \in Bufs, brelse(p, s)
       PROVE  Store!Next \/ UNCHANGED Seen
  <2>1. PICK m \in Blocks : m = blockno[s] /\ Holder[m] = p /\ s \in held[p]
    <3>1. s \in held[p] /\ blockno[s] \in Blocks
      BY <1>10, ZenonT(60) DEF brelse, Using
    <3> QED
      BY <3>1, ZenonT(60) DEF Holds
  <2>2. Contents' = Contents
    BY <1>10, ZenonT(60) DEF brelse, Contents
  <2>3. ASSUME NEW q \in Procs, NEW t \in held'[q] PROVE blockno[t] # m /\ t \in held[q]
    <3>1. t \in held[q] /\ t \in Bufs /\ (q = p => t # s)
      BY <1>10, ZenonT(60) DEF brelse
    <3>2. t # s
      BY <1>10, <2>1, <3>1 DEF Owned
    <3> QED
      BY <2>1, <3>1, <3>2, ZenonT(60) DEF Unique
  <2>4. Holder'[m] = NoProc
    BY <1>10, <2>3, ZenonT(60) DEF brelse, Holds
  <2>5. ASSUME NEW n \in Blocks, n # m PROVE Holder'[n] = Holder[n]
    <3>1. CASE \E q \in Procs : \E t \in held[q] : blockno[t] = n
      <4>1. PICK q \in Procs : \E t \in held[q] : blockno[t] = n
        BY <3>1, ZenonT(60)
      <4>2. PICK t \in held[q] : blockno[t] = n
        BY <4>1, ZenonT(60)
      <4>3. t \in held'[q] /\ blockno' = blockno
        BY <1>10, <2>1, <2>5, <4>2, ZenonT(60) DEF brelse
      <4> QED
        BY <4>2, <4>3, ZenonT(60) DEF Holds
    <3>2. CASE \A q \in Procs : \A t \in held[q] : blockno[t] # n
      BY <1>10, <2>3, <3>2 DEF brelse, Holds
    <3> QED
      BY <3>1, <3>2, ZenonT(60)
  <2>6. Holder' = [Holder EXCEPT ![m] = NoProc]
    BY <2>4, <2>5, ZenonT(60) DEF Holds
  <2>7. UNCHANGED <<Saved, Logged>>
    BY <1>10, <2>2, SavedSame, ZenonT(60) DEF brelse
  <2> QED
    BY <2>1, <2>2, <2>6, <2>7, ZenonT(60) DEF Store!Next, Store!Put
<1>11. ASSUME NEW p \in Procs, NEW s \in Bufs, NEW v \in Values, store(p, s, v)
       PROVE  Store!Next \/ UNCHANGED Seen
  BY <1>11, ChangeIsSet, ZenonT(60) DEF store
<1>12. ASSUME NEW p \in Procs, NEW S \in SUBSET FileBlocks, ilock(p, S)
       PROVE  Store!Next \/ UNCHANGED Seen
  BY <1>12, SeenSame, ZenonT(60) DEF ilock, buf
<1>13. ASSUME NEW p \in Procs, NEW S \in SUBSET FileBlocks, iunlock(p, S)
       PROVE  Store!Next \/ UNCHANGED Seen
  BY <1>13, SeenSame, ZenonT(60) DEF iunlock, buf
<1>14. ASSUME NEW p \in Procs, NEW s \in Bufs, NEW bn \in FileBlocks, NEW v \in Values, balloc(p, s, bn, v)
       PROVE  Store!Next \/ UNCHANGED Seen
  BY <1>14, ChangeIsSet, ZenonT(60) DEF balloc
<1>15. ASSUME NEW p \in Procs, NEW s \in Bufs, NEW bn \in FileBlocks, NEW v \in Values, bfree(p, s, bn, v)
       PROVE  Store!Next \/ UNCHANGED Seen
  BY <1>15, ChangeIsSet, ZenonT(60) DEF bfree
<1> QED
  BY <1>1, <1>2, <1>3, <1>4, <1>5, <1>6, <1>7, <1>8, <1>9, <1>10, <1>11, <1>12, <1>13, <1>14,
     <1>15, ZenonT(60) DEF Next, Step

(***************************************************************************)
(* For any processes, buffers and blocks, the cache with its recycling,    *)
(* bread(), bwrite() and the log's pins implements a store of blocks that  *)
(* one process at a time can have, in which a change goes away only if it  *)
(* was neither logged nor written and nobody has the block.                *)
(***************************************************************************)
THEOREM CacheIsBlockStore == Spec => IsBlockStore
<1>1. Init => Store!Init
  <2> SUFFICES ASSUME Init PROVE Store!Init
    OBVIOUS
  <2>1. valid = [s \in Bufs |-> 0] /\ pinned = [s \in Bufs |-> 0] /\ disk \in [Blocks -> Values]
    BY ZenonT(60) DEF Init
  <2>2. Contents = disk
    BY <2>1 DEF Contents
  <2>3. Logged = {}
    BY <2>1 DEF Logged
  <2>4. Saved = disk
    BY <2>1, <2>3, ZenonT(60) DEF Saved
  <2>5. Holder = [bn \in Blocks |-> NoProc]
    BY ZenonT(60) DEF Init, Holder
  <2> QED
    BY <2>1, <2>2, <2>3, <2>4, <2>5, ZenonT(60) DEF Store!Init
<1>2. IInv /\ [Next]_vars => [Store!Next]_Store!vars
  <2>1. UNCHANGED vars => UNCHANGED Seen
    BY ZenonT(60) DEF vars, buf, Contents, Holder, Logged, Saved, Seen
  <2>2. UNCHANGED Seen => UNCHANGED Store!vars
    BY ZenonT(60) DEF Seen, Store!vars
  <2> QED
    BY <2>1, <2>2, StoreStep, Zenon
<1> QED
  BY <1>1, <1>2, InductiveInv, PTL DEF Spec, IsBlockStore, Store!Spec
=============================================================================
