------------------------------- MODULE Bcache -------------------------------
(***************************************************************************)
(* The buffer cache, kernel/bio.c, with the sleep locks of its buffers,    *)
(* kernel/sleeplock.c.  A step is a critical section of bcache.lock or of  *)
(* the spin lock inside a sleep lock.                                      *)
(*                                                                         *)
(* What the callers do is taken from fs.c and log.c: which buffers one may *)
(* hold and ask for the next, the locks of the inodes, which say whose the *)
(* blocks of a file are, and the bitmap, from which balloc() takes a block *)
(* for a file.  Any process may play the part of the one that commits, at  *)
(* any time, which is more than log.c allows.                              *)
(***************************************************************************)
EXTENDS Integers, Sequences, FiniteSets

CONSTANTS
  Procs, NoProc,
  LogBlocks,     \* of the log, its header included
  MetaBlocks,    \* superblock, inodes and bitmap
  Bitmap,
  FileBlocks,    \* the blocks of files and directories, indirect ones included
  NoBlock,       \* of a buffer not used so far: dev is 0
  Values,
  NBUF,
  MaxPinned      \* most blocks in the log at a time

Blocks == LogBlocks \union MetaBlocks \union FileBlocks

ASSUME BcacheAssumption ==
  /\ IsFiniteSet(Procs) /\ NoProc \notin Procs /\ NoBlock \notin Blocks
  /\ LogBlocks \intersect (MetaBlocks \union FileBlocks) = {} /\ MetaBlocks \intersect FileBlocks = {}
  /\ Bitmap \subseteq MetaBlocks
  /\ NBUF \in Nat \ {0} /\ MaxPinned \in Nat

Bufs == 1..NBUF

VARIABLES
  disk,                               \* blocks on the disk
  lru,                                \* list of all buffers from bcache.head.next on
  blockno, valid, refcnt, data,       \* struct buf
  owner,                              \* process with b->lock, or NoProc
  pinned,                             \* 1 for a buffer of a block in the log
  pc, b,                              \* of bread() and brelse()
  held,                               \* buffers that bread() has returned to each process
  inuse,                              \* blocks of files that the bitmap marks
  mine,                               \* blocks of the inodes whose locks each process has
  fresh,                              \* block that balloc() has yet to clear, or NoBlock
  panicked

buf == <<blockno, valid, refcnt, data, owner, pinned>>
files == <<inuse, mine, fresh>>
vars == <<disk, lru, buf, pc, b, held, files, panicked>>

\* binit()
Init ==
  /\ disk \in [Blocks -> Values]
  /\ lru = [k \in Bufs |-> NBUF + 1 - k]
  /\ blockno = [s \in Bufs |-> NoBlock]
  /\ valid = [s \in Bufs |-> 0]
  /\ refcnt = [s \in Bufs |-> 0]
  /\ \E v \in Values : data = [s \in Bufs |-> v]
  /\ owner = [s \in Bufs |-> NoProc]
  /\ pinned = [s \in Bufs |-> 0]
  /\ pc = [p \in Procs |-> "run"]
  /\ b = [p \in Procs |-> 1]
  /\ held = [p \in Procs |-> {}]
  /\ inuse \in SUBSET FileBlocks
  /\ mine = [p \in Procs |-> {}]
  /\ fresh = [p \in Procs |-> NoBlock]
  /\ panicked = 0

-----------------------------------------------------------------------------
Cached(bn) == {s \in Bufs : blockno[s] = bn}

Free_Unlocked == {s \in Bufs : owner[s] = NoProc}

\* b->refcnt == 0
Free == {s \in Bufs : refcnt[s] = 0}

\* The free buffer that comes last in the list.
Oldest == lru[CHOOSE k \in Bufs : lru[k] \in Free /\ \A j \in k + 1..NBUF : lru[j] \notin Free]

Has(p) == {blockno[s] : s \in held[p]}

\* A process that has no buffer asks for a block of the log when it commits, and then
\* it has no inode's lock; for an inode, the bitmap or the superblock; or for a block
\* of a file whose lock it has (readi, writei, bmap, itrunc).
AskFirst(p, bn) == Has(p) = {} /\ (bn \in MetaBlocks \union mine[p] \/ (bn \in LogBlocks /\ mine[p] = {}))

\* write_log() and install_trans() hold a block of the log.
AskHome(p, bn) == \E lb \in LogBlocks : Has(p) = {lb} /\ bn \in MetaBlocks \union FileBlocks

\* bmap() and itrunc() hold the indirect block, balloc() and bfree() want the bitmap.
AskBitmap(p, bn) == \E ib \in mine[p] : Has(p) = {ib} /\ bn \in Bitmap

\* bzero() in balloc(), which has let go of the bitmap; bmap() may hold the indirect block.
AskFresh(p, bn) == bn = fresh[p] /\ Has(p) \subseteq mine[p]

MayAsk(p, bn) ==
  /\ pc[p] = "run"
  /\ IF fresh[p] = NoBlock
     THEN AskFirst(p, bn) \/ AskHome(p, bn) \/ AskBitmap(p, bn)
     ELSE AskFresh(p, bn)

Wait(p, s) ==
  /\ pc' = [pc EXCEPT ![p] = "acquire"]
  /\ b' = [b EXCEPT ![p] = s]
  /\ fresh' = [fresh EXCEPT ![p] = NoBlock]

bget_cached(p, bn) ==
  /\ MayAsk(p, bn)
  /\ \E s \in Cached(bn) :
       /\ refcnt' = [refcnt EXCEPT ![s] = @ + 1]
       /\ Wait(p, s)
  /\ UNCHANGED <<disk, lru, blockno, valid, data, owner, pinned, held, inuse, mine, panicked>>

Recycled_Kept(s) == valid

\* b->valid = 0
Recycled(s) == [valid EXCEPT ![s] = 0]

bget_recycle(p, bn) ==
  /\ MayAsk(p, bn) /\ Cached(bn) = {}
  /\ \/ /\ Free = {}
        /\ panicked' = 1
        /\ UNCHANGED <<blockno, valid, refcnt, pc, b, fresh>>
     \/ /\ Free # {}
        /\ blockno' = [blockno EXCEPT ![Oldest] = bn]
        /\ valid' = Recycled(Oldest)
        /\ refcnt' = [refcnt EXCEPT ![Oldest] = 1]
        /\ Wait(p, Oldest)
        /\ UNCHANGED panicked
  /\ UNCHANGED <<disk, lru, data, owner, pinned, held, inuse, mine>>

\* while (lk->locked) sleep(lk, &lk->lk)
acquiresleep_sleep(p) ==
  /\ pc[p] = "acquire" /\ owner[b[p]] # NoProc
  /\ pc' = [pc EXCEPT ![p] = "asleep"]
  /\ UNCHANGED <<disk, lru, buf, b, held, files, panicked>>

acquiresleep(p) ==
  /\ pc[p] = "acquire" /\ owner[b[p]] = NoProc
  /\ owner' = [owner EXCEPT ![b[p]] = p]
  /\ pc' = [pc EXCEPT ![p] = "bread"]
  /\ UNCHANGED <<disk, lru, blockno, valid, refcnt, data, pinned, b, held, files, panicked>>

\* The rest of bread(): virtio_disk_rw() if need be, and return.
bread(p) ==
  /\ pc[p] = "bread"
  /\ data' = IF valid[b[p]] = 1 THEN data ELSE [data EXCEPT ![b[p]] = disk[blockno[b[p]]]]
  /\ valid' = [valid EXCEPT ![b[p]] = 1]
  /\ held' = [held EXCEPT ![p] = @ \union {b[p]}]
  /\ pc' = [pc EXCEPT ![p] = "run"]
  /\ b' = [b EXCEPT ![p] = 1]
  /\ UNCHANGED <<disk, lru, blockno, refcnt, owner, pinned, files, panicked>>

-----------------------------------------------------------------------------
\* A caller changes b->data: memset, memmove and assignments in fs.c and log.c.  Not
\* every change is logged: writei() lets go of a buffer that either_copyin() failed on.
store(p, s, v) ==
  /\ pc[p] = "run" /\ s \in held[p]
  /\ data' = [data EXCEPT ![s] = v]
  /\ UNCHANGED <<disk, lru, blockno, valid, refcnt, owner, pinned, pc, b, held, files, panicked>>

bwrite(p, s) ==
  /\ pc[p] = "run" /\ s \in held[p]
  /\ panicked' = IF owner[s] = p THEN 0 ELSE 1
  /\ disk' = [disk EXCEPT ![blockno[s]] = data[s]]
  /\ UNCHANGED <<lru, buf, pc, b, held, files>>

\* bpin() in log_write()
bpin(p, s) ==
  /\ pc[p] = "run" /\ s \in held[p] /\ pinned[s] = 0
  /\ Cardinality({t \in Bufs : pinned[t] = 1}) < MaxPinned
  /\ pinned' = [pinned EXCEPT ![s] = 1]
  /\ refcnt' = [refcnt EXCEPT ![s] = @ + 1]
  /\ UNCHANGED <<disk, lru, blockno, valid, data, owner, pc, b, held, files, panicked>>

\* bunpin() in install_trans(), its only caller, right after bwrite(dbuf)
bunpin(p, s) ==
  /\ pc[p] = "run" /\ s \in held[p] /\ pinned[s] = 1
  /\ data[s] = disk[blockno[s]]
  /\ pinned' = [pinned EXCEPT ![s] = 0]
  /\ refcnt' = [refcnt EXCEPT ![s] = @ - 1]
  /\ UNCHANGED <<disk, lru, blockno, valid, data, owner, pc, b, held, files, panicked>>

\* wakeup(lk)
Woken(s) == [q \in Procs |-> IF pc[q] = "asleep" /\ b[q] = s THEN "acquire" ELSE pc[q]]

\* brelse() up to the end of releasesleep()
brelse(p, s) ==
  /\ pc[p] = "run" /\ s \in held[p]
  /\ panicked' = IF owner[s] = p THEN 0 ELSE 1
  /\ owner' = [owner EXCEPT ![s] = NoProc]
  /\ held' = [held EXCEPT ![p] = @ \ {s}]
  /\ pc' = [Woken(s) EXCEPT ![p] = "brelse"]
  /\ b' = [b EXCEPT ![p] = s]
  /\ UNCHANGED <<disk, lru, blockno, valid, refcnt, data, pinned, files>>

\* The buffer is taken out of the list and put in behind bcache.head.
Front(s) ==
  LET k == CHOOSE k \in Bufs : lru[k] = s
  IN  [j \in Bufs |-> IF j = 1 THEN s ELSE IF j <= k THEN lru[j - 1] ELSE lru[j]]

brelse_refcnt(p) ==
  /\ pc[p] = "brelse"
  /\ refcnt' = [refcnt EXCEPT ![b[p]] = @ - 1]
  /\ lru' = IF refcnt'[b[p]] = 0 THEN Front(b[p]) ELSE lru
  /\ pc' = [pc EXCEPT ![p] = "run"]
  /\ b' = [b EXCEPT ![p] = 1]
  /\ UNCHANGED <<disk, blockno, valid, data, owner, pinned, held, files, panicked>>

-----------------------------------------------------------------------------
\* The lock of an inode whose blocks are S.
ilock(p, S) ==
  /\ pc[p] = "run" /\ held[p] = {}
  /\ S \subseteq inuse /\ S # {} /\ \A q \in Procs : S \intersect mine[q] = {}
  /\ mine' = [mine EXCEPT ![p] = @ \union S]
  /\ UNCHANGED <<disk, lru, buf, pc, b, held, inuse, fresh, panicked>>

iunlock(p, S) ==
  /\ pc[p] = "run" /\ held[p] = {} /\ fresh[p] = NoBlock
  /\ S \subseteq mine[p] /\ S # {}
  /\ mine' = [mine EXCEPT ![p] = @ \ S]
  /\ UNCHANGED <<disk, lru, buf, pc, b, held, inuse, fresh, panicked>>

Marked_Lost(bn) == inuse

\* bp->data[bi/8] |= m
Marked(bn) == inuse \union {bn}

\* balloc() has found the bit of bn clear in the bitmap block it holds.
balloc(p, s, bn, v) ==
  /\ pc[p] = "run" /\ s \in held[p] /\ blockno[s] \in Bitmap /\ fresh[p] = NoBlock
  /\ \A t \in held[p] : blockno[t] \notin LogBlocks
  /\ bn \in FileBlocks \ inuse
  /\ inuse' = Marked(bn)
  /\ mine' = [mine EXCEPT ![p] = @ \union {bn}]
  /\ fresh' = [fresh EXCEPT ![p] = bn]
  /\ data' = [data EXCEPT ![s] = v]
  /\ UNCHANGED <<disk, lru, blockno, valid, refcnt, owner, pinned, pc, b, held, panicked>>

\* bfree() of a block of the file that itrunc() empties; it has let go of its buffer.
bfree(p, s, bn, v) ==
  /\ pc[p] = "run" /\ s \in held[p] /\ blockno[s] \in Bitmap /\ fresh[p] = NoBlock
  /\ bn \in mine[p] \ Has(p)
  /\ inuse' = inuse \ {bn}
  /\ mine' = [mine EXCEPT ![p] = @ \ {bn}]
  /\ data' = [data EXCEPT ![s] = v]
  /\ UNCHANGED <<disk, lru, blockno, valid, refcnt, owner, pinned, pc, b, held, fresh, panicked>>

-----------------------------------------------------------------------------
Step(p) == acquiresleep(p) \/ bread(p) \/ brelse_refcnt(p)

Next ==
  /\ panicked = 0
  /\ \E p \in Procs :
       \/ acquiresleep_sleep(p) \/ Step(p)
       \/ \E bn \in Blocks : bget_cached(p, bn) \/ bget_recycle(p, bn)
       \/ \E s \in Bufs : bwrite(p, s) \/ bpin(p, s) \/ bunpin(p, s) \/ brelse(p, s)
       \/ \E s \in Bufs, v \in Values :
            store(p, s, v) \/ (\E bn \in FileBlocks : balloc(p, s, bn, v) \/ bfree(p, s, bn, v))
       \/ \E S \in SUBSET FileBlocks : ilock(p, S) \/ iunlock(p, S)

Spec == Init /\ [][Next]_vars

-----------------------------------------------------------------------------
TypeOK ==
  /\ disk \in [Blocks -> Values]
  /\ lru \in [Bufs -> Bufs] /\ \A s \in Bufs : \E k \in Bufs : lru[k] = s
  /\ blockno \in [Bufs -> Blocks \union {NoBlock}]
  /\ valid \in [Bufs -> {0, 1}]
  /\ refcnt \in [Bufs -> 0..Cardinality(Procs) + 1]
  /\ data \in [Bufs -> Values]
  /\ owner \in [Bufs -> Procs \union {NoProc}]
  /\ pinned \in [Bufs -> {0, 1}]
  /\ pc \in [Procs -> {"run", "acquire", "asleep", "bread", "brelse"}]
  /\ b \in [Procs -> Bufs]
  /\ held \in [Procs -> SUBSET Bufs]
  /\ inuse \in SUBSET FileBlocks
  /\ mine \in [Procs -> SUBSET FileBlocks]
  /\ fresh \in [Procs -> FileBlocks \union {NoBlock}]
  /\ panicked \in {0, 1}

(***************************************************************************)
(* The buffer that bget() has chosen for a process is still that of the    *)
(* block it asked for when the process at last gets its lock: bget() takes *)
(* its reference first, and brelse() gives the reference back last.  Two   *)
(* buffers never hold the same block; and since refcnt counts the users,   *)
(* bget() panics only if each buffer is really in use, awaited or pinned.  *)
(***************************************************************************)
Users(s) == {p \in Procs : s \in held[p] \/ (pc[p] # "run" /\ b[p] = s)}

RefcntCountsUsers ==
  /\ TypeOK
  /\ \A s \in Bufs : refcnt[s] = Cardinality(Users(s)) + pinned[s]
  /\ \A s, t \in Bufs : s # t /\ blockno[s] = blockno[t] => blockno[s] = NoBlock
  /\ panicked = 1 => \A s \in Bufs : Users(s) # {} \/ pinned[s] = 1

(***************************************************************************)
(* A process sleeps only on the lock of a buffer that another one has, and *)
(* callers that hold a buffer and wait for the next never wait for each    *)
(* other in a circle.  No order of the blocks shows it: bmap() holds an    *)
(* indirect block and waits for one that balloc() has found anywhere.  It  *)
(* rests on the bitmap, from which no two processes get the same block, on *)
(* the locks of inodes, and on balloc() letting go of the bitmap first.    *)
(***************************************************************************)
WaitsFor(p, q) == pc[p] \in {"acquire", "asleep"} /\ owner[b[p]] = q

NoCircle ==
  /\ \A p \in Procs : pc[p] = "asleep" => owner[b[p]] # NoProc
  /\ \A S \in (SUBSET Procs) \ {{}} : ~ \A p \in S : \E q \in S : WaitsFor(p, q)

\* What the file system sees of a block: the cached copy, or else the disk.
Contents ==
  [bn \in Blocks |-> IF \E s \in Bufs : blockno[s] = bn /\ valid[s] = 1
                     THEN data[CHOOSE s \in Bufs : blockno[s] = bn /\ valid[s] = 1]
                     ELSE disk[bn]]

\* The process that bread() has returned the block to.
Holder ==
  [bn \in Blocks |-> IF \E p \in Procs : \E s \in held[p] : blockno[s] = bn
                     THEN CHOOSE p \in Procs : \E s \in held[p] : blockno[s] = bn
                     ELSE NoProc]

\* Blocks in the log that are not installed yet.
Logged == {bn \in Blocks : \E s \in Bufs : blockno[s] = bn /\ pinned[s] = 1}

\* What remains of a block when its buffer is recycled.
Saved == [bn \in Blocks |-> IF bn \in Logged THEN Contents[bn] ELSE disk[bn]]

(***************************************************************************)
(* The cache is a store of blocks: while a process has a block nobody else *)
(* has it, and the block's contents change only through the process that   *)
(* has it, whatever is cached, recycled and read again from the disk.      *)
(* There is one exception: a change that was neither logged nor written,   *)
(* such as that of a writei() that failed, goes away with the buffer.      *)
(***************************************************************************)
Store == INSTANCE BlockStore
           WITH contents <- Contents, saved <- Saved, logged <- Logged, holder <- Holder

IsBlockStore == Store!Spec

=============================================================================
