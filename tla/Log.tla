-------------------------------- MODULE Log --------------------------------
(***************************************************************************)
(* The redo log of kernel/log.c: begin_op/end_op reservations, log_write   *)
(* with absorption, the commit (write_log, write_head, install_trans,      *)
(* clear), and recovery after a crash at any instant.                      *)
(*                                                                         *)
(* A critical section of log.lock is one step: sleep(&log, &log.lock)      *)
(* gives the lock up and goes to sleep atomically (module Sched), and      *)
(* every bwrite() is one step that reaches the disk, because               *)
(* virtio_disk_rw waits for the device.  A crash can come between any two  *)
(* steps.  Log blocks are always written through, so the buffer cache's    *)
(* copy of one never differs from the disk and only home blocks are        *)
(* modelled as cached.                                                     *)
(***************************************************************************)
EXTENDS Integers, Sequences, FiniteSets

CONSTANTS
  Procs,        \* processes that make file-system system calls
  Blocks,       \* home blocks of the file system
  Values,       \* contents of a block
  NotCached,    \* no valid buffer for the block
  NoBlock,      \* the process holds no modified buffer
  LOGBLOCKS,    \* param.h: data blocks in the on-disk log
  MAXOPBLOCKS,  \* param.h: blocks any FS operation is assumed to write
  OpBlocks      \* distinct blocks an operation of this instance writes

ASSUME LogAssumption ==
  /\ NotCached \notin Values
  /\ NoBlock \notin Blocks
  /\ IsFiniteSet(Procs) /\ IsFiniteSet(Blocks)
  /\ LOGBLOCKS \in Nat /\ MAXOPBLOCKS \in Nat \ {0} /\ OpBlocks \in Nat
  /\ OpBlocks <= MAXOPBLOCKS

VARIABLES
  home,         \* on disk: the blocks themselves
  logdata,      \* on disk: the log's data blocks
  head,         \* on disk: the header block, block[0..n-1] as a sequence
  lh,           \* log.lh, the header in memory
  outstanding,  \* log.outstanding
  committing,   \* log.committing
  cache,        \* b->data of the cached buffer of each block
  pins,         \* references the log holds on each buffer (bpin/bunpin)
  pc,           \* where each process is
  tail,         \* local variable of write_log and install_trans
  buf,          \* buffer the process has modified and not yet log_written
  wrote,        \* distinct blocks the process's operation has log_written
  panicked      \* printf.c: some CPU has called panic()

disk == <<home, logdata, head>>
ops == <<buf, wrote>>
vars == <<home, logdata, head, lh, outstanding, committing, cache, pins,
          pc, tail, buf, wrote, panicked>>

-----------------------------------------------------------------------------
LogBlocks(lg) == {lg[i] : i \in 1..Len(lg)}

\* What bread(b) returns.
Data(b) == IF cache[b] = NotCached THEN home[b] ELSE cache[b]

Wakeup_None(npc) == npc

\* wakeup(&log)
Wakeup(npc) == [q \in Procs |-> IF npc[q] = "asleep" THEN "begin" ELSE npc[q]]

\* The machine is running processes: recovery is over.
Up == \A p \in Procs : pc[p] \notin {"off", "recover", "recovered"}

NoSpace_Never == FALSE

\* begin_op(): the operation might exhaust the log.
NoSpace == Len(lh) + (outstanding + 1) * MAXOPBLOCKS > LOGBLOCKS

CommitFrom_HeadFirst(lg) == IF lg = <<>> THEN "end_commit" ELSE "write_head"

CommitFrom_Never(lg) == "end_commit"

\* commit() does nothing for an empty transaction.
CommitFrom(lg) == IF lg = <<>> THEN "end_commit" ELSE "write_log"

Unreferenced_IgnorePins(b) == \A p \in Procs : buf[p] # b

\* b->refcnt == 0
Unreferenced(b) == pins[b] = 0 /\ \A p \in Procs : buf[p] # b

\* if(recovering == 0) bunpin(dbuf);
Unpinned(p, b) == IF pc[p] = "recover" THEN pins ELSE [pins EXCEPT ![b] = @ - 1]

-----------------------------------------------------------------------------
\* The disk mkfs made, before the first boot: an empty log.
Init ==
  /\ home \in [Blocks -> Values]
  /\ \E v \in Values : logdata = [i \in 1..LOGBLOCKS |-> v]
  /\ head = <<>>
  /\ lh = <<>>
  /\ outstanding = 0
  /\ committing = 0
  /\ cache = [b \in Blocks |-> NotCached]
  /\ pins = [b \in Blocks |-> 0]
  /\ pc = [p \in Procs |-> "off"]
  /\ tail = [p \in Procs |-> 0]
  /\ buf = [p \in Procs |-> NoBlock]
  /\ wrote = [p \in Procs |-> {}]
  /\ panicked = 0

\* One pass through the loop of begin_op(), from the call or from sleep().
begin_op(p) ==
  /\ pc[p] \in {"idle", "begin"}
  /\ \/ /\ committing # 0 \/ NoSpace
        /\ pc' = [pc EXCEPT ![p] = "asleep"]
        /\ UNCHANGED outstanding
     \/ /\ committing = 0 /\ ~NoSpace
        /\ outstanding' = outstanding + 1
        /\ pc' = [pc EXCEPT ![p] = "op"]
  /\ UNCHANGED <<disk, lh, committing, cache, pins, tail, ops, panicked>>

\* The caller's bread() and change to bp->data, under the buffer's lock.
update(p, b, v) ==
  /\ pc[p] = "op" /\ buf[p] = NoBlock
  /\ \A q \in Procs : buf[q] # b
  /\ Cardinality(wrote[p] \union {b}) <= OpBlocks
  /\ cache' = [cache EXCEPT ![b] = v]
  /\ buf' = [buf EXCEPT ![p] = b]
  /\ UNCHANGED <<disk, lh, outstanding, committing, pins, pc, tail, wrote, panicked>>

\* log_write(bp), then the caller's brelse(bp).  A panic stops the machine.
log_write(p) ==
  /\ pc[p] = "op" /\ buf[p] # NoBlock
  /\ panicked' = IF Len(lh) >= LOGBLOCKS \/ outstanding < 1 THEN 1 ELSE 0
  /\ IF buf[p] \in LogBlocks(lh)
     THEN UNCHANGED <<lh, pins>>
     ELSE /\ lh' = Append(lh, buf[p])
          /\ pins' = [pins EXCEPT ![buf[p]] = @ + 1]
  /\ buf' = [buf EXCEPT ![p] = NoBlock]
  /\ wrote' = [wrote EXCEPT ![p] = @ \union {buf[p]}]
  /\ UNCHANGED <<disk, outstanding, committing, cache, pc, tail>>

\* end_op() up to the release of log.lock; the last operation out commits.
end_op(p) ==
  /\ pc[p] = "op" /\ buf[p] = NoBlock
  /\ outstanding' = outstanding - 1
  /\ panicked' = IF committing # 0 THEN 1 ELSE 0
  /\ \/ /\ outstanding' = 0
        /\ committing' = 1
        /\ pc' = [pc EXCEPT ![p] = CommitFrom(lh)]
     \/ /\ outstanding' # 0
        /\ pc' = Wakeup([pc EXCEPT ![p] = "idle"])
        /\ UNCHANGED committing
  /\ tail' = [tail EXCEPT ![p] = 0]
  /\ wrote' = [wrote EXCEPT ![p] = {}]
  /\ UNCHANGED <<disk, lh, cache, pins, buf>>

\* One iteration of write_log()'s loop, or its exit.
write_log(p) ==
  /\ pc[p] = "write_log"
  /\ \/ /\ tail[p] < Len(lh)
        /\ LET b == lh[tail[p] + 1]
           IN  /\ logdata' = [logdata EXCEPT ![tail[p] + 1] = Data(b)]
               /\ cache' = [cache EXCEPT ![b] = Data(b)]
        /\ tail' = [tail EXCEPT ![p] = @ + 1]
        /\ UNCHANGED pc
     \/ /\ tail[p] = Len(lh)
        /\ pc' = [pc EXCEPT ![p] = "write_head"]
        /\ tail' = [tail EXCEPT ![p] = 0]
        /\ UNCHANGED <<logdata, cache>>
  /\ UNCHANGED <<home, head, lh, outstanding, committing, pins, ops, panicked>>

\* write_head() in commit(): the transaction commits.
write_head(p) ==
  /\ pc[p] = "write_head"
  /\ head' = lh
  /\ pc' = [pc EXCEPT ![p] = "install"]
  /\ UNCHANGED <<home, logdata, lh, outstanding, committing, cache, pins, tail,
                 ops, panicked>>

\* One iteration of install_trans(recovering), or its exit.
install_trans(p) ==
  /\ pc[p] \in {"install", "recover"}
  /\ \/ /\ tail[p] < Len(lh)
        /\ LET b == lh[tail[p] + 1]
           IN  /\ home' = [home EXCEPT ![b] = logdata[tail[p] + 1]]
               /\ cache' = [cache EXCEPT ![b] = logdata[tail[p] + 1]]
               /\ pins' = Unpinned(p, b)
        /\ tail' = [tail EXCEPT ![p] = @ + 1]
        /\ UNCHANGED pc
     \/ /\ tail[p] = Len(lh)
        /\ pc' = [pc EXCEPT ![p] = IF @ = "recover" THEN "recovered" ELSE "clear"]
        /\ tail' = [tail EXCEPT ![p] = 0]
        /\ UNCHANGED <<home, cache, pins>>
  /\ UNCHANGED <<logdata, head, lh, outstanding, committing, ops, panicked>>

\* log.lh.n = 0; write_head() at the end of commit().
clear_head(p) ==
  /\ pc[p] = "clear"
  /\ lh' = <<>>
  /\ head' = <<>>
  /\ pc' = [pc EXCEPT ![p] = "end_commit"]
  /\ UNCHANGED <<home, logdata, outstanding, committing, cache, pins, tail, ops,
                 panicked>>

\* The second critical section of end_op(), after commit().
end_commit(p) ==
  /\ pc[p] = "end_commit"
  /\ committing' = 0
  /\ pc' = Wakeup([pc EXCEPT ![p] = "idle"])
  /\ UNCHANGED <<disk, lh, outstanding, cache, pins, tail, ops, panicked>>

-----------------------------------------------------------------------------
\* The first process calls initlog() from fsinit(): read_head().
initlog(p) ==
  /\ \A q \in Procs : pc[q] = "off"
  /\ lh' = head
  /\ pc' = [pc EXCEPT ![p] = "recover"]
  /\ UNCHANGED <<disk, outstanding, committing, cache, pins, tail, ops, panicked>>

\* The end of recover_from_log(); then processes start to run.
recovered(p) ==
  /\ pc[p] = "recovered"
  /\ lh' = <<>>
  /\ head' = <<>>
  /\ pc' = [q \in Procs |-> "idle"]
  /\ UNCHANGED <<home, logdata, outstanding, committing, cache, pins, tail, ops,
                 panicked>>

\* bread() of a block that is not cached, by a reader.
bread(b) ==
  /\ Up /\ cache[b] = NotCached
  /\ cache' = [cache EXCEPT ![b] = home[b]]
  /\ UNCHANGED <<disk, lh, outstanding, committing, pins, pc, tail, ops, panicked>>

\* bget() recycles the buffer of b for another block: nobody refers to it.
recycle(b) ==
  /\ Up /\ cache[b] # NotCached
  /\ Unreferenced(b)
  /\ cache' = [cache EXCEPT ![b] = NotCached]
  /\ UNCHANGED <<disk, lh, outstanding, committing, pins, pc, tail, ops, panicked>>

\* Power failure: memory is lost, the disk is not.
Crash ==
  /\ \E p \in Procs : pc[p] # "off"
  /\ lh' = <<>>
  /\ outstanding' = 0
  /\ committing' = 0
  /\ cache' = [b \in Blocks |-> NotCached]
  /\ pins' = [b \in Blocks |-> 0]
  /\ pc' = [p \in Procs |-> "off"]
  /\ tail' = [p \in Procs |-> 0]
  /\ buf' = [p \in Procs |-> NoBlock]
  /\ wrote' = [p \in Procs |-> {}]
  /\ UNCHANGED <<disk, panicked>>

commit(p) ==
  write_log(p) \/ write_head(p) \/ install_trans(p) \/ clear_head(p) \/ end_commit(p)

Next ==
  /\ panicked = 0
  /\ \/ \E p \in Procs : \/ begin_op(p) \/ log_write(p) \/ end_op(p)
                         \/ commit(p) \/ initlog(p) \/ recovered(p)
     \/ \E p \in Procs, b \in Blocks, v \in Values : update(p, b, v)
     \/ \E b \in Blocks : bread(b) \/ recycle(b)
     \/ Crash

Spec == Init /\ [][Next]_vars

(***************************************************************************)
(* Fairness.  A thread that can run is eventually run by the scheduler, so *)
(* a woken begin_op, a log_write, a commit and a recovery proceed (weak    *)
(* fairness).  A system call makes finitely many updates, so it reaches    *)
(* its end_op although updates may come first (strong fairness).           *)
(***************************************************************************)
Fairness ==
  \A p \in Procs : /\ WF_vars(pc[p] = "begin" /\ begin_op(p))
                   /\ WF_vars(log_write(p))
                   /\ SF_vars(end_op(p))
                   /\ WF_vars(commit(p) \/ recovered(p))

FairSpec == Spec /\ Fairness

-----------------------------------------------------------------------------
PCs == {"off", "recover", "recovered", "idle", "begin", "asleep", "op", "write_log",
        "write_head", "install", "clear", "end_commit"}

TypeOK ==
  /\ home \in [Blocks -> Values]
  /\ logdata \in [1..LOGBLOCKS -> Values]
  /\ head \in Seq(Blocks) /\ lh \in Seq(Blocks)
  /\ outstanding \in Nat
  /\ committing \in {0, 1}
  /\ cache \in [Blocks -> Values \union {NotCached}]
  /\ pins \in [Blocks -> Nat]
  /\ pc \in [Procs -> PCs]
  /\ tail \in [Procs -> Nat]
  /\ buf \in [Procs -> Blocks \union {NoBlock}]
  /\ wrote \in [Procs -> SUBSET Blocks]
  /\ panicked \in {0, 1}

Open == {p \in Procs : pc[p] = "op"}

\* The home blocks after install_trans() with header hd and log blocks data.
Replay(hd, data, hm) ==
  [b \in Blocks |-> IF b \in LogBlocks(hd)
                    THEN data[CHOOSE i \in 1..Len(hd) : hd[i] = b]
                    ELSE hm[b]]

\* What recover_from_log() would leave in each block after a crash now.
Durable == Replay(head, logdata, home)

\* What a read of each block returns; before recovery is over, nobody reads.
Current == IF Up THEN [b \in Blocks |-> Data(b)] ELSE Durable

(***************************************************************************)
(* The log implements the atomic disk.  Operations that have ended are     *)
(* committed together, never one that is still open, and whatever crash    *)
(* comes, in the middle of a commit or of an earlier recovery, the blocks  *)
(* go back to the last commit (log.c lines 10-28).                         *)
(***************************************************************************)
AD == INSTANCE AtomicDisk WITH current <- Current, durable <- Durable, open <- Open

CrashAtomic == AD!Spec

(***************************************************************************)
(* Neither end_op() nor log_write() panics: no end_op finds a commit in    *)
(* progress, and begin_op's reservation keeps log_write from "too big a    *)
(* transaction" whatever operations run together (log.c 149, 215).         *)
(***************************************************************************)
NoPanic == panicked = 0

(***************************************************************************)
(* A buffer that bget() may recycle holds what is on the disk, so no       *)
(* update that a file-system call made is lost by reusing its buffer       *)
(* between log_write() and install_trans() (log.c 200-202).                *)
(***************************************************************************)
RecycleLosesNothing ==
  \A b \in Blocks : Unreferenced(b) /\ cache[b] # NotCached => cache[b] = home[b]

(***************************************************************************)
(* With no operation open and no commit running, everything ever written   *)
(* is durable: the last end_op() out does not return before the commit.    *)
(***************************************************************************)
QuiescentIsDurable == Up /\ outstanding = 0 /\ committing = 0 => Current = Durable

(***************************************************************************)
(* The data blocks of the log are never overwritten while the header on    *)
(* disk still names them: they are what a crash would recover from.        *)
(***************************************************************************)
LogDataStable == [][logdata' # logdata => head = <<>>]_vars

(***************************************************************************)
(* A process asleep in begin_op() is woken: by the end_op() that frees     *)
(* reservations or by the end of the commit (log.c 155, 166).              *)
(***************************************************************************)
BeginOpWakes == \A p \in Procs : pc[p] = "asleep" ~> pc[p] # "asleep"
=============================================================================
