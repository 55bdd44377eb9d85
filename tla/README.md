# A verification project for xv6-riscv (Chinese-commented edition)

TLA+ models of the xv6 kernel under `src/kernel`, TLC runs that check them on
small instances, and TLAPS proofs that hold for every instance.  The models are
translated from the C code; `PROJECT.json` maps every definition to the lines it
stands for, and lists the components, the runs, the hazards of the code and the
properties that cover them.

## 1. The system and its parts

xv6 is a small Unix kernel for multi-core RISC-V.  Several harts run kernel
threads of processes, device interrupts come in at any instant at which
interrupts are on, and the power may fail at any instant.

| Part | Source | State | Operations | What makes it hard | Module |
|---|---|---|---|---|---|
| spin locks | `spinlock.c` | `locked`, `cpu`; per CPU `noff`, `intena`, SIE | `acquire`, `release`, `holding`, `push_off`, `pop_off` | unlocked reads in `holding`, handlers that lock too | `Spinlock` |
| scheduler | `proc.c`, `swtch.S` | `state`, `chan`, `p->lock`, `c->proc` | `scheduler`, `sched`, `yield`, `sleep`, `wakeup`, `forkret` | `p->lock` handed over by `swtch`, lost wakeups, `intena` across CPUs | `Sched` |
| sleep locks | `sleeplock.c` | `locked`, `pid` | `acquiresleep`, `releasesleep`, `holdingsleep` | several sleepers, one lock | `Sched`, `Bcache` |
| process table | `proc.c`, `trap.c` | `parent`, `killed`, `pid`, `nextpid` | `kfork`, `kexit`, `kwait`, `kkill`, `usertrap` | parent and child exit together, kill against wait, slots used again | `Proc`, `ProcTree` |
| disk driver | `virtio_disk.c` | descriptors, rings, `b->disk` | `virtio_disk_rw`, `virtio_disk_intr` | a device that takes no lock, out-of-order completion, 16-bit indexes | `Virtio` |
| buffer cache | `bio.c` | buffers, `refcnt`, list by use | `bread`, `bwrite`, `brelse`, `bpin`, `bunpin` | recycling while others wait, all buffers in use | `Bcache`, `BlockStore` |
| write-ahead log | `log.c` | `log`, header and data blocks on disk | `begin_op`, `log_write`, `end_op`, `initlog` | crashes between any two disk writes, reservations, absorption | `Log`, `AtomicDisk` |
| inode table | `fs.c`, `sysfile.c` | `itable`, `nlink`, `ref` | `iget`, `ilock`, `iput`, `ialloc`, `ireclaim`; open, create, close, link, unlink | freeing without the lock, orphans after a crash | `Itable` |
| pipes | `pipe.c` | ring of 512 bytes, two open flags | `pipewrite`, `piperead`, `pipeclose` | mutual wakeups, close and kill while asleep | `Pipe`, `Fifo` |
| file contents, block allocator | `fs.c`, `file.c` | block map, bitmap | `bmap`, `readi`, `writei`, `itrunc`, `balloc`, `bfree` | failure in the middle, indirect blocks, crashes between pieces | `FileData` |
| directories, path names | `fs.c`, `sysfile.c` | directory entries, `cwd` | `namex`, `create`, mkdir, unlink, chdir | walks while directories are removed | `Directory` |
| file table, descriptors | `file.c`, `sysfile.c` | `ftable`, `ofile` | `filealloc`, `filedup`, `fileclose`, open, dup, pipe | last close, partial failure | `Ftable` |
| memory | `kalloc.c`, `vm.c`, `exec.c` | free list, page tables | `kalloc`, `kfree`, `uvm*`, `vmfault`, `kexec`, sbrk | running out of memory half-way | `Memory`, `UserMemory` |
| console | `console.c` | line buffer | `consoleread`, `consoleintr` | wrapping indexes, saved end-of-file | `Console`, `LineInput` |
| serial line | `uart.c`, `console.c` | `tx_busy`, device registers | `consolewrite`, `uartwrite`, `uartputc_sync`, `uartintr` | writers of one register with and without the lock | `Uart` |
| clock | `trap.c`, `sysproc.c` | `ticks` | `clockintr`, `sys_pause` | wraparound | `Ticks` |
| shell, init | `user/sh.c`, `user/init.c` | processes, descriptors | `parsecmd`, `runcmd`, `main` | ends of pipes, failing calls | `ShParse`, `Shell` |
| malloc | `user/umalloc.c` | circular free list | `malloc`, `free`, `morecore` | joining neighbours, gaps | `Umalloc` |
| mkfs | `mkfs/mkfs.c` | image | `iappend`, `balloc` | boundaries of blocks | `Mkfs` |
| strings, printf, grep | `string.c`, `printf.c`, `user/*.c` | | pure functions | overlaps, most negative number, stars | `Library` |
| trap entry, dispatch, interrupt controller, boot, tests | | | | | see section 7 |

How they interact: a system call on files runs between `begin_op` and `end_op`
of the log, works on inodes under their sleep locks and on blocks under the
sleep locks of their buffers; buffers are filled and written by the disk driver,
which sleeps until the interrupt; sleeping and waking is the scheduler's, which
rests on the spin locks.  The models are cut along these interfaces, and each
takes from the layer below what that layer's own module shows:

- `Sched` treats `acquire` and `release` as one step each (`Spinlock`: a lock
  excludes, interrupts are off while it is held);
- `Proc`, `Virtio`, `Pipe`, `Bcache` and `Log` treat `sleep(chan, lk)` as one step
  that goes to sleep and gives up `lk` (`Sched`: no wakeup is lost in between);
- `Log` and `Bcache` treat `virtio_disk_rw` as one step that returns when the
  device has carried the request out (`Virtio`: `ReturnsWhenDone`);
- `Log` keeps of the buffer cache one cached copy per block that is recycled
  only when unreferenced (`Bcache`: one buffer per block, `IsBlockStore`);
- `Itable` and `FileData` run on the disk that `AtomicDisk` describes (`Log`:
  `CrashAtomic`), `Directory` on reference counts that are right (`Itable`);
- `Shell` uses pipes that are queues and descriptors that are counted (`Pipe`,
  `Ftable`), and a scheduler that runs everybody (`Sched`: `RunnableRuns`).

## 2. Modules

Abstract specifications, used by `INSTANCE ... WITH`:

| Module | Promise | Implemented by |
|---|---|---|
| `AtomicDisk` | updates inside operations are visible at once; a crash goes back to an instant with no operation open | `Log` (`CrashAtomic`; proved in `LogProofs`) |
| `BlockStore` | one content per block, one process at a time may have a block; a change that was logged or written stays, any other may be taken back once nobody has the block | `Bcache` (`IsBlockStore`; proved in `BcacheProofs`) |
| `ProcTree` | fork, exit and wait are atomic operations on a tree of pids | `Proc` (`AtomicTree`; proved in `ProcProofs`) |
| `Fifo` | a bounded first-in first-out queue of bytes | `Pipe` (`IsQueue`; proved in `PipeProofs`) |
| `UserMemory` | each process has an array of pages of its own; a call that fails changes nothing | `Memory` (`IsUserMemory`) |
| `LineInput` | lines that are edited until they end, a queue of finished input, reads that stop at the end of a line | `Console` (`IsLineInput`) |

Detailed ones.  The actions carry the names of the C functions; where one
function is several steps, the others have a suffix (`kwait`, `kwait_next`,
`kwait_zombie`, ...).  Variables carry the names of the C fields and locals, and
`pc` says where in a function a process is.  A panic is `panicked = 1`, after which
nothing happens any more.  Operators with an underscore and a capital
(`UvmcopyUndo_Keep`) are wrong variants of the definition that follows; they
are not used by any specification and serve to see that the properties notice
such a mistake.

- **`Spinlock`**: `spinlock.c`, one memory access per step.  Each CPU takes locks in
  the order of their numbers, releases them in any order, switches its
  interrupts, and is interrupted by a handler that does the same.  `wanted` and
  `held` record what the code asked for.
- **`Sched`**: the scheduler loops of all CPUs, the kernel threads they switch to,
  `noff`/`intena` per CPU, and a client that takes and gives back one sleep lock,
  kills others and is preempted by the timer.  `swtch` moves `thread[c]`, not `plock`.
- **`Proc`**: one step is one critical section of `wait_lock` or a `p->lock`.  RUNNABLE
  and RUNNING are one state.  User code calls fork, exit, wait and kill whenever
  it likes; memory may run out in any fork.  `missed` is history.
- **`Virtio`**: the driver at the granularity of `vdisk_lock` and of its single writes
  to the rings, and the device as an external actor that fetches, finishes in any
  order and interrupts when it likes.
- **`Bcache`**: a step is a critical section of `bcache.lock` or of the spin lock in a
  sleep lock.  The callers are those of `fs.c` and `log.c`, reduced to the buffers they
  nest: a home block in a block of the log (`write_log`, `install_trans`), the bitmap in an
  indirect block (`bmap`, `itrunc`), and in an indirect block the one that `balloc` has just
  taken and `bzero` clears, wherever on the disk that is.  `inuse` is the bitmap, `mine` the blocks
  of the inodes a process has locked.  A caller may change a buffer and let go of it
  without `log_write` or `bwrite`, as `writei` does when `either_copyin` fails.
- **`Log`**: critical sections of `log.lock` and single disk writes are steps, and a
  crash may come after each.  `head`, `logdata`, `home` are the disk; `lh`, `cache`,
  `pins` are memory.
- **`Itable`**: `disk` is what the system calls see, `committed` what a crash leaves.
  Each process makes one system call at a time on plain files of one directory;
  `ireclaim` runs at boot and can be hit by a crash itself.
- **`Pipe`**: `struct pipe` with its lock, readers and writers with calls of up to
  `MaxN` bytes, failing `copyin` and `copyout`, close and kill at any instant.

- **`FileData`**: `bmap`, `readi`, `writei`, `itrunc`, `balloc`, `bfree` and `filewrite`,
  which cuts a write into transactions.  A step of a write is one block; a crash
  may come between any two, copies from user space may fail, blocks may run out.
- **`Ftable`**: critical sections of `ftable.lock`; descriptors, open, dup, close, pipe,
  and the loops of fork and exit over descriptors.
- **`Directory`**: a step is what is done under the lock of one inode; a walk holds a
  reference to one directory while it waits for the next.
- **`Memory`**: a system call is one step, and the number of its `kalloc`s that succeed
  is a choice.  The functions of `vm.c` are operators on a record with the free
  pages, a three-level page table of fan-out two and a size in half pages; sizes wrap
  at `WORD`, which stands for 2^64.
- **`Console`**: `consoleintr` is one step, a reader takes a byte per step.
  **`Uart`**: the register accesses of `uartwrite`, `uartputc_sync` and `uartintr`, and the
  device.  **`Ticks`**: `clockintr` and `sys_pause` with a counter that wraps.
- **`ShParse`** is the parser of the shell, and **`Shell`** the processes it makes of a
  line: a step is a system call (or several that only close), and every call that
  can fail may.  `init` starts the shell again and waits for orphans.
- **`Umalloc`** (headers in a memory of units), **`Mkfs`** (a turn of a loop of `main` per
  step) and **`Library`** (a call per step: what the C loop computes, next to an
  independent definition of what it should).

The `MC*` modules add symmetry sets and values of constants.  `MCResources` and `MCOuter`
each put several machines that share no state into one specification, `MCLog` two instances of one: the
variable `part`, chosen at the start, says which of them the behaviour is about, so the
states of the run are the sum of theirs, not the product.

## 3. Runs

| Run | Instance | What it shows |
|---|---|---|
| `log` | roomy: 2 processes, 2 blocks, 2 values, 6 log blocks, 3 reserved per operation of which 2 are written; tight: 4 blocks, 1 value, 4 log blocks, 2 reserved of which 1 is written | `RecycleLosesNothing`, `QuiescentIsDurable`, `NoPanic`; the log is an atomic disk (`CrashAtomic`); who waits in `begin_op` is admitted (`BeginOpWakes`) |
| `bcache` | 2 processes, 2 buffers, a log block, the bitmap, a file block, 2 values, 1 pinned | `refcnt` counts users and waiters, the cache is a block store |
| `buffer_order` | 3 processes, 3 buffers, a log block, the bitmap, 2 file blocks | nobody waits in a circle for buffers (`NoCircle`) |
| `itable` | 2 processes, 1 name, 2 inodes, 2 table entries | no inode in use is free on disk, a crash leaves only orphans, `ireclaim` frees them all |
| `spinlock` | 2 CPUs, 2 locks | exclusion, no misfiring assertion, interrupts off as long as needed and no longer |
| `sched` | 2 CPUs, 2 processes | a thread on one CPU at a time, no lost wakeup, interrupt state follows the thread, the runnable run and sleepers wake |
| `proc` | 3 slots, 4 pids, kills of pid 2 | no exit is missed, no slot is freed under a running thread, fork/exit/wait are atomic, the killed exit |
| `virtio` | 3 processes, 8 descriptors, indexes modulo 16 | no descriptor is used twice, no completion is missed, a request returns after it is done |
| `pipe` | 2 readers, 1 writer, room for 2 bytes, indexes modulo 4, calls of up to 3 bytes | no use after the last close, no lost wakeup, a bounded queue |
| `resources` | memory: 2 processes, 40 pages, failure at each of the first 13 allocations, sizes up to 4 pages in halves; contents: 2 processes, 2 files, 4 blocks, 1 direct block, blocks of 2 bytes; table: 3 files, 2 descriptors, 1 pipe; tree: 2 processes, 1 name, 3 inodes | every page has one owner after every failure (`PagesConserved`); user memory is an array per process (`IsUserMemory`); a block has one owner, and a piece of a write logs fewer blocks than it has reserved (`BlocksPartition`); a file reads back what was written (`ReadsBack`); counts of files are right (`FilesCounted`); the tree stays a tree (`TreeSound`) |
| `outer` | console: 2 bytes, indexes modulo 4; serial line: 2 writers, 1 printer; clock modulo 4; malloc: 12 units; shell: 7 processes, 3 pipes, 8 lines; mkfs: 11 blocks, 3 files; library: strings of up to 4 | console input is edited lines (`IsLineInput`), no sleeper is forgotten by the serial line or the clock (`NoSleeperForgotten`), the shell comes back to its prompt (`ShellReturns`), `UserSpaceSound`: blocks of malloc do not overlap, the image is consistent, ends of pipes are where the line says, functions agree with their references |
| `dotdot` | 2 processes, names `a` and `..`, 4 inodes | a violation, see section 6 |

Why these bounds: two actors of each kind are what the locks arbitrate, and a third
is added where a waiter behind two others matters (`virtio`, `buffer_order`).  Each resource is
just small enough to be exhausted: two operations fill the log, in the tight one with more
blocks about than it can hold, so that only the test in `begin_op` keeps `log_write` from its panic; two requests take six
of eight descriptors, two buffers are fewer than the blocks, the pipe is full in the middle
of a call.  Indexes wrap within a run.  Eight descriptors are the real number;
`Wrap` must be a multiple of it as 2^16 is.  In `resources`, 13 allocations are more
than any call needs, so every failure point occurs.  Names of bounds that are not
in the code: `MaxPinned`, `OpBlocks`, `MaxPid`, `KillPids`, `MaxN`, `MaxCalls`, `MaxSz`,
`Budgets`, `MaxRx`, `MaxBytes`, `MaxLeft` (nothing is typed while more orphans than that are
left), `MaxFiles`, `MaxSize`, `MaxLen`.

`NoCircle` has a run of its own, with a third process and no data, because the
store of blocks with data is too large for three; the proof of section 5 has no such bound.

Deadlock is not checked where the system may stop: callers of the buffer cache that are
all at rest, pipes and files that all
processes have closed, calls that are used up (`MaxCalls`, the input of the console), a
parser or a library function that has returned.

The symmetric sets are sets of processes, CPUs and bytes that no definition
tells apart.  Runs with liveness use no symmetry; `IsBlockStore` and `IsQueue`, which are
used with symmetry, are safety properties that do not name an element.

## 4. Fairness

- `log`: a process inside an operation goes on (`log_write`, commit, recovery: weak),
  one that was woken tries again (weak).  `end_op` is strong: between two blocks an
  operation may end or take another, and the code's operations are finite.
- `sched`: every CPU's loop goes on (weak); acquiring a `p->lock` or the sleep lock's
  spin lock is strong, because others take it in between: the hardware's atomic swap is
  taken to be fair.  The timer interrupts, hence `yield` is taken.  Nothing forces a
  process to call anything.
- `proc`: a process in the kernel goes on (weak), gets `wait_lock` (strong), and init
  calls wait for ever, as `user/init.c` does (strong).
- `outer`: every process of the shell goes on (weak); `RunnableRuns` in `sched` is why.
  Nobody has to type.  A `cat` that reads the console ends, because fairness of its process
  includes its end: that somebody types the end of file is assumed, and `ShellReturns` shows
  nothing about it.

## 5. Proofs

Eight components have theorems, each in a module that is named after it: `LogProofs`,
`SpinlockProofs`, `SchedProofs`, `ProcProofs`, `VirtioProofs`, `BcacheProofs`, `ItableProofs`, `PipeProofs`.  They hold for every
value of the constants that satisfies the assumptions.  Each proof has an inductive invariant,
called `IInv`; its clauses are listed below, and for each clause a
lemma says that every step keeps it.

**Log** (`LogAssumption`: finitely many processes and blocks, sizes that are naturals,
`0 < MAXOPBLOCKS`, `OpBlocks <= MAXOPBLOCKS`).  The first half of `LogProofs` shows
that a step keeps the parts of the inductive invariant:

- `TypeOK`, `Phases`, `Buffers`: who may be doing what at the same time;
- `Capacity` with `Reserved`: the blocks in the log and the part of its reservation that
  each open operation has not used fit together; the test in `begin_op`, which counts
  `MAXOPBLOCKS` for every operation, is inductive only in this form; `Counts` is what the
  steps that do not count need of it;
- `OpWrites`, `OpSize`, `Tails`, `Distinct`: what an operation wrote is in the log, the
  bounds of the loops, and that absorption makes no duplicates;
- `Pins`, `Cached`: a block in the header is pinned as long as it is not installed, so its
  buffer is the only copy and is there;
- `Heads`, `Copied`: how far the commit has come, and that the copy in the log
  equals the cache for each block already copied, and home equals the log for each
  block already installed.

From it: `TypeCorrect`, `ReservationSuffices`, `NeverPanics` (if `OpBlocks < MAXOPBLOCKS`),
`RecyclingIsSafe`, `QuiescenceIsDurable`, the action property `LogDataIsStable`, and
`LogIsCrashAtomic`: `Log` implements `AtomicDisk`.  The
mapping takes as committed contents what recovery would make of the disk at this
instant; the step that writes the header is the one that commits, and the
steps that install and clear it are stutters.

**Spin locks** (`SpinlockAssumption`: locks are finitely many numbers, `NoCPU` is no CPU).
`Ownership`
(who has a lock, and in which steps `lk->cpu` does not say so yet or any more), `Nesting`
(`noff` counts the locks held and the call under way), `Interrupted` (a handler starts only with interrupts on and
returns to that) are inductive together, and give exclusion, that no assertion fires
although `holding` reads without a lock, and both properties of interrupts.

**Scheduler** (`SchedAssumption`: `NoCPU` is no CPU, there is a process).  Any number of CPUs and processes.
The invariant of `SchedProofs`:

- `Threads`: a thread that is executing is the `c->proc` of one CPU and of no other, and a thread
  that no CPU executes is where `swtch` has left it and not `RUNNING`;
- `Locks`: who holds each `p->lock`, which a thread acquires and a scheduler releases or the other way
  round, and who holds the spin lock of the sleep lock;
- `Interrupts`, `Saved`: the interrupt enable bit, `noff` and `intena` of a CPU fit the place in the code it executes,
  so `sched` and `release` do not panic; a thread that was switched away from has saved the `intena` that it
  restores on whichever CPU it comes back;
- `Sleepers`: who has set `p->chan`, who can be `SLEEPING`, and that the lock that was found taken is
  still taken when the process is about to sleep.  With it `NoLostWakeup` is inductive: between the test in
  `acquiresleep` and `SLEEPING` a process holds first the condition lock, then its own, and
  `wakeup` needs both.

From it: `ThreadsHaveOneCPU`, `WakeupsReachSleepers`, `InterruptsFollowThreads`.

**Processes** (`ProcAssumption`: at least one slot, pids to kill are naturals).  The invariant of `ProcProofs`:

- `Places`, `Lock`, `Loops`: what the state of a slot says about its thread, who has `wait_lock`, and
  which local variables are live; the first gives `StacksAreLeft`;
- `Forks`: between its critical sections `kfork` has no lock on the new slot; it stays `USED`, no other
  fork has it, and its parent does not change;
- `Family`: a slot that is in use has a parent, who is alive and not about to exit; init is
  the root;
- `Waits`: what `kwait` has seen under `wait_lock` still holds, and a process about to be a
  `ZOMBIE` has woken its parent; `NoLostExit` alone is not inductive, it needs both; this gives
  `ExitsAreNoticed`;
- `Pids`, `InitStays`: pids are unique, and init exits only if it is killed.

`ProcessTreeIsAtomic` (if nobody kills pid 1): `Proc` implements `ProcTree`.  A child is forked when
`kfork` sets its parent, has exited when `kexit` has called `reparent`, is reaped when `kwait`
frees it; every other step is a stutter.

**Disk driver** (`VirtioAssumption`: at least three descriptors, `NUM < Wrap`, and `NUM` divides `Wrap`,
as 8 divides 2^16).  Any number of processes.  The invariant of `VirtioProofs`:

- `Locked`: who has `vdisk_lock`;
- `Chains`, `Apart`: a request has a chain of three descriptors that are not free, shares none with another,
  and the chain names its buffer;
- `Rings`: the part of a ring between its two indexes holds at most `NUM` entries, which are different.
  Lemmas on remainders say that two indexes with the same slot are at least `NUM` apart, so a write to the next
  slot of such a ring, or clearing the first, touches no other entry.  That there is room is counted nowhere in the code:
  the entries are first descriptors of different requests, the one to be added is
  another, and there are only `NUM` (a pigeonhole argument);
- `Stages`: how far each request is: a request in the avail ring or with the device is not done, one in the used ring is
  done once, and `b->disk` is 0 only after that;
- `Wanting`, `Pending`, `Noticed`: the parts of `NoLostWakeup`, the one on descriptors also while the lock is held.

From it: `ChainsAreTheDevices`, `RequestsReturnWhenDone`, `CompletionsAreNoticed`.

**Buffer cache** (`BcacheAssumption`: finitely many processes, at least one buffer; blocks of the log,
of metadata and of files are disjoint, the bitmap is metadata).  The invariant of `BcacheProofs`:

- `Counts`: `refcnt` of a buffer is the number of processes that hold it or wait for it, and the log's pins;
- `Unique`, `Full`: a block has one buffer; `bget` panics only with every buffer in use.  A lemma
  on the list says that the search backwards finds a free buffer whenever there is one;
- `Owned`, `Using`: who holds a sleep lock, that what a process waits for is still the buffer of the block
  it asked for, and that nobody sleeps for a free lock;
- `Filled`: a valid buffer has the contents of a block, and one that the log pins is valid;
- `Apart`: the blocks that processes have by their inodes' locks are marked in the bitmap, and no two
  processes have the same;
- `Nested`, which is `Habit` of every process: who holds a buffer and waits for another either holds a block of
  the log and waits for one that is not, or holds a block of its own file and waits for the
  bitmap or for another block of its own.

From it: `ReferencesCounted`; `NobodyWaitsInACircle`; and `CacheIsBlockStore`.  No order of block numbers
shows that there is no circle, since `balloc` returns a block anywhere.  Instead: suppose every process of a
set waits for one in the set.  Who waits for a block that is not the log's waits for a process that holds it
as a block of its own file; that one waits for the bitmap, which nobody who waits is holding, or for another block of its own,
which by `Apart` is nobody else's.  So all wait for blocks of the log; but who holds such a block
waits for one that is not of the log.

For the block store the content of a block is its buffer's if it has a valid one, else the disk's, and
what stays is the content if the block is logged, else the disk's.  Recycling a buffer is then a
stutter, or the `Revert` of a change that was neither logged nor written; `bwrite` is `Write`, `bpin` is
`Log`, and `bunpin` is `Install`.

**Inode table** (`ItableAssumption`: finitely many processes and names, at least one name, one inode
and one entry).  Any number of processes, names, inodes and table entries, a crash at any step.  The invariant of
`ItableProofs`:

- `Counted`, `OneEntry`, `Pointers`: `ref` of an entry is the number of calls and open files that point to it, and
  an inode has one entry;
- `Locks`, `Dir`: who holds the lock of an inode, and that under the directory's lock the name `create` found free
  stays free and the entry `sys_unlink` found stays;
- `Fresh`: until `create` has entered its inode in the directory, only those point to it who
  let go of its earlier use; `ialloc` may take an inode that `iput` has freed on disk and not yet left;
- `Allocated`, `Alone`: who points to an inode and is not letting go of it finds it allocated; from `ref == 1 && nlink == 0` in
  `iput` until the inode is freed nobody else gets a pointer, although `itable.lock` is released in
  between, because no name leads to it;
- `Agree`: a valid entry equals the disk, but between `iupdate` and `ip->valid = 0` in `iput`;
- `Linked`: `nlink` is the number of names and of the calls that have counted one
  they have not written yet, or have removed and still count.  No such call is open when the log
  commits (`Outstanding`), so `Consistent` says of the committed disk that `nlink` is the number of names;
- `Boot`: `ireclaim` runs alone, and behind `scan` nothing is left to free;
- `Panics`: the only panic left is `iget: no inodes`, with every entry in use.

`Opening`, that a call about to open a file has none open, is kept without the others.
`Invariance` gives `InUseIsAllocatedHolds`, `CrashConsistentHolds` and `ReclaimIsCompleteHolds`.  What is needed
of cardinalities is `Counting`, a fact about finite sets that the lemmas have as a hypothesis and that
`CountingHolds` proves.  A step is split into what it does to the one entry, inode, name and process it
touches; `Moved` concludes from that for all the others, so that an action's proof speaks of its own process only.

**Pipes** (`PipeAssumption`: readers and writers are disjoint, `0 < PIPESIZE < Wrap`,
and `PIPESIZE` divides `Wrap`, as 512 divides 2^32).  The invariant of `PipeProofs`:

- `Places`, `Loops`, `Seen`: who has `pi->lock`, the bounds of the two loops, and that
  what the holder tested still holds;
- `Ends`: an end that is closed, or about to be, has no user left, and the page is freed
  only after both; this gives `FreedOnce`;
- `Sleepers`: a sleeper has its reason, or somebody has the lock who wakes it before
  letting go; `NoLostWakeup` alone speaks of a free lock and is not inductive; this
  gives `SleepersAreWoken`;
- `Bounded`: the indexes are at most `PIPESIZE` apart.  Lemmas on remainders turn this
  into: the slot that `pipewrite` fills holds no byte of the pipe, and the wrap of an index
  moves no byte.

`PipeIsQueue` follows: `Pipe` implements `Fifo`, any number of times around.

## 6. Findings and known limits

`dotdot` is the disagreement of the code with one of its own assertions: a process sits
in a directory that is removed; the parent's count goes down, the entry `..`
stays; the parent is removed and freed; the next walk through `..` reaches
`panic("ilock: no type")` (`fs.c:298`).  The run `resources` has no `..` in paths for that reason.

What the models had to assume, or made visible, without a run of its own:

- an operation that writes exactly `MAXOPBLOCKS` distinct blocks when the log is filled
  to the last block can reach the panic in `log_write`, which tests before it absorbs;
  that the pieces of `filewrite` stay below is part of `BlocksPartition`;
- a failed copy in `writei` leaves bytes in a cached block that the log does not know; they are
  visible until the buffer is recycled (`Revert` in `BlockStore`, `writei_badcopy` and `Evict` in
  `FileData`), or go to disk with the next change of the block.  `Log` has only changes that are logged;
- more users than `NBUF` buffers panic in `bget`; the callers' number is bounded;
- `sbrk` of less than minus the size wraps around and changes nothing, and returns the old size as if it had;
- `kill(0)` marks a free slot and `kill(1)` ends in init's panic; `KillPids` leaves both out;
- a killed writer leaves bytes in a pipe without a wakeup (`pipe.c:84`); the reader sees
  them when the writer's end is closed by its exit;
- `iput` decides that it is the last user before it takes the inode's lock
  (`fs.c:341`); an inode can be left without a name until the next boot, where
  `ireclaim` frees it;
- a file created in a directory that was removed meanwhile is lost with it;
- lazy sbrk does not test against TRAPFRAME (`sysproc.c:57`); sizes stay below it here;
- `mkfs` rounds the root's size up by a block too much when it is a multiple of one
  (`mkfs.c:169`), which leaves a hole;
- of several redirections of one descriptor in a line the first wins; `grep` stops at a
  line longer than its buffer and does not see a last line without newline;
- init's own fork failing ends the system.

## 7. Only model-checked, and not modelled

Only model-checked: everything outside the eight components of section 5; all liveness
properties, since the prover has no fairness; whatever recursive definitions compute
(`ShParse`, `Library`, the page-table functions), since it has no induction over data.

Not modelled:

- the kernel's own page table, boot (`start.c`, `main.c`, `entry.S`): executed once by one
  hart, while the others spin on `started`; the models start behind it;
- trap entry and return, the assembly code, `syscall.c`'s table: no state of their own; the
  tests of `killed` and the yield they make are in `Proc` and `Sched`;
- the interrupt controller: register accesses; its promise, that one hart claims an
  interrupt, is part of the interrupts in `Virtio` and `Uart`;
- user programs and tests other than the shell, init, grep, echo and cat: sequential
  clients; generated stubs, and the script that drives the tests;
- place of an entry in a directory's blocks, several bitmap blocks, `stat`, `procdump`,
  the wording of messages.
