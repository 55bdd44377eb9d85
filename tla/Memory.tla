------------------------------- MODULE Memory -------------------------------
(***************************************************************************)
(* Physical pages and user address spaces: kalloc.c, vm.c, exec.c and the  *)
(* parts of proc.c, sysproc.c, syscall.c, trap.c and sysfile.c that        *)
(* allocate.                                                               *)
(* A process changes its own page table only, and all meet in the free     *)
(* list; so a system call is one step, and how many of its kalloc()s       *)
(* succeed before the pages run out is a choice, which covers what other   *)
(* CPUs take meanwhile.  The functions work on a record: the free pages,   *)
(* the kalloc()s that still succeed, the page table and size at hand, the  *)
(* result of the last call, and the inode that exec has to let go.         *)
(* Addresses count pages, sizes count halves of a page, so that sizes that *)
(* are not aligned occur; the tree has three levels and a fan-out of two.  *)
(***************************************************************************)
EXTENDS Integers, Sequences, FiniteSets, SequencesExt, FiniteSetsExt

CONSTANTS
  Procs,
  initproc,
  NPAGES,       \* pages between the end of the kernel and PHYSTOP
  Budgets,      \* how many kalloc()s of a call succeed
  MaxSz,        \* bound on the size of a process
  MAXARG,
  Calls         \* arguments of exec: user addresses, sizes of the strings, the file

PGSIZE == 2
WORD == 64      \* addresses and sizes wrap here: 2^64
USERSTACK == 1
FanOut == 2
MAXVA == 8
TRAMPOLINE == MAXVA - 1
TRAPFRAME == TRAMPOLINE - 1
VA == 0..MAXVA - 1

\* MaxSz: nothing in sbrk() keeps a lazy size below TRAPFRAME.
ASSUME MemoryAssumption ==
  /\ initproc \in Procs
  /\ MaxSz \in 1..TRAPFRAME * PGSIZE /\ 2 * MaxSz < WORD
  /\ NPAGES \in Nat /\ Budgets \subseteq Nat

VARIABLES
  free,       \* length of kmem.freelist
  proc,       \* state, size and page table of each process
  inodes,     \* inodes that exec has locked and not let go
  panicked

vars == <<free, proc, inodes, panicked>>

Unmapped == [val |-> "none", u |-> 0, w |-> 0]
NoTable == [tab |-> {}, pte |-> [va \in VA |-> Unmapped]]
Unused == [state |-> "unused", sz |-> 0, pt |-> NoTable]

Up(sz) == (sz + PGSIZE - 1) \div PGSIZE    \* PGROUNDUP(sz) / PGSIZE

Fail(m) == [m EXCEPT !.ok = FALSE]

\* Go on with F if the last call succeeded, with G if it did not.
Then(m, F(_)) == IF m.ok THEN F(m) ELSE m
OrElse(m, G(_)) == IF m.ok THEN m ELSE G(m)

kalloc(m) ==
  IF m.n = 0 THEN Fail(m) ELSE [m EXCEPT !.n = @ - 1, !.free = @ - 1, !.ok = TRUE]

kfree(m) == [m EXCEPT !.free = @ + 1]

\* The page-table pages below the root that lead to va.
Leaf(va) == <<0, va \div FanOut>>
Path(va) == << <<1, va \div (FanOut * FanOut)>>, Leaf(va) >>

\* walk(pagetable, va, 1)
walk(m, va) ==
  FoldLeft(LAMBDA r, node :
             IF ~r.ok \/ node \in r.pt.tab THEN r
             ELSE Then(kalloc(r), LAMBDA a : [a EXCEPT !.pt.tab = @ \union {node}]),
           [m EXCEPT !.ok = TRUE, !.panicked = IF va >= MAXVA THEN 1 ELSE @], Path(va))

\* *walk(pagetable, va, 0), unmapped where there is no page-table page; a leaf
\* table is only reached through the one above it
Entry(pt, va) == IF Leaf(va) \in pt.tab THEN pt.pte[va] ELSE Unmapped

ismapped(pt, va) == Entry(pt, va) # Unmapped

walkaddr(pt, va) == va < MAXVA /\ ismapped(pt, va) /\ Entry(pt, va).u = 1

\* mappages() for one page
mappages(m, va, pte) ==
  Then(walk(m, va), LAMBDA r : [r EXCEPT !.pt.pte[va] = pte,
                                         !.panicked = IF ismapped(r.pt, va) THEN 1 ELSE @])

uvmcreate(m) == Then(kalloc(m), LAMBDA a : [a EXCEPT !.pt = [NoTable EXCEPT !.tab = {<<2, 0>>}]])

uvmunmap(m, va, npages, do_free) ==
  LET S == {a \in va..va + npages - 1 : a < MAXVA /\ ismapped(m.pt, a)}
  IN [m EXCEPT !.free = IF do_free THEN @ + Cardinality(S) ELSE @,
               !.pt.pte = [a \in VA |-> IF a \in S THEN Unmapped ELSE @[a]],
               !.panicked = IF npages > 0 /\ va + npages > MAXVA THEN 1 ELSE @]

uvmdealloc(m, oldsz, newsz) ==
  IF Up(newsz) < Up(oldsz) THEN uvmunmap(m, Up(newsz), Up(oldsz) - Up(newsz), TRUE) ELSE m

\* kalloc(), memset() and mappages() of one page, and the kfree() when that fails
NewPage(m, va, pte) == Then(kalloc(m), LAMBDA a : OrElse(mappages(a, va, pte), LAMBDA b : kfree(b)))

\* The way out of uvmalloc() when page a cannot be had.
UvmallocUndo(m, oldsz, a) == uvmdealloc(m, a * PGSIZE, Up(oldsz) * PGSIZE)

\* Fails as well when it returns a new size of 0.
uvmalloc(m, oldsz, newsz, w) ==
  IF newsz < oldsz THEN [m EXCEPT !.ok = TRUE]
  ELSE FoldLeft(LAMBDA r, a :
                  Then(r, LAMBDA b : OrElse(NewPage(b, a, [val |-> "zero", u |-> 1, w |-> w]),
                                            LAMBDA c : UvmallocUndo(c, oldsz, a))),
                [m EXCEPT !.ok = newsz # 0],
                [k \in 1..Up(newsz) - Up(oldsz) |-> Up(oldsz) + k - 1])

\* Every page-table page is freed; a leaf must be gone by then.
freewalk(m) ==
  [m EXCEPT !.free = @ + Cardinality(m.pt.tab),
            !.pt = NoTable,
            !.panicked = IF \E va \in VA : ismapped(m.pt, va) THEN 1 ELSE @]

uvmfree(m, sz) == freewalk(uvmunmap(m, 0, Up(sz), TRUE))

UvmcopyUndo_Keep(m, i) == uvmunmap(m, 0, i, FALSE)

\* err: of uvmcopy(), at page i
UvmcopyUndo(m, i) == uvmunmap(m, 0, i, TRUE)

\* uvmcopy(old, m.pt, sz)
uvmcopy(m, old, sz) ==
  FoldLeft(LAMBDA r, i :
             IF ~r.ok \/ ~ismapped(old, i) THEN r
             ELSE OrElse(NewPage(r, i, Entry(old, i)), LAMBDA b : UvmcopyUndo(b, i)),
           [m EXCEPT !.ok = TRUE], [k \in 1..Up(sz) |-> k - 1])

\* uvmclear(): PTE_U goes, and no page-table page means a panic.
uvmclear(m, va) ==
  IF Leaf(va) \in m.pt.tab THEN [m EXCEPT !.pt.pte[va].u = 0] ELSE [m EXCEPT !.panicked = 1]

\* A page below the size that has not been given memory yet.
Lazy(m, va) == va * PGSIZE < m.sz /\ ~ismapped(m.pt, va)

vmfault(m, va) ==
  IF Lazy(m, va) THEN NewPage(m, va, [val |-> "zero", u |-> 1, w |-> 1]) ELSE Fail(m)

\* The page that copyin() and copyout() look for.
Present(m, va) == IF walkaddr(m.pt, va) THEN [m EXCEPT !.ok = TRUE] ELSE vmfault(m, va)

Writable_Any(m, va) == TRUE

Writable(m, va) == Entry(m.pt, va).w = 1

\* copyout() of v to the pages of a buffer, up to the first that fails
copyout(m, vas, v) ==
  FoldLeft(LAMBDA r, va :
             IF ~r.ok \/ va >= MAXVA THEN Fail(r)
             ELSE Then(Present(r, va),
                       LAMBDA a : IF Writable(a, va) THEN [a EXCEPT !.pt.pte[va].val = v] ELSE Fail(a)),
           [m EXCEPT !.ok = TRUE], vas)

copyin(m, vas) ==
  FoldLeft(LAMBDA r, va : Then(r, LAMBDA a : Present(a, va)), [m EXCEPT !.ok = TRUE], vas)

\* copyinstr() of a string within a page, which gives no lazy page its memory
copyinstr(m, va) == [m EXCEPT !.ok = walkaddr(m.pt, va)]

fetchaddr(m, va) == IF va * PGSIZE >= m.sz THEN Fail(m) ELSE copyin(m, <<va>>)

\* The mappings of proc_pagetable() above user memory.
MapTrampoline(m) ==
  OrElse(mappages(m, TRAMPOLINE, [val |-> "kernel", u |-> 0, w |-> 0]), LAMBDA a : uvmfree(a, 0))

MapTrapframe(m) ==
  OrElse(mappages(m, TRAPFRAME, [val |-> "kernel", u |-> 0, w |-> 1]),
         LAMBDA a : uvmfree(uvmunmap(a, TRAMPOLINE, 1, FALSE), 0))

proc_pagetable(m) == Then(Then(uvmcreate(m), MapTrampoline), MapTrapframe)

proc_freepagetable(m, sz) ==
  uvmfree(uvmunmap(uvmunmap(m, TRAMPOLINE, 1, FALSE), TRAPFRAME, 1, FALSE), sz)

\* freeproc(): the trapframe page, and the page table if there is one
freeproc(m) ==
  IF m.pt = NoTable THEN kfree(m) ELSE proc_freepagetable(kfree(m), m.sz)

\* allocproc(), of a slot with size 0 and no page table
allocproc(m) == Then(kalloc(m), LAMBDA a : OrElse(proc_pagetable(a), freeproc))
-----------------------------------------------------------------------------
\* loadseg(): pages that the segment has in the file; an unmapped one panics.
loadseg(m, seg) ==
  LET S == seg.vaddr \div PGSIZE..Up(seg.vaddr + seg.filesz) - 1
  IN [m EXCEPT !.pt.pte = [va \in VA |-> IF va \in S THEN [@[va] EXCEPT !.val = "text"] ELSE @[va]],
               !.ok = seg.read,
               !.panicked = IF \A va \in S : walkaddr(m.pt, va) THEN @ ELSE 1]

SegmentOk(seg) ==
  /\ seg.memsz >= seg.filesz
  /\ (seg.vaddr + seg.memsz) % WORD >= seg.vaddr
  /\ seg.vaddr % PGSIZE = 0

\* A file that exec can load, such as the /init that mkfs installs.
WellFormed(image) ==
  image.exists /\ image.elf /\ \A s \in ToSet(image.segs) :
    s.header /\ (s.load => SegmentOk(s) /\ s.read /\ s.memsz > 0)

\* One turn of the loop over the program headers; m.sz is the local sz.
Segment(m, seg) ==
  LET end == seg.vaddr + seg.memsz
  IN IF ~m.ok \/ (seg.header /\ ~seg.load) THEN m
     ELSE IF ~seg.header \/ ~SegmentOk(seg) THEN Fail(m)
     ELSE Then(uvmalloc(m, m.sz, end, seg.w),
               LAMBDA a : loadseg([a EXCEPT !.sz = IF end > @ THEN end ELSE @], seg))

\* The stack with its guard page.
Stack(m) ==
  LET base == Up(m.sz) * PGSIZE
      top == base + (USERSTACK + 1) * PGSIZE
  IN Then(uvmalloc([m EXCEPT !.sz = base], base, top, 1),
          LAMBDA a : uvmclear([a EXCEPT !.sz = top], Up(base)))

\* The argument strings and the array of pointers to them, which takes one unit.
Arguments(m, args) ==
  LET room == USERSTACK * PGSIZE
      push == FoldLeft(LAMBDA r, len :
                         IF ~r.m.ok THEN r
                         ELSE IF r.used + len > room THEN [r EXCEPT !.m = Fail(@)]
                         ELSE [used |-> r.used + len,
                               m |-> copyout(r.m, <<(r.m.sz - r.used - len) \div PGSIZE>>, "args")],
                       [used |-> 0, m |-> m], Append(args, 1))
  IN push.m

\* iunlockput() and end_op()
iunlockput(m) == [m EXCEPT !.ip = @ - 1]

\* bad: of kexec(), back to the old image
ExecBad(m, old) ==
  [(IF m.pt = NoTable THEN m ELSE proc_freepagetable(m, m.sz))
     EXCEPT !.pt = old.pt, !.sz = old.sz, !.ip = IF @ > 0 THEN @ - 1 ELSE @]

\* Give the old image back and keep the new one.
ExecCommit(m, old) == [proc_freepagetable([m EXCEPT !.pt = old.pt], old.sz) EXCEPT !.pt = m.pt]

NewImage(m, call) ==
  Then(Then(Then(Then(m, proc_pagetable), LAMBDA b : FoldLeft(Segment, b, call.image.segs)),
            LAMBDA c : Stack(iunlockput(c))),
       LAMBDA d : Arguments(d, call.args))

kexec(m, call) ==
  IF ~call.image.exists THEN Fail(m)
  ELSE OrElse(Then(NewImage([m EXCEPT !.ip = 1, !.pt = NoTable, !.sz = 0, !.ok = call.image.elf], call),
                   LAMBDA a : ExecCommit(a, m)),
              LAMBDA b : ExecBad(b, m))

\* One argument of exec: the pointer, a page for the string, the string.
FetchArg(m, call) ==
  Then(Then(fetchaddr(m, call.uargv), kalloc), LAMBDA a : copyinstr([a EXCEPT !.argv = @ + 1], call.uarg))

\* The loop of sys_exec(), up to the null pointer or to the end of argv[].
FetchArgs(m, call) ==
  Then(FoldLeft(LAMBDA r, len : Then(r, LAMBDA a : FetchArg(a, call)), m, call.args),
       LAMBDA b : IF Len(call.args) >= MAXARG THEN Fail(b) ELSE fetchaddr(b, call.uargv))

FreeArgs(m) == [m EXCEPT !.free = @ + m.argv]

sys_exec(m, call) ==
  Then(copyinstr(m, call.path),
       LAMBDA a : FreeArgs(Then(FetchArgs(a, call), LAMBDA b : kexec(b, call))))
-----------------------------------------------------------------------------
\* A call starts with n pages to be had.
Start(p, n) ==
  [free |-> free, n |-> n, pt |-> proc[p].pt, sz |-> proc[p].sz, ok |-> TRUE, argv |-> 0,
   ip |-> 0, panicked |-> panicked]

\* What the call leaves behind.
Finish(p, m, state) ==
  /\ free' = m.free
  /\ panicked' = m.panicked
  /\ inodes' = inodes + m.ip
  /\ proc' = [proc EXCEPT ![p] = [state |-> state, sz |-> m.sz, pt |-> m.pt]]

\* User code runs: its first page is there.
Running(p) ==
  /\ panicked = 0
  /\ proc[p].state = "used" /\ walkaddr(proc[p].pt, 0)

\* userinit()
Init ==
  LET m == allocproc([free |-> NPAGES, n |-> NPAGES, pt |-> NoTable, sz |-> 0, ok |-> TRUE,
                      argv |-> 0, ip |-> 0, panicked |-> 0])
  IN /\ free = m.free
     /\ proc = [p \in Procs |-> IF p = initproc THEN [state |-> "used", sz |-> 0, pt |-> m.pt]
                                                ELSE Unused]
     /\ inodes = 0
     /\ panicked = m.panicked

\* forkret() of the first process, which panics if exec fails
forkret ==
  /\ panicked = 0 /\ proc[initproc].sz = 0 /\ proc[initproc].state = "used"
  /\ \E call \in {c \in Calls : WellFormed(c.image) /\ c.args = <<1>>} :
       LET m == kexec(Start(initproc, NPAGES), call)
       IN Finish(initproc, IF m.ok THEN m ELSE [m EXCEPT !.panicked = 1], "used")

\* growproc(), by way of sys_sbrk() with SBRK_EAGER or a negative count; one that
\* takes away more than there is wraps around, and uvmdealloc() leaves the size alone
growproc(p) ==
  /\ Running(p)
  /\ \E k \in -MaxSz..MaxSz : \E n \in IF k > 0 THEN Budgets ELSE {0} :
       LET m == Start(p, n)
           sz == (m.sz + k) % WORD
           a == IF k > 0 THEN uvmalloc(m, m.sz, sz, 1) ELSE uvmdealloc(m, m.sz, sz)
       IN /\ k > 0 => sz <= MaxSz
          /\ Finish(p, IF a.ok /\ (k > 0 \/ sz < m.sz) THEN [a EXCEPT !.sz = sz] ELSE a, "used")

\* sys_sbrk() that grows lazily
sys_sbrk(p) ==
  /\ Running(p)
  /\ \E k \in 0..MaxSz - proc[p].sz :
       LET m == Start(p, 0) IN Finish(p, [m EXCEPT !.sz = @ + k], "used")

\* Two faults take five pages at most.
FewPages == {n \in Budgets : n <= 5}

\* A system call that fills a buffer of one or two pages.
either_copyout(p) ==
  /\ Running(p)
  /\ \E va \in VA, k \in 0..1, n \in FewPages :
       Finish(p, copyout(Start(p, n), [i \in 1..1 + k |-> va + i - 1], "data"), "used")

\* A system call that reads such a buffer.
either_copyin(p) ==
  /\ Running(p)
  /\ \E va \in VA, k \in 0..1, n \in FewPages :
       Finish(p, copyin(Start(p, n), [i \in 1..1 + k |-> va + i - 1]), "used")

\* A store of the program to a page it may write.
Store(p) ==
  /\ Running(p)
  /\ \E va \in VA :
       LET m == Start(p, 0)
       IN /\ walkaddr(m.pt, va) /\ Writable(m, va)
          /\ Finish(p, [m EXCEPT !.pt.pte[va].val = "data"], "used")

\* usertrap() on a load or store that the page table does not allow: the page
\* is given its memory, or the process dies.  init is assumed to be careful.
usertrap(p) ==
  /\ Running(p)
  /\ \E va \in VA, n \in FewPages, store \in BOOLEAN :
       LET m == Start(p, n)
           a == vmfault(m, va)
       IN /\ ~(walkaddr(m.pt, va) /\ (store => Writable(m, va)))
          /\ p = initproc => a.ok
          /\ Finish(p, a, IF a.ok THEN "used" ELSE "zombie")

\* kexit() leaves the memory to the parent.
kexit(p) ==
  /\ panicked = 0 /\ proc[p].state = "used" /\ p # initproc
  /\ proc' = [proc EXCEPT ![p].state = "zombie"]
  /\ UNCHANGED <<free, inodes, panicked>>

\* freeproc() of a zombie, in the kwait() of its parent; see module Proc.
Reap(p) ==
  /\ panicked = 0 /\ proc[p].state = "zombie"
  /\ Finish(p, [freeproc(Start(p, 0)) EXCEPT !.sz = 0], "unused")

kfork(p, np) ==
  /\ Running(p) /\ proc[np].state = "unused"
  /\ \E n \in Budgets :
       LET m == Then(allocproc(Start(np, n)),
                     LAMBDA a : OrElse(uvmcopy(a, proc[p].pt, proc[p].sz), freeproc))
       IN IF m.ok THEN Finish(np, [m EXCEPT !.sz = proc[p].sz], "used") ELSE Finish(np, m, "unused")

exec(p) ==
  /\ Running(p)
  /\ \E call \in Calls, n \in Budgets : Finish(p, sys_exec(Start(p, n), call), "used")

\* Bound: the parent waits for its child before the next call, and the child
\* only loads, stores and exits; the two have no page in common.
Alone(p) == \A q \in Procs \ {p} : proc[q].state = "unused"

Next ==
  \/ forkret
  \/ \E p \in {q \in Procs : Alone(q)} :
       \/ growproc(p)
       \/ sys_sbrk(p)
       \/ either_copyout(p)
       \/ either_copyin(p)
       \/ \E np \in Procs \ {p} : kfork(p, np)
       \/ exec(p)
  \/ \E p \in Procs :
       \/ Store(p)
       \/ usertrap(p)
       \/ kexit(p)
       \/ Reap(p)

Spec == Init /\ [][Next]_vars
-----------------------------------------------------------------------------
\* Pages a process owns: the trapframe, page-table pages and user pages.
Owned(p) ==
  IF proc[p].pt = NoTable THEN 0
  ELSE 1 + Cardinality(proc[p].pt.tab)
         + Cardinality({va \in 0..TRAPFRAME - 1 : ismapped(proc[p].pt, va)})

\* Whatever call ran out of memory and wherever it did, every page is either on
\* the free list or owned by exactly one process, user pages lie below the size
\* that freeproc() will unmap, exec has let its inode go, and neither walk(),
\* mappages(), freewalk() nor loadseg() has panicked.
PagesConserved ==
  /\ panicked = 0 /\ inodes = 0
  /\ free \in 0..NPAGES
  /\ free + FoldFunction(LAMBDA a, b : a + b, 0, [p \in Procs |-> Owned(p)]) = NPAGES
  /\ \A p \in Procs :
       /\ proc[p].state \in {"unused", "used", "zombie"} /\ proc[p].sz \in 0..MaxSz
       /\ \A va \in 0..TRAPFRAME - 1 : ismapped(proc[p].pt, va) => va < Up(proc[p].sz)

PermOf(pte) == IF pte.u = 0 THEN "none" ELSE IF pte.w = 1 THEN "rw" ELSE "r"

\* What a program finds in each of its pages: lazy ones read as zero.
Contents(p) ==
  IF proc[p].state # "used" THEN << >>
  ELSE [j \in 1..Up(proc[p].sz) |->
          LET pte == Entry(proc[p].pt, j - 1)
          IN IF pte = Unmapped THEN [val |-> "zero", perm |-> "rw"]
             ELSE [val |-> pte.val, perm |-> PermOf(pte)]]

\* The array that a well-formed file and fitting arguments produce.
Program(image) ==
  LET segs == SelectSeq(image.segs, LAMBDA s : s.load)
      Covers(s, j) == j < Up(s.vaddr + s.memsz)
      size == Max({Up(s.vaddr + s.memsz) : s \in ToSet(segs)})
      Page(j) == LET k == Min({i \in DOMAIN segs : Covers(segs[i], j)})
                 IN [val |-> IF \E s \in ToSet(segs) : s.vaddr \div PGSIZE <= j
                                                      /\ j < Up(s.vaddr + s.filesz)
                             THEN "text" ELSE "zero",
                     perm |-> IF segs[k].w = 1 THEN "rw" ELSE "r"]
  IN [j \in 1..size |-> Page(j - 1)]
     \o << [val |-> "zero", perm |-> "none"], [val |-> "args", perm |-> "rw"] >>

User == INSTANCE UserMemory
          WITH Values <- {"data"},
               Programs <- {Program(c.image) : c \in {d \in Calls : WellFormed(d.image)}},
               mem <- [p \in Procs |-> Contents(p)]

\* Seen by the programs the address spaces are arrays of their own: growing adds
\* zeroed pages, fork() copies what was written, lazy pages included, a guard
\* page or program text is never written, and a call that fails half-way
\* (sbrk(), fork(), exec()) changes nobody's array.
IsUserMemory == User!USpec
=============================================================================
