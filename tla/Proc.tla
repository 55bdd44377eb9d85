-------------------------------- MODULE Proc --------------------------------
(***************************************************************************)
(* The life of a process: fork, exit, wait and kill of kernel/proc.c, with *)
(* the checks of p->killed in usertrap().  One step is one critical        *)
(* section of wait_lock or of a p->lock, or a part of one.  RUNNABLE and   *)
(* RUNNING are one state here, and sleep() is one step; module Sched has   *)
(* both in detail.  p->lock is held from one step to the next only by a    *)
(* process that exits, until swtch() has left its kernel stack.            *)
(***************************************************************************)
EXTENDS Integers

CONSTANTS NPROC, MaxPid, KillPids

ASSUME ProcAssumption == NPROC \in Nat \ {0} /\ MaxPid \in Nat \ {0} /\ KillPids \subseteq Nat

Procs == 1..NPROC
NoProc == 0
initproc == 1

VARIABLES
  state, parent, killed, pid,    \* fields of struct proc
  nextpid,
  wait_lock,   \* process that holds it
  pc,          \* where the process's thread is
  pp,          \* loop variable of allocproc(), kwait() and kkill(); np of kfork()
  havekids,    \* local variable of kwait()
  arg,         \* argument of kkill()
  missed,      \* history: processes it found between killed() and sleep() in kwait()
  panicked

table == <<state, parent, killed, pid>>
locals == <<pp, havekids, arg>>
vars == <<table, nextpid, wait_lock, pc, locals, missed, panicked>>

\* userinit()
Init ==
  /\ state = [p \in Procs |-> IF p = initproc THEN "RUNNABLE" ELSE "UNUSED"]
  /\ parent = [p \in Procs |-> NoProc]
  /\ killed = [p \in Procs |-> 0]
  /\ pid = [p \in Procs |-> IF p = initproc THEN 1 ELSE 0]
  /\ nextpid = 2
  /\ wait_lock = NoProc
  /\ pc = [p \in Procs |-> IF p = initproc THEN "user" ELSE "off"]
  /\ pp = [p \in Procs |-> 1]
  /\ havekids = [p \in Procs |-> 0]
  /\ arg = [p \in Procs |-> 0]
  /\ missed = {}
  /\ panicked = 0

At(p, l) == state[p] = "RUNNABLE" /\ pc[p] = l
Goto(p, l) == pc' = [pc EXCEPT ![p] = l]

LockFree_Ignored(q) == TRUE

\* acquire(&q->lock) does not have to wait.
LockFree(q) == pc[q] # "swtch"

-----------------------------------------------------------------------------
\* usertrap(): a system call starts, unless the process was killed.
Syscall(p, l) ==
  /\ At(p, "user") /\ killed[p] = 0
  /\ Goto(p, l)
  /\ UNCHANGED <<table, nextpid, wait_lock, havekids, panicked>>

sys_fork(p) ==
  /\ nextpid <= MaxPid
  /\ Syscall(p, "allocproc")
  /\ UNCHANGED <<pp, arg, missed>>

sys_wait(p) == Syscall(p, "kwait") /\ UNCHANGED <<pp, arg, missed>>

\* The program that init runs does not call exit.
sys_exit(p) == p # initproc /\ Syscall(p, "kexit") /\ UNCHANGED <<pp, arg, missed>>

sys_kill(p, n) ==
  /\ Syscall(p, "kkill")
  /\ arg' = [arg EXCEPT ![p] = n]
  /\ UNCHANGED <<pp, missed>>

\* The end of a system call or of a device interrupt: if(killed(p)) kexit(-1).
usertrap(p) ==
  /\ state[p] = "RUNNABLE" /\ pc[p] \in {"user", "return"}
  /\ Goto(p, IF killed[p] = 1 THEN "kexit" ELSE "user")
  /\ UNCHANGED <<table, nextpid, wait_lock, locals, missed, panicked>>

-----------------------------------------------------------------------------
\* p->killed = 0 in freeproc()
Killed(q) == [killed EXCEPT ![q] = 0]

freeproc(q) ==
  /\ state' = [state EXCEPT ![q] = "UNUSED"]
  /\ parent' = [parent EXCEPT ![q] = NoProc]
  /\ killed' = Killed(q)
  /\ pid' = [pid EXCEPT ![q] = 0]
  /\ missed' = missed \ {q}

\* A slot of allocproc()'s loop.
allocproc_next(p) ==
  /\ At(p, "allocproc") /\ LockFree(pp[p])
  /\ state[pp[p]] # "UNUSED"
  /\ pp' = [pp EXCEPT ![p] = IF @ < NPROC THEN @ + 1 ELSE 1]
  /\ Goto(p, IF pp[p] < NPROC THEN "allocproc" ELSE "return")
  /\ UNCHANGED <<table, nextpid, wait_lock, havekids, arg, missed, panicked>>

allocpid_Same == nextpid

\* nextpid = nextpid + 1
allocpid == nextpid + 1

\* allocproc() and the first critical section of kfork().
kfork(p) ==
  /\ At(p, "allocproc") /\ LockFree(pp[p])
  /\ state[pp[p]] = "UNUSED"
  /\ nextpid' = allocpid
  /\ state' = [state EXCEPT ![pp[p]] = "USED"]
  /\ pid' = [pid EXCEPT ![pp[p]] = nextpid]
  /\ Goto(p, "parent")
  /\ UNCHANGED <<parent, killed, wait_lock, locals, missed, panicked>>

\* The same when kalloc(), proc_pagetable() or uvmcopy() fails.
kfork_fails(p) ==
  /\ At(p, "allocproc") /\ LockFree(pp[p])
  /\ state[pp[p]] = "UNUSED"
  /\ nextpid' = allocpid
  /\ freeproc(pp[p])
  /\ pp' = [pp EXCEPT ![p] = 1]
  /\ Goto(p, "return")
  /\ UNCHANGED <<wait_lock, havekids, arg, panicked>>

kfork_parent(p) ==
  /\ At(p, "parent") /\ wait_lock = NoProc
  /\ parent' = [parent EXCEPT ![pp[p]] = p]
  /\ Goto(p, "runnable")
  /\ UNCHANGED <<state, killed, pid, nextpid, wait_lock, locals, missed, panicked>>

kfork_runnable(p) ==
  /\ At(p, "runnable") /\ LockFree(pp[p])
  /\ state' = [state EXCEPT ![pp[p]] = "RUNNABLE"]
  /\ pc' = [pc EXCEPT ![p] = "return", ![pp[p]] = "user"]
  /\ pp' = [pp EXCEPT ![p] = 1]
  /\ UNCHANGED <<parent, killed, pid, nextpid, wait_lock, havekids, arg, missed, panicked>>

-----------------------------------------------------------------------------
reparent(p) == [q \in Procs |-> IF parent[q] = p THEN initproc ELSE parent[q]]

Woken_InitOnly(p) == IF \E q \in Procs : parent[q] = p THEN {initproc} ELSE {}

\* wakeup(initproc) for every abandoned child, and wakeup(p->parent): in kwait() a
\* process sleeps on its own address.
Woken(p) == {parent[p]} \union (IF \E q \in Procs : parent[q] = p THEN {initproc} ELSE {})

wakeup(s) == [q \in Procs |-> IF q \in s /\ state[q] = "SLEEPING" THEN "RUNNABLE" ELSE state[q]]

\* kexit(): its files are closed; acquire(&wait_lock), reparent(p), wakeup(p->parent).
kexit(p) ==
  /\ At(p, "kexit") /\ wait_lock = NoProc
  /\ panicked' = IF p = initproc THEN 1 ELSE 0
  /\ wait_lock' = p
  /\ parent' = reparent(p)
  /\ state' = wakeup(Woken(p))
  /\ Goto(p, "zombie")
  /\ UNCHANGED <<killed, pid, nextpid, locals, missed>>

kexit_zombie(p) ==
  /\ At(p, "zombie")
  /\ state' = [state EXCEPT ![p] = "ZOMBIE"]
  /\ wait_lock' = NoProc
  /\ Goto(p, "swtch")
  /\ UNCHANGED <<parent, killed, pid, nextpid, locals, missed, panicked>>

\* sched(): the CPU has left p's stack, and its scheduler() releases p->lock.
kexit_sched(p) ==
  /\ pc[p] = "swtch"
  /\ Goto(p, "off")
  /\ UNCHANGED <<table, nextpid, wait_lock, locals, missed, panicked>>

-----------------------------------------------------------------------------
\* kwait(): acquire(&wait_lock), on entry and at the end of sleep().
kwait(p) ==
  /\ At(p, "kwait") /\ wait_lock = NoProc
  /\ wait_lock' = p
  /\ Goto(p, "scan")
  /\ UNCHANGED <<table, nextpid, locals, missed, panicked>>

\* pp < &proc[NPROC] is false
ScanDone(p) == pp[p] > NPROC

\* A slot of the loop that does not hold a child that has exited.
kwait_next(p) ==
  /\ At(p, "scan") /\ ~ScanDone(p)
  /\ \/ /\ parent[pp[p]] # p
        /\ UNCHANGED havekids
     \/ /\ parent[pp[p]] = p /\ LockFree(pp[p]) /\ state[pp[p]] # "ZOMBIE"
        /\ havekids' = [havekids EXCEPT ![p] = 1]
  /\ pp' = [pp EXCEPT ![p] = @ + 1]
  /\ UNCHANGED <<table, nextpid, wait_lock, pc, arg, missed, panicked>>

\* return, with the local variables dead.
kwait_return(p) ==
  /\ wait_lock' = NoProc
  /\ pp' = [pp EXCEPT ![p] = 1]
  /\ havekids' = [havekids EXCEPT ![p] = 0]
  /\ Goto(p, "return")
  /\ UNCHANGED <<nextpid, arg, panicked>>

\* A child that has exited: its slot is freed, unless copyout() fails; init's
\* program passes no address to copy the status to.
kwait_zombie(p) ==
  /\ At(p, "scan") /\ ~ScanDone(p)
  /\ parent[pp[p]] = p /\ LockFree(pp[p]) /\ state[pp[p]] = "ZOMBIE"
  /\ freeproc(pp[p]) \/ (p # initproc /\ UNCHANGED <<table, missed>>)
  /\ kwait_return(p)

\* if(!havekids || killed(p))
kwait_fails(p) ==
  /\ At(p, "scan") /\ ScanDone(p)
  /\ havekids[p] = 0 \/ killed[p] = 1
  /\ kwait_return(p)
  /\ UNCHANGED <<table, missed>>

kwait_goes_on(p) ==
  /\ At(p, "scan") /\ ScanDone(p)
  /\ havekids[p] = 1 /\ killed[p] = 0
  /\ pp' = [pp EXCEPT ![p] = 1]
  /\ havekids' = [havekids EXCEPT ![p] = 0]
  /\ Goto(p, "sleep")
  /\ UNCHANGED <<table, nextpid, wait_lock, arg, missed, panicked>>

\* sleep(p, &wait_lock)
sleep(p) ==
  /\ At(p, "sleep")
  /\ state' = [state EXCEPT ![p] = "SLEEPING"]
  /\ wait_lock' = NoProc
  /\ Goto(p, "kwait")
  /\ UNCHANGED <<parent, killed, pid, nextpid, locals, missed, panicked>>

-----------------------------------------------------------------------------
WokenByKill_None(s) == s

\* if(p->state == SLEEPING) p->state = RUNNABLE
WokenByKill(s) == IF s = "SLEEPING" THEN "RUNNABLE" ELSE s

\* A slot of kkill()'s loop.
kkill(p) ==
  /\ At(p, "kkill") /\ LockFree(pp[p])
  /\ \/ /\ pid[pp[p]] = arg[p]
        /\ killed' = [killed EXCEPT ![pp[p]] = 1]
        /\ state' = [state EXCEPT ![pp[p]] = WokenByKill(@)]
        /\ missed' = IF pc[pp[p]] = "sleep" THEN missed \union {pp[p]} ELSE missed
     \/ /\ pid[pp[p]] # arg[p]
        /\ UNCHANGED <<killed, state, missed>>
  /\ IF pid[pp[p]] = arg[p] \/ pp[p] = NPROC
       THEN /\ pp' = [pp EXCEPT ![p] = 1]
            /\ arg' = [arg EXCEPT ![p] = 0]
            /\ Goto(p, "return")
       ELSE /\ pp' = [pp EXCEPT ![p] = @ + 1]
            /\ UNCHANGED <<arg, pc>>
  /\ UNCHANGED <<parent, pid, nextpid, wait_lock, havekids, panicked>>

-----------------------------------------------------------------------------
Calls(p) ==
  sys_fork(p) \/ sys_wait(p) \/ sys_exit(p) \/ \E n \in KillPids : sys_kill(p, n)

Kernel(p) ==
  \/ usertrap(p)
  \/ allocproc_next(p) \/ kfork(p) \/ kfork_fails(p) \/ kfork_parent(p) \/ kfork_runnable(p)
  \/ kexit(p) \/ kexit_zombie(p) \/ kexit_sched(p)
  \/ kwait(p) \/ kwait_next(p) \/ kwait_zombie(p) \/ kwait_fails(p) \/ kwait_goes_on(p)
  \/ sleep(p) \/ kkill(p)

Next == panicked = 0 /\ \E p \in Procs : Calls(p) \/ Kernel(p)

Spec == Init /\ [][Next]_vars

(***************************************************************************)
(* Fairness.  Every process is scheduled, timer interrupts bring it into   *)
(* the kernel, and it gets wait_lock in the end if that is free again and  *)
(* again.  The program of init keeps calling wait (user/init.c).           *)
(***************************************************************************)
Fairness ==
  /\ \A p \in Procs : WF_vars(Kernel(p)) /\ SF_vars(kexit(p) \/ kwait(p) \/ kfork_parent(p))
  /\ SF_vars(sys_wait(initproc))

FairSpec == Spec /\ Fairness

-----------------------------------------------------------------------------
States == {"UNUSED", "USED", "RUNNABLE", "SLEEPING", "ZOMBIE"}
PCs == {"off", "user", "return", "allocproc", "parent", "runnable", "kexit", "zombie", "swtch",
        "kwait", "scan", "sleep", "kkill"}
Slots == 1..NPROC + 1    \* the last is the end of proc[]

TypeOK ==
  /\ state \in [Procs -> States]
  /\ parent \in [Procs -> Procs \union {NoProc}]
  /\ killed \in [Procs -> {0, 1}]
  /\ pid \in [Procs -> Nat]
  /\ nextpid \in Nat
  /\ wait_lock \in Procs \union {NoProc}
  /\ pc \in [Procs -> PCs]
  /\ pp \in [Procs -> Slots]
  /\ \A p \in Procs : pc[p] # "scan" => pp[p] \in Procs
  /\ havekids \in [Procs -> {0, 1}]
  /\ arg \in [Procs -> Nat]
  /\ missed \subseteq Procs
  /\ panicked \in {0, 1}

(***************************************************************************)
(* No exit goes unnoticed: a process asleep in kwait() has a child to wait *)
(* for and none of its children, its own or adopted, has exited.           *)
(***************************************************************************)
NoLostExit ==
  /\ TypeOK
  /\ \A p \in Procs : state[p] = "SLEEPING" =>
       /\ \E q \in Procs : parent[q] = p
       /\ \A q \in Procs : parent[q] = p => state[q] # "ZOMBIE"

(***************************************************************************)
(* The slot and the kernel stack of a process are not freed, and not given *)
(* to a new one, before its thread has left that stack: kwait() acquires   *)
(* the child's lock "to make sure it isn't still in exit() or swtch()".    *)
(***************************************************************************)
FreedOffStack == \A p \in Procs : state[p] \in {"UNUSED", "USED"} => pc[p] = "off"

(***************************************************************************)
(* fork, exit and wait look atomic and give every process a pid of its     *)
(* own.  A child enters the tree when kfork() sets its parent; an exit     *)
(* happens when kexit() has given its children away.                       *)
(***************************************************************************)
InTree == {s \in Procs : s = initproc \/ parent[s] # NoProc}
SlotOf(n) == CHOOSE s \in InTree : pid[s] = n
Pid(s) == IF s = NoProc THEN 0 ELSE pid[s]
Dead(s) == IF state[s] = "ZOMBIE" \/ pc[s] = "zombie" THEN 1 ELSE 0

PidsInTree == {pid[s] : s \in InTree}
TreeOfSlots ==
  [n \in PidsInTree |-> [parent |-> Pid(parent[SlotOf(n)]), dead |-> Dead(SlotOf(n))]]

Tree == INSTANCE ProcTree WITH Pids <- Nat \ {0}, tree <- TreeOfSlots

AtomicTree == Tree!Spec

(***************************************************************************)
(* A killed process exits, though it sleeps in kwait() and its children    *)
(* live on, unless kkill() came after kwait() has called killed() and      *)
(* before it sleeps: then it exits when a child of it does.                *)
(***************************************************************************)
KilledExits ==
  \A p \in Procs :
    killed[p] = 1 /\ p \notin missed ~> state[p] \in {"ZOMBIE", "UNUSED"} \/ p \in missed
=============================================================================
