------------------------------- MODULE Sched -------------------------------
(***************************************************************************)
(* The scheduler, sleep and wakeup of kernel/proc.c, with the sleep locks  *)
(* of kernel/sleeplock.c as their user.  Every CPU runs scheduler() and,   *)
(* by swtch(), kernel threads; p->lock is handed from one to the other     *)
(* across the switch.  A thread of this model takes and gives back one     *)
(* sleep lock, kills other processes, and is preempted by timer            *)
(* interrupts.  acquire() and release() of a spin lock are one step each,  *)
(* as module Spinlock justifies, and keep noff and intena.                 *)
(***************************************************************************)
EXTENDS Integers, FiniteSets

CONSTANTS CPUs, NPROC, NoCPU

ASSUME SchedAssumption == NoCPU \notin CPUs /\ NPROC \in Nat \ {0}

Procs == 1..NPROC
NoProc == 0

VARIABLES
  state,    \* p->state
  chan,     \* p->chan # 0; the only channel is the sleep lock
  plock,    \* CPU that holds p->lock
  lk,       \* CPU that holds the spin lock inside the sleep lock
  locked,   \* lk->locked of the sleep lock
  pid,      \* lk->pid of the sleep lock
  proc,     \* c->proc
  thread,   \* whose code the CPU executes: a process, or NoProc in scheduler()
  irq,      \* SIE, noff and intena of the CPU
  spc,      \* where scheduler() is
  sp,       \* local variable p of scheduler()
  found,    \* local variable of scheduler()
  pc,       \* where the process's kernel thread is
  ret,      \* where its yield() returns to
  loop,     \* loop variable of wakeup()
  intena,   \* local variable of sched()
  panicked

sleeplock == <<lk, locked, pid>>
cpus == <<proc, thread, irq, spc, sp, found>>
locals == <<ret, loop, intena>>
vars == <<state, chan, plock, sleeplock, cpus, pc, locals, panicked>>

\* intr_on() and intr_off()
IntrOn(s) == [s EXCEPT !.intr = 1]
IntrOff(s) == [s EXCEPT !.intr = 0]

\* push_off() and pop_off(), as acquire() and release() call them.
Push(s) == [intr |-> 0, noff |-> s.noff + 1,
            intena |-> IF s.noff = 0 THEN s.intr ELSE s.intena]
Pop(s) == [intr |-> IF s.noff = 1 /\ s.intena = 1 THEN 1 ELSE s.intr,
           noff |-> s.noff - 1, intena |-> s.intena]

PushOff(c) == irq' = [irq EXCEPT ![c] = Push(@)]
PopOff(c) == irq' = [irq EXCEPT ![c] = Pop(@)]
Goto(p, l) == pc' = [pc EXCEPT ![p] = l]

\* p's kernel thread executes on c and has come to l.
At(c, p, l) == thread[c] = p /\ pc[p] = l

Init ==
  /\ state = [p \in Procs |-> "RUNNABLE"]
  /\ chan = [p \in Procs |-> 0]
  /\ plock = [p \in Procs |-> NoCPU]
  /\ lk = NoCPU /\ locked = 0 /\ pid = NoProc
  /\ proc = [c \in CPUs |-> NoProc]
  /\ thread = [c \in CPUs |-> NoProc]
  /\ irq = [c \in CPUs |-> [intr |-> 0, noff |-> 0, intena |-> 0]]
  /\ spc = [c \in CPUs |-> "outer"]
  /\ sp = [c \in CPUs |-> 1]
  /\ found = [c \in CPUs |-> 0]
  /\ pc = [p \in Procs |-> "forkret"]
  /\ ret = [p \in Procs |-> "run"]
  /\ loop = [p \in Procs |-> 1]
  /\ intena = [p \in Procs |-> 0]
  /\ panicked = 0

-----------------------------------------------------------------------------
\* scheduler(): the top of the outer loop, intr_on() and intr_off().
scheduler_outer(c) ==
  /\ thread[c] = NoProc /\ spc[c] = "outer"
  /\ irq' = [irq EXCEPT ![c] = IntrOff(@)]
  /\ found' = [found EXCEPT ![c] = 0]
  /\ sp' = [sp EXCEPT ![c] = 1]
  /\ spc' = [spc EXCEPT ![c] = "acquire"]
  /\ UNCHANGED <<state, chan, plock, sleeplock, proc, thread, pc, locals, panicked>>

scheduler_acquire(c) ==
  /\ thread[c] = NoProc /\ spc[c] = "acquire"
  /\ plock[sp[c]] = NoCPU
  /\ plock' = [plock EXCEPT ![sp[c]] = c]
  /\ PushOff(c)
  /\ spc' = [spc EXCEPT ![c] = "test"]
  /\ UNCHANGED <<state, chan, sleeplock, proc, thread, sp, found, pc, locals, panicked>>

Eligible_Awake(p) == state[p] # "SLEEPING"

Eligible(p) == state[p] = "RUNNABLE"

\* A process that can run is switched to, with its lock held.
scheduler_swtch(c) ==
  /\ thread[c] = NoProc /\ spc[c] = "test" /\ Eligible(sp[c])
  /\ state' = [state EXCEPT ![sp[c]] = "RUNNING"]
  /\ proc' = [proc EXCEPT ![c] = sp[c]]
  /\ thread' = [thread EXCEPT ![c] = sp[c]]
  /\ spc' = [spc EXCEPT ![c] = "back"]
  /\ UNCHANGED <<chan, plock, sleeplock, irq, sp, found, pc, locals, panicked>>

\* found = 1
Found(c) == [found EXCEPT ![c] = 1]

NextP_Restart(c) == IF spc[c] = "back" \/ sp[c] = NPROC THEN 1 ELSE sp[c] + 1

\* p++
NextP(c) == IF sp[c] = NPROC THEN 1 ELSE sp[c] + 1

\* release(&p->lock), with or without a switch before, and the loop goes on.
scheduler_release(c) ==
  /\ thread[c] = NoProc
  /\ \/ spc[c] = "test" /\ ~Eligible(sp[c]) /\ UNCHANGED <<proc, found>>
     \/ spc[c] = "back" /\ proc' = [proc EXCEPT ![c] = NoProc] /\ found' = Found(c)
  /\ panicked' = IF plock[sp[c]] # c THEN 1 ELSE 0
  /\ plock' = [plock EXCEPT ![sp[c]] = NoCPU]
  /\ PopOff(c)
  /\ sp' = [sp EXCEPT ![c] = NextP(c)]
  /\ spc' = [spc EXCEPT ![c] = IF sp[c] < NPROC THEN "acquire"
                               ELSE IF found'[c] = 0 THEN "wfi" ELSE "outer"]
  /\ UNCHANGED <<state, chan, sleeplock, thread, pc, locals>>

\* wfi returns when an interrupt is pending; the timer sees to that.
wfi(c) ==
  /\ thread[c] = NoProc /\ spc[c] = "wfi"
  /\ spc' = [spc EXCEPT ![c] = "outer"]
  /\ UNCHANGED <<state, chan, plock, sleeplock, proc, thread, irq, sp, found, pc,
                 locals, panicked>>

-----------------------------------------------------------------------------
SchedPanics(c, p) ==
  \/ plock[p] # c
  \/ irq[c].noff # 1
  \/ state[p] = "RUNNING"
  \/ irq[c].intr = 1

\* sched(): the checks, and the switch to the CPU's scheduler.
sched(c, p) ==
  /\ thread[c] = p /\ pc[p] \in {"yield_sched", "sleep_sched"}
  /\ panicked' = IF SchedPanics(c, p) THEN 1 ELSE 0
  /\ intena' = [intena EXCEPT ![p] = irq[c].intena]
  /\ thread' = [thread EXCEPT ![c] = NoProc]
  /\ Goto(p, IF pc[p] = "yield_sched" THEN "yielded" ELSE "woken")
  /\ UNCHANGED <<state, chan, plock, sleeplock, proc, irq, spc, sp, found, ret, loop>>

ResumeIrq_CpusOwn(c, p) == Pop(irq[c])

\* mycpu()->intena = intena, and release(&p->lock) in the caller of sched().
ResumeIrq(c, p) == Pop([irq[c] EXCEPT !.intena = intena[p]])

\* A timer interrupt: interrupts go off, and yield() runs until it calls sched().
yield(c, p) ==
  /\ thread[c] = p /\ irq[c].intr = 1
  /\ plock[p] = NoCPU
  /\ plock' = [plock EXCEPT ![p] = c]
  /\ irq' = [irq EXCEPT ![c] = Push(IntrOff(@))]
  /\ state' = [state EXCEPT ![p] = "RUNNABLE"]
  /\ ret' = [ret EXCEPT ![p] = pc[p]]
  /\ Goto(p, "yield_sched")
  /\ UNCHANGED <<chan, sleeplock, proc, thread, spc, sp, found, loop, intena,
                 panicked>>

\* The end of yield(), and the return from the trap, which restores SIE.
yield_return(c, p) ==
  /\ At(c, p, "yielded")
  /\ panicked' = IF plock[p] # c THEN 1 ELSE 0
  /\ plock' = [plock EXCEPT ![p] = NoCPU]
  /\ irq' = [irq EXCEPT ![c] = IntrOn(ResumeIrq(c, p))]
  /\ Goto(p, ret[p])
  /\ ret' = [ret EXCEPT ![p] = "run"]
  /\ intena' = [intena EXCEPT ![p] = 0]
  /\ UNCHANGED <<state, chan, sleeplock, proc, thread, spc, sp, found, loop>>

\* The first switch to a process: forkret() releases the lock and leaves for user space.
forkret(c, p) ==
  /\ At(c, p, "forkret")
  /\ panicked' = IF plock[p] # c THEN 1 ELSE 0
  /\ plock' = [plock EXCEPT ![p] = NoCPU]
  /\ irq' = [irq EXCEPT ![c] = IntrOn(Pop(@))]
  /\ Goto(p, "run")
  /\ UNCHANGED <<state, chan, sleeplock, proc, thread, spc, sp, found, locals>>

\* sleep(chan, lk): acquire(&p->lock).
sleep(c, p) ==
  /\ At(c, p, "sleep")
  /\ plock[p] = NoCPU
  /\ plock' = [plock EXCEPT ![p] = c]
  /\ PushOff(c)
  /\ Goto(p, "sleep_set")
  /\ UNCHANGED <<state, chan, sleeplock, proc, thread, spc, sp, found, locals, panicked>>

\* release(lk), and the process is marked as sleeping.
sleep_set(c, p) ==
  /\ At(c, p, "sleep_set")
  /\ panicked' = IF lk # c THEN 1 ELSE 0
  /\ lk' = NoCPU
  /\ PopOff(c)
  /\ chan' = [chan EXCEPT ![p] = 1]
  /\ state' = [state EXCEPT ![p] = "SLEEPING"]
  /\ Goto(p, "sleep_sched")
  /\ UNCHANGED <<plock, locked, pid, proc, thread, spc, sp, found, locals>>

\* After the switch back: p->chan = 0, release(&p->lock); then acquire(lk).
sleep_return(c, p) ==
  /\ At(c, p, "woken")
  /\ panicked' = IF plock[p] # c THEN 1 ELSE 0
  /\ chan' = [chan EXCEPT ![p] = 0]
  /\ plock' = [plock EXCEPT ![p] = NoCPU]
  /\ irq' = [irq EXCEPT ![c] = ResumeIrq(c, p)]
  /\ Goto(p, "reacquire")
  /\ intena' = [intena EXCEPT ![p] = 0]
  /\ UNCHANGED <<state, sleeplock, proc, thread, spc, sp, found, ret, loop>>

-----------------------------------------------------------------------------
\* while (lk->locked) sleep(lk, &lk->lk)
AfterReacquire == "test"

\* acquiresleep(): acquire(&lk->lk), on entry and at the end of sleep().
acquiresleep(c, p) ==
  /\ thread[c] = p /\ pc[p] \in {"run", "reacquire"} /\ lk = NoCPU
  /\ lk' = c
  /\ PushOff(c)
  /\ Goto(p, IF pc[p] = "run" THEN "test" ELSE AfterReacquire)
  /\ UNCHANGED <<state, chan, plock, locked, pid, proc, thread, spc, sp, found, locals,
                 panicked>>

acquiresleep_test(c, p) ==
  /\ At(c, p, "test")
  /\ Goto(p, IF locked = 1 THEN "sleep" ELSE "take")
  /\ UNCHANGED <<state, chan, plock, sleeplock, cpus, locals, panicked>>

acquiresleep_take(c, p) ==
  /\ At(c, p, "take")
  /\ locked' = 1 /\ pid' = p
  /\ panicked' = IF lk # c THEN 1 ELSE 0
  /\ lk' = NoCPU
  /\ PopOff(c)
  /\ Goto(p, "held")
  /\ UNCHANGED <<state, chan, plock, proc, thread, spc, sp, found, locals>>

Cleared_Not == locked

\* lk->locked = 0
Cleared == 0

\* releasesleep(): up to the call of wakeup().
releasesleep(c, p) ==
  /\ At(c, p, "held") /\ lk = NoCPU
  /\ lk' = c
  /\ PushOff(c)
  /\ locked' = Cleared /\ pid' = NoProc
  /\ Goto(p, "wakeup")
  /\ UNCHANGED <<state, chan, plock, proc, thread, spc, sp, found, locals, panicked>>

WakeupSkips_Busy(c, q) == q = proc[c] \/ plock[q] # NoCPU

\* if(p != myproc())
WakeupSkips(c, q) == q = proc[c]

\* One iteration of wakeup(), a critical section of the other process's lock.
wakeup(c, p) ==
  /\ At(c, p, "wakeup") /\ loop[p] <= NPROC
  /\ \/ /\ WakeupSkips(c, loop[p])
        /\ UNCHANGED state
     \/ /\ ~WakeupSkips(c, loop[p]) /\ plock[loop[p]] = NoCPU
        /\ state' = [state EXCEPT ![loop[p]] =
                       IF @ = "SLEEPING" /\ chan[loop[p]] = 1 THEN "RUNNABLE" ELSE @]
  /\ loop' = [loop EXCEPT ![p] = @ + 1]
  /\ UNCHANGED <<chan, plock, sleeplock, cpus, pc, ret, intena, panicked>>

\* wakeup() is done: release(&lk->lk).
releasesleep_return(c, p) ==
  /\ At(c, p, "wakeup") /\ loop[p] > NPROC
  /\ panicked' = IF lk # c THEN 1 ELSE 0
  /\ lk' = NoCPU
  /\ PopOff(c)
  /\ loop' = [loop EXCEPT ![p] = 1]
  /\ Goto(p, "run")
  /\ UNCHANGED <<state, chan, plock, locked, pid, proc, thread, spc, sp, found, ret, intena>>

\* kkill(pid): its loop changes nothing before the critical section of the victim.
\* (p->killed, which sleep locks ignore, is in module Proc.)
kkill(c, p, v) ==
  /\ At(c, p, "run") /\ plock[v] = NoCPU
  /\ state' = [state EXCEPT ![v] = IF @ = "SLEEPING" THEN "RUNNABLE" ELSE @]
  /\ UNCHANGED <<chan, plock, sleeplock, cpus, pc, locals, panicked>>

-----------------------------------------------------------------------------
Scheduler(c) ==
  scheduler_outer(c) \/ scheduler_acquire(c) \/ scheduler_swtch(c) \/ scheduler_release(c) \/ wfi(c)

Resume(c, p) == yield_return(c, p) \/ forkret(c, p) \/ sleep_return(c, p)

Sleeping(c, p) == sleep(c, p) \/ sleep_set(c, p) \/ sched(c, p) \/ yield(c, p)

Sleeplock(c, p) ==
  \/ acquiresleep(c, p) \/ acquiresleep_test(c, p) \/ acquiresleep_take(c, p)
  \/ releasesleep(c, p) \/ wakeup(c, p) \/ releasesleep_return(c, p)

Next ==
  /\ panicked = 0
  /\ \E c \in CPUs : \/ Scheduler(c)
                     \/ \E p \in Procs : \/ Resume(c, p) \/ Sleeping(c, p)
                                         \/ Sleeplock(c, p)
                                         \/ \E v \in Procs : kkill(c, p, v)

Spec == Init /\ [][Next]_vars

(***************************************************************************)
(* Fairness.  A CPU executes its instructions; a spin lock that is free    *)
(* again and again is got in the end (the bus does not starve a CPU's      *)
(* amoswap); the timer interrupts a CPU whose interrupts are on; the       *)
(* holder of the sleep lock gives it back.  Nobody has to ask for the      *)
(* lock, or to kill.                                                       *)
(***************************************************************************)
Fairness ==
  /\ \A c \in CPUs : /\ WF_vars(Scheduler(c)) /\ SF_vars(scheduler_acquire(c))
                     /\ SF_vars(\E p \in Procs : yield(c, p))
  /\ \A p \in Procs :
       /\ SF_vars(\E c \in CPUs : Resume(c, p) \/ sched(c, p) \/ sleep_set(c, p))
       /\ SF_vars(\E c \in CPUs : sleep(c, p))
       /\ SF_vars(\E c \in CPUs : pc[p] # "run" /\ Sleeplock(c, p))

FairSpec == Spec /\ Fairness

-----------------------------------------------------------------------------
PCs == {"forkret", "run", "yield_sched", "yielded", "sleep", "sleep_set", "sleep_sched", "woken",
        "reacquire", "test", "take", "held", "wakeup"}
Irq == [intr : {0, 1}, noff : 0..2, intena : {0, 1}]

TypeOK ==
  /\ state \in [Procs -> {"RUNNABLE", "RUNNING", "SLEEPING"}]
  /\ chan \in [Procs -> {0, 1}]
  /\ plock \in [Procs -> CPUs \union {NoCPU}]
  /\ lk \in CPUs \union {NoCPU} /\ locked \in {0, 1} /\ pid \in Procs \union {NoProc}
  /\ proc \in [CPUs -> Procs \union {NoProc}] /\ thread \in [CPUs -> Procs \union {NoProc}]
  /\ irq \in [CPUs -> Irq]
  /\ spc \in [CPUs -> {"outer", "acquire", "test", "back", "wfi"}]
  /\ sp \in [CPUs -> Procs] /\ found \in [CPUs -> {0, 1}]
  /\ pc \in [Procs -> PCs] /\ ret \in [Procs -> PCs]
  /\ loop \in [Procs -> 1..NPROC + 1]
  /\ intena \in [Procs -> {0, 1}]
  /\ panicked \in {0, 1}

(***************************************************************************)
(* A kernel thread is executed by one CPU at a time, the one whose c->proc *)
(* names it, and is then RUNNING unless it holds its own p->lock: between  *)
(* setting p->state and swtch() no other scheduler() takes it over.  So    *)
(* none of sched()'s four panics, nor a release() of a spin lock that this *)
(* CPU does not hold, is reached, though p->lock is acquired by a thread   *)
(* and released by the scheduler or the reverse.                           *)
(***************************************************************************)
OneCPUPerThread ==
  /\ TypeOK /\ panicked = 0
  /\ \A c \in CPUs : thread[c] # NoProc =>
       /\ proc[c] = thread[c]
       /\ state[thread[c]] = "RUNNING" \/ plock[thread[c]] = c
       /\ \A d \in CPUs : thread[d] = thread[c] => d = c

(***************************************************************************)
(* No wakeup is lost: a process sleeps on a free sleep lock only while     *)
(* some releasesleep() is in its wakeup() loop and has yet to come to it.  *)
(***************************************************************************)
NoLostWakeup ==
  \A p \in Procs : state[p] = "SLEEPING" /\ locked = 0 =>
    \E q \in Procs : pc[q] = "wakeup" /\ loop[q] <= p

(***************************************************************************)
(* intena belongs to the kernel thread: code that slept with interrupts    *)
(* enabled has them enabled when sleep() returns, on whatever CPU; and a   *)
(* CPU stops in wfi only with interrupts off since it last looked at the   *)
(* processes, so that no handler makes one RUNNABLE between the scan and   *)
(* the wfi (the comment at the top of scheduler()'s loop).                 *)
(***************************************************************************)
IntrFollowsThread ==
  \A c \in CPUs :
    /\ thread[c] # NoProc /\ pc[thread[c]] \in {"run", "held", "reacquire"}
         => irq[c].intr = 1 /\ irq[c].noff = 0
    /\ thread[c] = NoProc /\ spc[c] = "wfi" => irq[c].intr = 0

(***************************************************************************)
(* A process that can run is run: scheduler() passes over the whole table. *)
(***************************************************************************)
RunnableRuns == \A p \in Procs : state[p] = "RUNNABLE" ~> state[p] = "RUNNING"

(***************************************************************************)
(* A process that sleeps on a sleep lock does not sleep for ever.          *)
(***************************************************************************)
SleeperWakes == \A p \in Procs : state[p] = "SLEEPING" ~> state[p] # "SLEEPING"
=============================================================================
